----------------------------- MODULE BluezAgent -----------------------------
(***************************************************************************)
(* The pairing agent: BluezAgent (main/applet/BluezAgent.py), which asks   *)
(* the user for what bluetoothd wants to know, and the AuthAgent plugin    *)
(* (plugins/applet/AuthAgent.py), which makes one while bluetoothd runs.   *)
(*                                                                         *)
(* bluetoothd has at most one request open at an agent.  Its calls, the    *)
(* property changes of devices and the changes of its name reach the       *)
(* applet in order through `queue'.                                        *)
(***************************************************************************)
EXTENDS Naturals, Sequences, FiniteSets

CONSTANTS
    Requests,   \* requests bluetoothd makes, each once
    Devices,
    NoRequest,
    Code,       \* a notification that shows a passkey or a PIN code
    Unshown,    \* a dialog or a notification that failed to be shown
    MaxQueue,   \* bound: messages on their way to the applet
    MaxStarts,  \* bound: starts of bluetoothd
    MaxShown    \* bound: codes displayed for a device

ASSUME AgentAssumption ==
    /\ NoRequest \notin Requests /\ Code \notin Requests
    /\ NoRequest # Code /\ Unshown \notin Requests \cup {NoRequest, Code}
    /\ MaxQueue \in Nat \ {0} /\ MaxStarts \in Nat /\ MaxShown \in Nat

VARIABLES
    bluez,     \* up: bluetoothd runs; knows: it has the agent; starts
    request,   \* what bluetoothd asked: its kind, and its state there
    queue,     \* messages on their way to the applet
    plugin,    \* loaded; state: manager_state as the applet knows it;
               \* has: the plugin holds an agent
    exported,  \* who serves /org/bluez/agent/blueman: the agent of the
               \* plugin, one the plugin has forgotten, or nobody
    dialog,    \* self.dialog: the request it asks for, or Unshown
    note,      \* self._notification: the request or the code it shows, or
               \* Unshown
    services,  \* self._service_notifications: their requests
    entry,     \* the devices in self._devhandlerids
    handlers,  \* how many property handlers each device has
    screen,    \* requests the user can still answer
    stray,     \* those of them an agent asked that is no more the plugin's
    answers    \* history: replies to each request

agentVars == <<bluez, request, queue, plugin, exported, dialog, note, services,
          entry, handlers, screen, stray, answers>>

prompts == <<dialog, note, services, entry, handlers, screen, stray>>
applet == <<plugin, exported, prompts, answers>>

RequestKinds == {"passkey", "confirm", "service"}
\* A PIN code, a passkey being typed, and one that is typed completely.
Codes == {"pin", "passkey", "typed"}

-----------------------------------------------------------------------------
(* bluetoothd and the devices *)

HasRoom(n) == Len(queue) + n <= MaxQueue
Send(m) == queue' = Append(queue, m)
NoneOpen == \A r \in Requests : request[r].state # "open"

Ask(r, kind) ==
    /\ bluez.up /\ bluez.knows /\ HasRoom(1)
    /\ request[r].state = "unused" /\ NoneOpen
    /\ request' = [request EXCEPT ![r] = [kind |-> kind, state |-> "open"]]
    /\ Send([kind |-> "request", r |-> r])
    /\ UNCHANGED <<bluez, applet>>

\* A request is given up, with or without a call of Cancel.
Withdraw(r) ==
    /\ bluez.up /\ request[r].state = "open" /\ HasRoom(1)
    /\ request' = [request EXCEPT ![r].state = "over"]
    /\ \/ Send([kind |-> "cancel", r |-> r])
       \/ UNCHANGED queue
    /\ UNCHANGED <<bluez, applet>>

\* A passkey is displayed whatever is open, with the number of digits typed
\* so far; a PIN code is a request.
Display(d, code) ==
    /\ bluez.up /\ bluez.knows /\ HasRoom(1)
    /\ code = "pin" => NoneOpen
    /\ Send([kind |-> "display", dev |-> d, code |-> code])
    /\ UNCHANGED <<bluez, request, applet>>

\* A device is now paired, or no longer connected.
DevicePropertyChanges(d) ==
    /\ bluez.up /\ HasRoom(1) /\ handlers[d] > 0
    /\ Send([kind |-> "property", dev |-> d])
    /\ UNCHANGED <<bluez, request, applet>>

AllGivenUp == [r \in Requests |->
              IF request[r].state = "open"
              THEN [request[r] EXCEPT !.state = "over"] ELSE request[r]]

\* bluetoothd stops, or dies without calling Release.
Stop ==
    /\ bluez.up /\ HasRoom(2)
    /\ bluez' = [bluez EXCEPT !.up = FALSE, !.knows = FALSE]
    /\ request' = AllGivenUp
    /\ \/ /\ bluez.knows
          /\ queue' = queue \o <<[kind |-> "release"], [kind |-> "down"]>>
       \/ Send([kind |-> "down"])
    /\ UNCHANGED applet

Start ==
    /\ ~bluez.up /\ bluez.starts < MaxStarts /\ HasRoom(1)
    /\ bluez' = [bluez EXCEPT !.up = TRUE, !.starts = @ + 1]
    /\ Send([kind |-> "up"])
    /\ UNCHANGED <<request, applet>>

-----------------------------------------------------------------------------
(* Prompts *)

Receive(kind) ==
    /\ queue # <<>> /\ Head(queue).kind = kind
    /\ queue' = Tail(queue)

Reply(rs) ==
    /\ answers' = [r \in Requests |-> IF r \in rs THEN answers[r] + 1
                                      ELSE answers[r]]
    /\ request' = [r \in Requests |->
                      IF r \in rs /\ request[r].state = "open"
                      THEN [request[r] EXCEPT !.state = "answered"]
                      ELSE request[r]]

\* Mutant: the notifications of services stay.
OnlyNote == {note} \cap Requests

\* Mutant: the dialog is closed with them.
WithDialog == ({dialog, note} \cup services) \cap Requests

\* _close: the prompts it takes from the screen.
Reached == ({note} \cup services) \cap Requests

Take(rs) == screen' = screen \ rs /\ stray' = stray \ rs

\* Mutant: the dialog of the request stays self.dialog.
KeptDialog == dialog

\* The response handler of the dialog destroys it.
DestroyedDialog == NoRequest

\* The agent fails to read the device, or has a dialog already, or cannot
\* build one, or to show the notification of a service: an exception answers
\* the call too, with an error.
RefuseRequest ==
    LET r == Head(queue).r IN
    /\ Receive("request")
    /\ Reply({r})
    /\ UNCHANGED <<bluez, plugin, exported, prompts>>

NoDialog == dialog = NoRequest

RequestPasskey ==
    LET r == Head(queue).r IN
    /\ Receive("request") /\ exported = "agent"
    /\ request[r].kind = "passkey" /\ NoDialog
    /\ dialog' = r
    /\ screen' = screen \cup {r}
    /\ UNCHANGED <<bluez, request, plugin, exported, note, services, entry,
                   handlers, stray, answers>>

\* The notification that announces the dialog cannot be shown: the call has
\* failed, and self.dialog is set, without a response handler.
PasskeyUnshown ==
    LET r == Head(queue).r IN
    /\ Receive("request") /\ exported = "agent"
    /\ request[r].kind = "passkey" /\ NoDialog
    /\ Reply({r})
    /\ dialog' = Unshown
    /\ UNCHANGED <<bluez, plugin, exported, note, services, entry, handlers,
                   screen, stray>>

\* The previous notification is not closed.
RequestConfirmation ==
    LET r == Head(queue).r IN
    /\ Receive("request") /\ exported = "agent"
    /\ request[r].kind = "confirm"
    /\ note' = r
    /\ screen' = screen \cup {r}
    /\ UNCHANGED <<bluez, request, plugin, exported, dialog, services, entry,
                   handlers, stray, answers>>

\* self._notification is set before it is shown.
ConfirmationUnshown ==
    LET r == Head(queue).r IN
    /\ Receive("request") /\ exported = "agent"
    /\ request[r].kind = "confirm"
    /\ Reply({r})
    /\ note' = Unshown
    /\ UNCHANGED <<bluez, plugin, exported, dialog, services, entry, handlers,
                   screen, stray>>

AuthorizeService ==
    LET r == Head(queue).r IN
    /\ Receive("request") /\ exported = "agent"
    /\ request[r].kind = "service"
    /\ services' = services \cup {r}
    /\ screen' = screen \cup {r}
    /\ UNCHANGED <<bluez, request, plugin, exported, dialog, note, entry,
                   handlers, stray, answers>>

\* Accept, confirm, always; reject, deny, or a closed window.  This, and
\* Dismiss, is also what the handlers of an agent that is gone do to its
\* prompts.
UserAnswers(r) ==
    /\ r \in screen
    /\ Reply({r})
    /\ Take({r})
    /\ dialog' = IF dialog = r THEN DestroyedDialog ELSE dialog
    /\ services' = services \ {r}
    /\ UNCHANGED <<bluez, queue, plugin, exported, note, entry, handlers>>

\* A bubble expires or is dismissed, and nobody is told.
Dismiss(r) ==
    /\ r \in screen /\ request[r].kind # "passkey"
    /\ Take({r})
    /\ UNCHANGED <<bluez, request, queue, plugin, exported, dialog, note,
                   services, entry, handlers, answers>>

\* Every call connects a handler and remembers the last one.
Connected(d) ==
    /\ exported = "agent" /\ handlers[d] < MaxShown
    /\ entry' = entry \cup {d}
    /\ handlers' = [handlers EXCEPT ![d] = @ + 1]

\* A notification that was never shown has no id: closing it raises.
NoteCloses == note # Unshown

\* A passkey closes what is shown first, a PIN code does not.
DisplayCode ==
    LET code == Head(queue).code IN
    /\ Receive("display") /\ code # "typed" /\ Connected(Head(queue).dev)
    /\ note' \in {Code, Unshown}
    /\ IF code = "passkey"
       THEN NoteCloses /\ Take(Reached) /\ services' = {}
       ELSE UNCHANGED <<screen, stray, services>>
    /\ UNCHANGED <<bluez, request, plugin, exported, dialog, answers>>

\* With the last digit typed there is no next one to mark; the device cannot
\* be read; what is shown cannot be closed.
DisplayRaises ==
    /\ Receive("display") /\ Connected(Head(queue).dev)
    /\ UNCHANGED <<bluez, request, plugin, exported, dialog, note, services,
                   screen, stray, answers>>

\* There is no agent any more, or it cannot listen to the device.
DisplayFails ==
    /\ Receive("display")
    /\ UNCHANGED <<bluez, request, applet>>

\* _on_cancel: the dialog is rejected, which does nothing to one without a
\* handler; the notifications are closed.
CancelPrompts ==
    /\ Reply({dialog} \cap Requests)
    /\ dialog' = IF dialog \in Requests THEN DestroyedDialog ELSE dialog
    /\ IF NoteCloses
       THEN Take({dialog} \cup Reached) /\ note' = NoRequest /\ services' = {}
       ELSE Take({dialog}) /\ UNCHANGED <<note, services>>

OnCancel ==
    /\ Receive("cancel")
    /\ IF exported = "agent"
       THEN CancelPrompts
       ELSE UNCHANGED <<request, dialog, note, services, screen, stray, answers>>
    /\ UNCHANGED <<bluez, plugin, exported, entry, handlers>>

OtherEntries(d) == entry \ {d}

\* The first handler of the device finds the id of the last one and
\* disconnects that; for the others pop() raises.
Remaining(d) == handlers[d] - 1

OnPropertyChanged ==
    LET d == Head(queue).dev IN
    /\ Receive("property")
    /\ IF d \in entry
       THEN /\ entry' = OtherEntries(d)
            /\ handlers' = [handlers EXCEPT ![d] = Remaining(d)]
            /\ CancelPrompts
       ELSE UNCHANGED <<request, prompts, answers>>
    /\ UNCHANGED <<bluez, plugin, exported>>

OnRelease ==
    /\ Receive("release")
    /\ IF exported = "agent"
       THEN CancelPrompts /\ exported' = IF NoteCloses THEN "nobody" ELSE exported
       ELSE UNCHANGED <<exported, request, dialog, note, services, screen,
                        stray, answers>>
    /\ UNCHANGED <<bluez, plugin, entry, handlers>>

-----------------------------------------------------------------------------
(* AuthAgent *)

\* A new BluezAgent; what the old one showed stays on the screen.
FreshAgent ==
    /\ stray' = screen
    /\ dialog' = NoRequest /\ note' = NoRequest /\ services' = {}
    /\ entry' = {} /\ handlers' = [d \in Devices |-> 0]

\* register_agent: the object path can be served once only; when an agent
\* the plugin has forgotten still does, registering raises.
Register ==
    /\ exported' = IF exported = "nobody" THEN "agent" ELSE exported
    /\ bluez' = [bluez EXCEPT !.knows = @ \/ (bluez.up
                                              /\ exported = "nobody")]
    /\ FreshAgent

OnUp ==
    /\ Receive("up")
    /\ plugin' = [plugin EXCEPT !.state = TRUE, !.has = plugin.loaded]
    /\ IF plugin.loaded
       THEN Register /\ UNCHANGED <<request, screen, answers>>
       ELSE UNCHANGED <<bluez, request, exported, prompts, answers>>

\* "At this point bluez already called Release on the agent".
OnDown ==
    /\ Receive("down")
    /\ plugin' = [plugin EXCEPT !.state = FALSE, !.has = FALSE]
    /\ exported' = IF plugin.loaded /\ exported = "agent" THEN "forgotten"
                   ELSE exported
    /\ UNCHANGED <<bluez, request, prompts, answers>>

\* A plugin loaded late is told the state the applet knows.
LoadAuthAgent ==
    /\ ~plugin.loaded
    /\ plugin' = [plugin EXCEPT !.loaded = TRUE, !.has = plugin.state]
    /\ IF plugin.state
       THEN Register /\ UNCHANGED <<request, screen, answers, queue>>
       ELSE UNCHANGED <<bluez, request, queue, exported, prompts, answers>>

\* Mutant: the agent is unregistered at bluetoothd only.
LeftExported == exported

Unexported == IF exported = "agent" THEN "nobody" ELSE exported

\* The prompts stay on the screen; bluetoothd gives up what it had asked.
UnloadAuthAgent ==
    /\ plugin.loaded
    /\ plugin' = [plugin EXCEPT !.loaded = FALSE, !.has = FALSE]
    /\ IF plugin.has /\ exported = "agent"
       THEN /\ exported' = Unexported
            /\ bluez' = [bluez EXCEPT !.knows = FALSE]
            /\ request' = IF bluez.knows THEN AllGivenUp ELSE request
       ELSE UNCHANGED <<exported, bluez, request>>
    /\ UNCHANGED <<queue, prompts, answers>>

-----------------------------------------------------------------------------
AgentInit ==
    /\ bluez \in [up : {FALSE}, knows : {FALSE}, starts : {0}]
    /\ request = [r \in Requests |-> [kind |-> "passkey", state |-> "unused"]]
    /\ queue = <<>>
    /\ plugin = [loaded |-> TRUE, state |-> FALSE, has |-> FALSE]
    /\ exported = "nobody"
    /\ dialog = NoRequest /\ note = NoRequest /\ services = {}
    /\ entry = {} /\ handlers = [d \in Devices |-> 0]
    /\ screen = {} /\ stray = {}
    /\ answers = [r \in Requests |-> 0]

AgentNext ==
    \/ \E r \in Requests :
          \/ \E kind \in RequestKinds : Ask(r, kind)
          \/ Withdraw(r) \/ UserAnswers(r) \/ Dismiss(r)
    \/ \E d \in Devices : \/ DevicePropertyChanges(d)
                          \/ \E code \in Codes : Display(d, code)
    \/ Stop \/ Start
    \/ RefuseRequest \/ RequestPasskey \/ PasskeyUnshown
    \/ RequestConfirmation \/ ConfirmationUnshown \/ AuthorizeService
    \/ DisplayCode \/ DisplayRaises \/ DisplayFails
    \/ OnCancel \/ OnPropertyChanged \/ OnRelease
    \/ OnUp \/ OnDown \/ LoadAuthAgent \/ UnloadAuthAgent

AgentSpec == AgentInit /\ [][AgentNext]_agentVars

-----------------------------------------------------------------------------
AgentTypeOK ==
    /\ bluez \in [up : BOOLEAN, knows : BOOLEAN, starts : 0..MaxStarts]
    /\ request \in [Requests -> [kind : RequestKinds,
                                 state : {"unused", "open", "answered",
                                          "over"}]]
    /\ Len(queue) <= MaxQueue
    /\ plugin \in [loaded : BOOLEAN, state : BOOLEAN, has : BOOLEAN]
    /\ exported \in {"agent", "forgotten", "nobody"}
    /\ dialog \in Requests \cup {NoRequest, Unshown}
    /\ note \in Requests \cup {NoRequest, Code, Unshown}
    /\ services \subseteq Requests
    /\ entry \subseteq Devices
    /\ handlers \in [Devices -> Nat]
    /\ \A d \in entry : handlers[d] > 0
    /\ screen \subseteq Requests /\ stray \subseteq screen
    /\ answers \in [Requests -> Nat]

\* The methods of the agent as bluetoothd sees them.
Method == INSTANCE DBusMethod WITH
    Calls <- Requests,
    state <- [r \in Requests |-> request[r].state],
    replies <- answers

\* A request of bluetoothd is answered at most once, though the user, Cancel,
\* Release and the device's own changes may all end it.
AnsweredOnce == Method!Spec

\* A request that self.dialog asks for is on the screen and still to be
\* answered; and it is the only dialog the agent shows.
DialogIsShown ==
    /\ dialog \in Requests => dialog \in screen \ stray /\ answers[dialog] = 0
    /\ \A r \in screen \ stray : request[r].kind = "passkey" => dialog = r

\* The agent's record of its dialog is true: no dialog that is gone or was
\* answered makes it refuse the next passkey request.  One that could not be
\* announced (Unshown) does, from then on.
DialogIsTracked == AgentTypeOK /\ DialogIsShown

\* Cancel leaves nothing of the request it withdraws on the screen, whatever
\* was asked, displayed and closed meanwhile; unless another agent asked it,
\* before the plugin was unloaded, or it is that of a service and the last
\* notification failed to be shown, so that _close breaks off at it.
CancelClears ==
    [][queue # <<>> /\ Head(queue).kind = "cancel" /\ queue' = Tail(queue)
           /\ exported = "agent"
           /\ ~(note = Unshown /\ Head(queue).r \in services)
       => Head(queue).r \notin screen' \ stray']_agentVars

\* When the applet has caught up with a running bluetoothd, the loaded plugin
\* serves it, whatever was loaded, unloaded, stopped and started before;
\* unless it has forgotten an agent, as it does when bluetoothd dies without
\* Release.
AgentServes ==
    /\ bluez.up /\ queue = <<>> /\ plugin.loaded
    /\ exported # "forgotten"
    => exported = "agent" /\ bluez.knows /\ plugin.has
=============================================================================
