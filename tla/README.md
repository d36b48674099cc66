# blueman in TLA+

A verification project for blueman, the Bluetooth manager for GTK desktops. It
models the parts of the program that keep state over time and whose callers do
not wait for each other: the applet with its plugins, the agents it exports to
bluetoothd and obexd, the calls that connect a service, with the root helper
they go through, the network access point and the DHCP client that run in that
helper, the window of `blueman-manager` with its list of devices, its searches
and connections, and `blueman-sendto`. TLC checks the models on small instances;
TLAPS proves theorems about most of them for every instance.

Contents: [the system](#the-system), [the modules](#the-modules), [what the runs
show](#what-the-runs-show), [what is proved](#what-is-proved), [where code and
text disagree](#where-code-and-text-disagree), [what is left
out](#what-is-left-out), [the plan](#the-plan).

To run: `tlc -config X.cfg M` for a configuration `X.cfg` of module `M` (the
table below pairs them), `tlapm M.tla` for a module of proofs.

## The system

### Processes

| process | started by | what it is |
|---|---|---|
| `blueman-applet` | the session | the D-Bus service `org.blueman.Applet`; a plugin manager and about 25 plugins |
| `blueman-tray` | StatusIcon of the applet | draws the icon and the menu the applet exports |
| `blueman-manager` | the user | the window with the list of devices |
| `blueman-sendto` | the user, the file manager | sends files to one device |
| `blueman-services`, `blueman-adapters` | the user | settings of local services and of adapters |
| `blueman-mechanism` | D-Bus, as root | rfkill, rfcomm, PPP, DHCP and the network bridge, behind polkit |
| `blueman-rfcomm-watcher` | the applet | waits for a serial port to go |
| bluetoothd, obexd, NetworkManager, notification daemon, PulseAudio | the system | not part of blueman; they are the environment of the models |

Each process of blueman is one thread under a GLib main loop: a handler runs to
its end before the next one starts. What interleaves is handlers: every D-Bus
call is asynchronous, its answer is one more handler, and between a call and its
answer anything may run. That is why an action of the models is one handler, or
one piece of a handler between two nested calls where the nesting is the point
(PluginManager), and why the environment moves freely between two actions.

The environment is not trusted to be prompt, or to be there: bluetoothd and
obexd stop, crash and start again, adapters and devices come and go, the user
clicks late or never, timers elapse. What is relied on is what D-Bus gives: the
messages of one sender arrive in order, each once.

### Components

State, operations and partners of the components, with what makes each of them
correct. All but the last two entries are modelled, in full or in part.

**Power manager** (`plugins/applet/PowerManager.py`). State: the believed state
of all adapters, the announced state, `request_in_progress`, one `Callback` per
request with its answer count and 5 s timer, the pending callbacks, a
synchronisation timer, a menu item. Operations: request a state, handle a
Powered signal, a new adapter, bluetoothd's coming and going, load and unload.
Partners: every plugin that is a `PowerStateHandler` (KillSwitch) is asked, and
answers later through a closure; every `PowerStateListener` is told. Hard: an
answer that comes after its timer; handlers unloaded while they owe an answer.
Correct: a request completes at most once, after the last answer, and never blocks
the next for ever; nothing of the plugin runs after unload.

**Kill switch** (`plugins/applet/KillSwitch.py`, `plugins/mechanism/RfKill.py`).
State: the table of switches, enabled, hard-blocked, the watched channel.
Operations: an event of `/dev/rfkill`, a change of the device file, the answers
to PowerManager and StatusIcon, the call to the mechanism. Hard: the device is
lost and opened again with events unread; the table outlives the plugin.
Correct: what it says is what the kernel has, once the events are read.

**Status icon** (`plugins/applet/StatusIcon.py`). State: visibility and its one
hiding timer. Hard: adapters disappear just before a soft block that must keep
the icon. Correct: at most one timer, shown while something keeps it, hidden at
last when nothing does.

**Plugin manager** (`main/PluginManager.py`, `plugins/BasePlugin.py`,
`plugins/AppletPlugin.py`). State: the loaded plugins, the `plugin-list`
setting, `__unloadable__` of every class. Operations: the start-up, loading with
dependencies and conflicts, unloading with dependants, a change of the setting.
Hard: loading calls itself and unloading; a plugin that fails on a change of the
setting opens an error dialog, whose main loop takes further changes, and is then
disabled, which is handled inside the handler of the last change, on an older list.
Correct: at no moment is a plugin loaded without its dependencies or next to a
plugin it conflicts with; permanent plugins stay; everything ends.

**Incoming file transfers** (`plugins/applet/TransferService.py`,
`bluez/obex/Manager.py`, `gui/Notification.py`). State: the OBEX agent with its
one notification, the transfers it authorized, the devices allowed for 60 s;
the tracker of transfers; two counters. Operations: AuthorizePush and Cancel
from obexd, the answers of the user, the start and the end of transfers and
sessions, obexd's name coming and going, load and unload. Hard: a transfer ends
by its status, by the removal of its object and by obexd's death, in any order;
the notification may be gone, expired or never shown. Correct: one answer per
push, one completion per transfer, consent before acceptance.

**Sending files** (`main/Sendto.py`, `bluez/obex/Client.py`,
`bluez/obex/ObjectPush.py`, `bluez/obex/Transfer.py`). State: the queue of files,
the session, the variants of a session and which one is tried, progress, an
error dialog. Operations: waiting for the device, creating a session, sending,
the signals of a transfer, retry, skip, cancel. Hard: the session breaks while
the user is asked; obexd restarts and uses its paths again; sessions of other
programs, and those of calls that have timed out. Correct: it never waits for nothing, and success means that the
device has the files.

**Pairing agent** (`main/applet/BluezAgent.py`, `plugins/applet/AuthAgent.py`).
State: a dialog, a notification, notifications of services, handlers on devices;
the exported object. Operations: the methods of `org.bluez.Agent1`, Cancel,
Release, a change of the device, the answers of the user, registration. Hard:
four parties may end one request; a notification may fail to be shown when the
agent remembers it already; bluetoothd may die without Release. Correct:
one answer per request, nothing left on the screen after Cancel, an agent
whenever bluetoothd runs.

**Applet core and D-Bus layer** (`main/Applet.py`, `bluez/Manager.py`,
`bluez/Base.py`, `bluez/AnyBase.py`): one Python object per path, made on
demand, and signals passed on. What the applet does at start, with adapters and
with the name of bluetoothd is part of the models above.

**Connecting services** (`plugins/applet/DBusService.py`, `services/`). State:
the call that is open; the rfcomm ports of the kernel and their watchers.
Operations: `connect_service` with one branch for each kind of service,
`disconnect_service`. Partners: BlueZ, the mechanism, PPPSupport, NetworkManager,
and the plugins that hear of a connected port. Hard: each branch passes handlers
of its own; failures come as answers, as exceptions, as D-Bus timeouts or not at
all. Correct: a call is answered; a call that failed leaves no open port.

**Dial-up networking** (`main/PPPConnection.py`, `plugins/applet/PPPSupport.py`,
`main/NetworkManager.py`, `NMDUNSupport.py`, `NMPANSupport.py`). State: in the
helper a dial with its file, watch, timeout and command, then pppd; in the applet
the connections PPPSupport tracks, each with a source that waits to dial or to
close its port; in NetworkManager the state of the device. Hard: reply, line
error and timeout of a command race; the answer of a dial races D-Bus's timeout
and the unloading of the plugin; state signals race the answer to the activation.
Correct: only an open file is waited for, and with a timeout; what is tracked is
what still has something to do.

**Serial ports** (`plugins/applet/SerialManager.py`, `plugins/mechanism/Rfcomm.py`).
State: a watcher per port, a script per device and port. Hard: device, port,
watcher and script may go in any order. Correct: a port is open as long as its
connection is wanted. The scripts are not modelled (disagreement 5).

**Mechanism** (`main/MechanismApplication.py`). State: the process and its timer
with one `stopped` flag. Operations: authorise a call, stop and resume the timer,
a tick. Hard: calls that overlap share the flag, and a path that raises leaves it
set. Correct: whatever it does to a call, somebody answers it.

**Network access point** (`main/NetConf.py`, `main/DNSServerProvider.py`,
`plugins/applet/Networking.py`, `plugins/mechanism/Network.py`,
`plugins/services/Network.py`). State: in the system the bridge, its addresses,
NAT rules, a DHCP server with its pid file, and three lock files; in the helper
the handler of the server, its pid and the rules it has made; in the applet what
it registered with BlueZ; the settings. Operations: enable, change and disable
by the services page, which waits for the answer, and by the applet's plugin,
which does not. Hard: four things are set up one after the other and each may fail, by an
exception or unheard; a server may run and count as failed; what the helper knows is
lost when it exits, what it has done stays; what BlueZ is asked is not waited for.
Correct: a lock file stands for what it locks; what is running can be stopped;
NAP is served only while the plugin knows it.

**DHCP client** (`main/DhcpClient.py`, `plugins/applet/DhcpClient.py`,
`plugins/mechanism/Network.py`). State: an interface being asked for, in the
applet and in the helper; a client process. Hard: the answer is given a second
after the client has ended, with addresses read before. Correct: the interface
can be asked for again.

**Device list** (`gui/DeviceList.py`, `gui/manager/ManagerDeviceList.py`,
`gui/GtkAnimation.py`, `bluez/Manager.py`). State: the adapter shown, the rows and
the cache from paths to rows, rows that fade in and out for 400 ms, timers that
poll the power levels of connected devices. Operations: adapters and devices come
and go, an adapter is selected, rows are filtered, a fade or a poll ends. Hard: the
end of a fade knows a path and not a row; `clear()` asserts that each row is in
the cache and may raise in the middle. Correct: the list shows what BlueZ has.

**Manager window** (`main/Manager.py`, `gui/manager/ManagerProgressbar.py`,
`ManagerDeviceMenu.py`, `ManagerToolbar.py`, `ManagerMenu.py`). State: a stack of
progress bars with what each is for, the devices that are being connected, a
search with its handlers, the buttons. Hard: connections and searches end in any
order, by answers, errors, the user, a timer, BlueZ or a change of adapter; a menu may
raise between what it says and the call.
Correct: the bar shown is that of an operation under way; what is said to be under
way is, and ends.

**Visibility** (`plugins/applet/DiscvManager.py`, `main/Adapter.py`). State:
the applet's menu item with a countdown; the radio buttons and the scale of
`blueman-adapters`; BlueZ's Powered, Discoverable and DiscoverableTimeout.
Hard: two processes set the same properties and hear of it later. Correct: the
item is offered for an adapter that can be made visible; temporary means it ends.

**Reconnection** (`plugins/applet/AutoConnect.py`, `RecentConns.py`). State: the
interval timer; the list of recent connections and the menu of those that can be
made again. Hard: adapters, devices and BlueZ come, go and are powered, which
arrives as signals of three kinds. Correct: the timer runs while an adapter is
powered; the menu has the last connections that are possible.

**Connection watchers** (`ShowConnected.py`, `DisconnectItems.py`,
`ConnectionNotifier.py`, `GameControllerWakelock.py`, `NetUsage.py`). State: each
keeps a record of connected devices of its own, from signals; NetUsage a monitor
per interface. Hard: one of them enumerates late, one counts, one forgets with the
adapter; of a device that is connected when its object comes none is told; a monitor finds out five seconds late. Correct: they agree with BlueZ in
the end; a byte is counted once, for its device.

**Audio profiles** (`plugins/applet/PulseAudioProfile.py`,
`main/PulseAudioUtils.py`). State: the connection to PulseAudio, the card of each
headset, an item in the applet's menu per headset. Hard: BlueZ tells of the
headset and PulseAudio of the card; what PulseAudio is asked is answered later or,
when it goes, never. Correct: a headset that is connected and has a card is
offered its profiles.

**Applet menu, tray icons** (`plugins/applet/Menu.py`, `main/Tray.py`,
`main/indicators/`): items by plugin and priority, exported over D-Bus; the tray
process that draws them. See [what is left out](#what-is-left-out).

**The other settings windows** (`main/Services.py`, `gui/applet/PluginDialog.py`),
**the manager's plugins** (`plugins/manager/`), **widgets**, **tables and property
wrappers** (`Sdp.py`, `DeviceClass.py`, `bluez/Device.py`), **native helpers**
(`src/module/`), **the file manager plugin**: drawing, constants or plain I/O.

Paths are under `src/blueman/` where nothing else is said.
`PROJECT.json` lists every component with its files and, under `hazards`, what
can go wrong in this code that a test would hardly reach, at its line.

## The modules

| module | extends | models |
|---|---|---|
| `PowerManager` | | the power manager; its handlers and bluetoothd as environment |
| `MCPowerManager` | `PowerManager` | model values and the symmetry of adapters, handlers, callbacks |
| `PowerManagerProofs` | `PowerManager`, `KillSwitch` | proofs |
| `StatusIcon` | | visibility of the icon and its timer; what keeps the icon is a parameter |
| `KillSwitch` | `StatusIcon` | the kill switch composed with the icon it keeps, the kernel, the mechanism |
| `PluginManager` | | the plugin manager, for any table of plugins |
| `MCPluginManager` | `PluginManager` | a table of plugins |
| `PluginManagerProofs` | `PluginManager`, `BluezAgent` | proofs |
| `DBusMethod` | | abstract: what an exported method promises its callers |
| `Mechanism` | | the root helper as a process: idle timer, exit, start by the next call |
| `PPPConnection` | `Mechanism` | the dials that run in it |
| `ConnectService` | `PPPConnection` | the applet's call, PPPSupport, rfcomm ports and watchers, NetworkManager |
| `ConnectServiceProofs` | `ConnectService` | proofs |
| `TransferService` | | agent, plugin, tracker and notification of incoming files, with obexd |
| `TransferServiceProofs` | `TransferService` | proofs |
| `Sendto` | | the sender with obexd and the device |
| `MCSendto` | `Sendto` | the list of files |
| `BluezAgent` | | the pairing agent and the plugin that owns it, with bluetoothd |
| `DeviceList` | | the manager's rows and adapter, with their fades and polls, against BlueZ's objects |
| `MCDeviceList` | `DeviceList` | two adapters, two devices of one of them: one is polled, the other may be hidden |
| `DeviceListProofs` | `DeviceList`, `Sendto` | proofs |
| `NetConf` | | bridge, addresses, NAT, DHCP server, lock and pid files |
| `DhcpClient` | `Mechanism` | one interface that asks for an address |
| `Network` | `NetConf`, `DhcpClient` | the helper, the applet's plugin and the services page over both |
| `Networking` | | what the applet's plugin asks of BlueZ's NAP server |
| `MCNetwork` | `Network` | the symmetries |
| `NetworkProofs` | `Network` | proofs |
| `ProgressBars` | | the stack of progress bars of the manager |
| `ManagerWindow` | `ProgressBars` | connections and searches, the buttons, BlueZ |
| `ManagerWindowProofs` | `ManagerWindow` | proofs |
| `Visibility` | | DiscvManager, the tab of `blueman-adapters`, BlueZ's adapter |
| `Connections` | | ShowConnected, DisconnectItems, ConnectionNotifier, GameControllerWakelock |
| `NetUsage` | | the monitors of interfaces and their dialog |
| `Reconnect` | | AutoConnect and RecentConns |
| `AudioProfiles` | | the menu of sound profiles and the connection to PulseAudio |
| `AppletPlugins` | these five and `Networking` | one of these groups at work |
| `AppletPluginsProofs` | `AppletPlugins` | proofs |
| `MCAppletPlugins` | `AppletPlugins` | two devices on two adapters; the symmetries |

`map` in `PROJECT.json` gives for every definition the lines it stands for.
Definitions that follow a comment "Mutant" are the same operation with a
plausible mistake in it. They are used by no specification; put in place of the
definition below them, each makes TLC report the property it is listed with in
`PROJECT.json`, which shows that the property depends on that code.

**PowerManager.** An action is one handler of the main loop: `UserRequest` is
the menu item or the D-Bus method, `PoweredSignal` is `on_adapter_property_changed`,
`HandlerAnswers` the closure a handler was given, `CallbackTimeout` the 5 s
timer. `cb` is the heap of `Callback` objects, `tracked` is
`_pending_callbacks`; they are two variables since an object outlives its entry
as long as some handler holds its closure. An object nothing refers to is
collected (`Collect`), so a bound on `Callbacks` is a bound on objects alive at
once. `setCalls` and `signals` are what D-Bus has not delivered. The value of a
property read from bluetoothd is the live one (`AdapterState`), the value in a
signal the one it was sent with.

**KillSwitch, StatusIcon.** `kernel` is the truth, `events` what the channel
holds, `known` the table of the class, which survives the plugin. Opening the
device replays one event per switch, as the kernel does. `told` is what
PowerManager computed last; the handlers that compute it anew are
`IoEvent` and, on its own account, `PowerManagerUpdates`. The icon's module is
parameterised by `keep`, the disjunction over adapters and over the plugins that
are asked; KillSwitch supplies it.

**PluginManager.** A frame of `stack` is a call of `__load_plugin` or
`unload_plugin` with the items of its loop still to come, so that every state
between two nested calls is a state of the model. `loops` are the nested calls
of `on_property_changed`, each with the plugin whose error dialog it waits for. A
LoadException unwinds as far as `load_plugin()`, which lets only those through that
have a cause, a failed `on_load`; an exception of unloading ends the innermost
`on_property_changed`, or the start-up. Items of the setting and classes are taken in any
order, which covers the order of imports and of the setting.

**Mechanism, PPPConnection, ConnectService.** Three processes and the kernel, one
module per layer, each extending the one below. `call[c]` is the D-Bus call of
`PPPConnect` in the helper, `stage[c]` where the applet's call is and `told[c]`
how it was answered. The applet's timers are part of `stage` ("probing" has one
that dials, "closing" one that closes). A dial's `command` counts to `Commands`,
the last being the dial itself; replies that are not complete change nothing and
are left out. `port` and `watched` are the kernel's: a port is bound to the call
it was made for, is open while a watcher holds it and free once it is hung up, and
its number is then used again. `CloseRFCOMM` works by number, so it may hit the
port of another call. An exception that leaves a callback is a step that does
what came before it and nothing else (`WriteFails`, `BadByte`, the missing case
of `check_pppd`). The applet's own are remembered in the history variable `broken`: the
dial that cannot be started from its timer (`ProbingBreaks`), a port that cannot be
closed (`ClosePort`), a notification or listener that raises after the caller was told
(`on_connected`), a constructor that raises with the port open (`WatchedFails`). A port that cannot be
closed also ends `on_unload` half-way (`UnloadBreaks`): the plugin stays loaded with
`_active` unset, and the next dial-up call through it is never answered (`ConnectInactive`).
The handlers of `_on_device_state_changed` all hear one signal, so `DeviceStateChanged`
answers all calls that listen. `replies` counts every call of `ok` and `err`: `NMConnectionBase` goes
on after a refusal (no APN, a connection that cannot be added, a refused activation),
so that such a call, in `refused`, may be answered two or three times; the caller sees the first.

**DBusMethod** is the abstract specification of a method that is exported on
D-Bus (`main/DbusService.py`): a call is open from `Asked` until a handler calls
`ok` or `err` (`Answered`), unless the method raises first (`AnsweredAtOnce`) or
the caller gives up (`GivenUp`). ConnectService, TransferService and BluezAgent
each implement it for their own method, under the mapping in their `Method`:
`CallState` and `Replies` of the applet's calls, `auth` and `answers` of the
pushes, `request` and `answers` of the pairing requests.

**TransferService.** obexd, external, has an object per transfer, may ask for
one authorization at a time, and may die and restart; its signals are in
`queue`. The tracker (`obex.Manager`) is a singleton that stays when the plugin
goes. `note` and `open` are the agent's reference to a notification and its
presence on the screen, which differ after it expires and, for a large file that
is accepted at once, before it is shown. `answers`, `reports` and `consent` are
history.

**Sendto.** The handlers of the Sender call each other (`process_queue`,
`create_session`, `remove_session`). Each is an operator from the sender's state
to its next state and the calls it sends to obexd (`Step`, `Then`); an action
receives one message or answer and runs one of them. `world` chooses at the start
what may happen besides lost links and failed transfers: obexd dies, another program
has sessions, or obexd takes longer than the 10 s of `bluez/Base.py:10`. Then
`create_session` fails for the Sender while obexd still works on it (`late`) and its
session comes later (`LateSession`), beside the one the Sender has asked for since;
or `send_file` fails and the file is sent all the same, unheard. `wired` counts the handlers connected to the object of a path.

**BluezAgent.** bluetoothd has one request open at a time. `screen` is what the
user can still answer, `stray` the part of it shown by an agent the plugin has
dropped. `exported` is the object at the agent's path: of the plugin's agent, of
one it has forgotten, or none. `Unshown` stands for a dialog or a notification that
the agent remembers and that was never shown, because `show()` of the bubble raised:
the call is then answered with an error (`PasskeyUnshown`, `ConfirmationUnshown`),
a dialog without a handler cannot be rejected, and a notification without an id
cannot be closed, so that `_close` breaks off there.

**DeviceList.** `rows` holds the rows of the list store and those that have left it
while their fade goes on. A row's `level` says how far it has faded: "new" and
painted over, "in", "out" for the 400 ms of a removal, "stuck" when a row that is
not visible yet is faded from nothing to nothing, which never ends and leaves it painted
over, and "frozen" when its fade has ended without deleting it, after which nothing is
painted over it and it is visible for good. The end of
a fade (`__fader_finished`) acts on the path, through `path_to_row`, and so on
whatever row the path has by then. A row with `no_name` is filtered out while the
setting `hide_unnamed` is on, which can be switched at any time; the removal of a
device whose row is filtered out leaves the row where it is. `clear()` goes through the rows and asserts that
the cache has each: where it has not (`Cached` fails) the handler ends in the
middle, and what it had done before is kept. A poll (`CheckEnds`) ends and forgets its
device, or something it reads raises (`CheckRaises`): that removes the timer and leaves
the device among the monitored. `overtaken` is history: the devices
that were added again while an earlier row of theirs faded, and those a failing
`clear()` has made fade, for which the list does go wrong; so is `unpolled`: the devices
whose last timer has raised.

**NetConf, DhcpClient, Network.** A call of NetConf is a function from a state
to the set of its results, a new state with the fact that it returned or raised:
what was done before an exception stays done. Each of the four steps of
`apply_settings`, and each part of a step whose failure leaves another state, has its
failure as a result. iptables fails in two ways: its answer is only logged
(`NetConf.py:273`), so that the lock is set for rules that were refused (`refused`) and a
deletion that was refused is forgotten; and where it cannot be run at all, the first
call of a deletion or an addition raises. A server that has written to stderr
(dnsmasq) or whose pid file is late (udhcpd) runs, and `_start` has raised.
`net` has what the system keeps (bridge, addresses,
rules, servers, pid files, locks) beside what is the helper's (`handler`, `pid`,
`mine`), which `Forget` resets when it exits. `Network` serves the calls of
the page and of the applet's plugin one by one, as the helper does. `orphans` is
history: the servers and the addresses of rules that an exit, a start taken for a
failure or a refused deletion has left behind. A server that is told to end does so at
once. The access point and the DHCP client share nothing but the helper's timer, so
`part` chooses one of them for a behaviour.

**Networking.** `Register` and `Unregister` are calls that nobody waits for: `calls` are
on their way to BlueZ, which may fail each of them, unheard (`kept`: one that was to end
NAP). `_registered` is what the plugin has written before BlueZ got the call, and what
it keeps when the adapter goes. `seen` is both the applet's manager_state and the adapter
in its Manager; with either missing `set_nap` does nothing.

**ProgressBars, ManagerWindow.** `instances` is the class's stack; `Finalize(B)` is
`finalize()` of several bars, one after the other, as the handlers of a search that
is over call it. `job` says what a bar is for: a connection's call ("waiting"), its
message of a second and a half, a search ("waiting" or "cancelled", for no
device). `calls` and `inbox` are D-Bus in both directions, so that the window acts
on states of BlueZ that are over. A double click connects a device whose menu
already says "Connecting...", so two calls for one device are possible. `set_op`
writes that a device is being connected before it goes through the menus there are, of
which one that has not been generated has no `SelectedDevice` (`SetOpRaises`): the
exception leaves what was said without a bar or a call. `stuck` is history: the devices
that happened to, until the end of a later connection takes it back.

**Visibility, Connections, NetUsage, Reconnect, AudioProfiles.** Each is one
group of plugins with the part of BlueZ, PulseAudio or the kernel that it follows;
signals wait in a queue, reads of a property go to BlueZ itself (and, where the
object has gone, give the last value that was told). `AppletPlugins` lets one
group move in a behaviour and leaves the others where they start: the plugins
share nothing but BlueZ, whose part in each group is its own, so that the product of
the groups would show nothing more. What the code does not claim to do is
remembered as history and excepted in the property by name: `missed` (an adapter
that goes takes its devices without a word), `untold` (a device that is connected when
its object comes, at which no property changes), `failed` (xdg-screensaver did not
resume), `overlap` (a name is used again before the monitor has looked), `late` (an
adapter that comes powered), `died` (`_run` of AutoConnect has raised: the source is gone
and `__event_source` is still set, so no timer runs until it is started again),
`unheard`, `cleared`.
At the start any devices may be connected. An object that comes is known to the
applet when its message is handled; until then (`Newcomers`) no enumeration finds it.

## What the runs show

| run | configuration | question |
|---|---|---|
| `power_requests` | `MCPowerManager`, `MCPowerManager.cfg` | requests, answers and timers, the announced state, the menu item |
| `kill_switch` | `KillSwitch`, `KillSwitch.cfg` | kernel, table, PowerManager and icon agree |
| `plugin_manager` | `MCPluginManager`, `PluginManager.cfg` | dependencies, conflicts, start-up, termination |
| `transfer_service` | `TransferService`, `TransferService.cfg` | answers, reports, counters and consent of incoming files |
| `sendto` | `MCSendto`, `Sendto.cfg` | attempts, waiting, progress and success of sending |
| `bluez_agent` | `BluezAgent`, `BluezAgent.cfg` | answers, dialogs, handlers, registration of the agent |
| `connect_service` | `ConnectService`, `ConnectService.cfg` | answers, ports and tracked connections of connecting calls |
| `device_list` | `MCDeviceList`, `DeviceList.cfg` | the manager's list against BlueZ, through fades, polls and failing handlers |
| `network` | `MCNetwork`, `Network.cfg` | lock files, and what runs out of the helper's reach |
| `manager_window` | `ManagerWindow`, `ManagerWindow.cfg` | progress bars, operations said to be under way and their end |
| `applet_plugins` | `MCAppletPlugins`, `AppletPlugins.cfg` | what the plugins that follow BlueZ show, and whether NAP is served, once all have caught up |
| `temporary_visibility` | `MCAppletPlugins`, `TemporaryVisibility.cfg` | a disagreement: "temporarily" visible for ever |

### Power

`RequestsAccounted` says in two halves that a request ends once
(`RequestIsTimed`, `AnswersCounted`): a set `request_in_progress` has a timer that clears it, and `called`,
compared with `num_cb` for equality, can reach it only once since the answers
still to come are counted in. Both must survive a handler that is unloaded
while it owes an answer. `QuietAfterUnload`: no timer and no closure reaches an
unloaded plugin. `ItemMatchesState`: the menu item, redrawn on some paths only,
offers the opposite of the announced state. `AnsweredBeforeSwitched`: while a
handler has still to answer, the answers of the others switch no adapter, since
bluetoothd cannot power one that is blocked.

Bounds: two handlers, since what matters is that the answers of one request
arrive in several steps and that one may object after another agreed; two
callbacks, the new request and a late one; one adapter, since `AdapterState`, a
conjunction over adapters, takes every value with it; one signal in flight, which
is enough for the live property and the signal to differ. Adapters, handlers and
callbacks are symmetric.

### Kill switch and icon

`KernelIsMirrored` relates the plugin (`SwitchesAreKnown`), what it told
PowerManager (`ToldIsCurrent`) and the icon (`SoftBlockShows`) to the kernel once
`events` is empty (`CaughtUp`); on the way they may lag. `OneTimer`, a
part of its `TypeOK`, is the assertion in `on_visibility_timeout`.
`IconSettles`: when from some point on nothing keeps the icon, it is hidden for
good. Bounds: two switches (a laptop has the adapter's and the platform's), two
unread events. Fairness: the main loop reads a readable channel and runs an
elapsed timer.

### Plugins

`LoadedAreConsistent` (no plugin without its dependencies, no two that conflict)
holds in every state, in the middle of nested
loads and unloads too, since plugins use each other from their `on_load`.
`StartupSurvives`: the PluginUnloadException nobody catches does not escape from
the start. `Settles`: every cascade of loads, unloads and changes of the setting
ends, or waits for the user at an error dialog; it assumes only that Python goes on
with a call it began. That permanent
plugins stay is proved, for chains of any length.

The table of `plugin_manager` has each relation of the real classes once: a
chain of three with the permanent plugin on top, of which the single pass over the
classes marks only a part as not unloadable, depending on their order; and two plugins
with different priorities that conflict, over the permanent one, the weaker of them
also over one that can be unloaded with it, the stronger without `on_unload` as
NMDUNSupport is. At the start the setting has any value for the two that
conflict and says nothing of the others; once the applet runs, the user may set any
plugin but the permanent one and the one below it, whose setting only a failing load
changes. While an error dialog is open the setting changes too, in one case only
(the stronger of the two while the weaker failed): it is enough for a handler to
run inside another that has items left. The classes are gone through in any order.

### Incoming files

`AnsweredOnce`, `PushesAreTracked` and `AcceptedWithConsent` are about the agent:
one reply per call, as `DBusMethod` says, a call that nobody waits for any more
included; a call that is open has its notification, and a transfer that was
authorized is remembered until it is completed; no file is taken
from a device that is neither trusted nor was accepted by the user before.
`Reported` is about completion, which has three sources: none is reported twice,
and the counters never claim more files than arrived.
They may claim fewer, and go below zero, when a transfer starts before it is
authorized; nothing in the repository says they may not. When obexd dies its
transfers and sessions go in any order, so that a session may report between the
failures of its own transfers. `AllAreHeard`: a push that can be read is accepted when
its device may push and asked for when it may not; only a bubble that was not shown,
this push's or an earlier one's, has it refused unasked. Which class a notification is
of, bubble or dialog, is chosen whenever one is made.

Bounds: two transfers, each from either of two devices (one trusted), small or
large; two messages in flight; one crash. A bubble that has been shown can be closed, and
the notification daemon answers that it did. One transfer cannot meet an agent in
the state another left; two can, and a third meets what the second met.

### Sending

`AttemptsExist`: the index into the list of session variants is valid whenever a
session is asked for. `NeverStuck`: while the program runs, something it
listens to is still to come: there is no state in which only the user's Cancel
helps. `ProgressIsTrue` speaks of the time until something comes that the Sender
did not ask for or was told had failed (`Quiet`: obexd has not died, no session of
another program and none of a call that timed out has come, and no file is sent whose
call timed out); links, sessions, calls and transfers fail in it, and calls time out.
The bar stays within the size of the files, and success means that the device has
them; see disagreement 4 for what happens after. Bounds: two files, so that the last and another can fail;
two sessions of one obexd, three transfers (a retry of one file), one
disturbance (a death, a foreign session or a call that times out and is done all
the same), two messages and two calls in flight, two variants of a session.
Beyond `MaxSessions` and `MaxTransfers` obexd refuses, which is one of its
answers anyway. No liveness is claimed: retrying may go on for ever by the
user's choice.

### Pairing agent

`AnsweredOnce`, again the refinement of `DBusMethod`; `DialogIsTracked`: the request whose dialog makes the
agent refuse the others is on the screen and not answered, so no dialog that is gone blocks the next one;
`CancelClears`. Both say what they except: a dialog whose announcement could not be shown
(`BluezAgent.py:153`, after `self.dialog` is set and before it has a handler) makes the agent refuse every
later passkey request, see disagreement 8; and behind a notification that was never shown those of services stay
on the screen. `AgentServes`: whatever was loaded, unloaded, stopped and started,
a caught-up applet with the plugin serves bluetoothd, unless it has forgotten an
agent: a bluetoothd that dies calls no Release (`AuthAgent.py:24` says "At this
point bluez already called Release on the agent"), and the next agent cannot be
registered at the path that the forgotten one holds.
Bounds: two requests (one open, one late), two devices, two messages in flight
(Release and the loss of the name are two), two starts of bluetoothd, two
displays per device (one handler is then forgotten).

### Connecting services

`CallEnds`: the calls implement `DBusMethod` and none stays open: every call is
answered, once, by BlueZ, NetworkManager, the modem, an exception or D-Bus's
timeout. A connection that is cancelled when PPPSupport is unloaded answers
nobody, which `Connection.cancel` does on purpose; a call in `broken` may never be
answered, and of a call in `refused` only the first answer counts. What makes
it hard is the helper: an exception in a callback ends a dial without an answer
and leaves the timer stopped, the end of one dial restarts the timer under
another, and the process may exit in the middle. `FailedIsClosed`: a call that
failed does not keep its port open, unless closing it raised or the failure came with the
port open already (`broken`). `WaitsOnOpenFile`: no source of a dial is left
on a file that was closed, nor a watch without a timeout. `TrackedAreLive`:
PPPSupport tracks all that still waits, dials or has a port to close, without exception, and
what else it tracks is in `broken`.

Bounds: two calls, so that two dials share the helper, one call takes the port
number of another and two listen to one device; two ports; two commands, one
before the dial and the dial; the helper exits at the second tick. Each call is
made once: a third only repeats what the second finds. Fairness: the applet's next step for a
call (its main loop, D-Bus's answers and its timeout: `AppletStep`), the helper's taking of a delivered call and
the timeout of a command (`MechanismStep`), and NetworkManager's answer to an activation and ending of one it has
accepted. Nothing is assumed of the modem, pppd, the kernel or the user.

### The device list

`ListMirrorsBluez`: the rows are of devices of the adapter shown, each device has
its row, and a row of a device that has gone fades or is painted over. Two such rows
are excepted, which stay in the list and may be seen until it is cleared: the row of a
device without a name, which may have been filtered out when the device went, and a
"frozen" one, whose fade ended when the cache knew a later row of its device.
`AdapterFollowsBluez`: the window shows an adapter that BlueZ has, and none only if
there is none. Both name what else they except: devices that were `overtaken`, and a
`clear()` that fails its own assertion (`~Cached`), which keeps an adapter that has
gone. `MonitoredHasTimer`: a device that counts as monitored is polled, unless its last
timer raised; otherwise it never would be again, and such a device never is.

Bounds: two devices of one adapter, since what goes wrong is between the rows of one
device while `clear()` goes over another's; a second adapter to go to and come back
from; two rows per device, the fading one and the new one (a third is refused by the
bound and would be another fading one). One device may be polled and is a keyboard, which
the setting never hides; the other may be hidden and is an audio device, which is never
polled: rows and polls touch each other only where a row is found.

### Network

`LocksHold`: the lock "netconfig" is there only with the bridge and an address of it, and
"iptables" only with an address with a rule, unless iptables refused the last rules,
though any step of a call may fail.
`OrphansAreKnown`: a DHCP server or a rule that the helper can no longer stop is one
that an exit of an earlier process has left behind, a server whose start was taken for a
failure, or a rule that iptables refused to delete; no change of address or of server and
no call that ends half-way makes another.

Bounds: two addresses and two kinds of server, so that each may replace the other;
two calls in the queue, the page's and one of the applet's; one
interface for the client; the helper exits at its second tick, so that a tick
between two calls differs from the exit; at most two rules per address, which an
address has when an exit left one behind and the next process adds its own.
Addresses and servers are symmetric.

### The manager's operations

`BarPerJob`: each operation has its bar, and the one that is visible is the last that
is not finalized; the status bar is there when it is configured to be, and else only
for a bar. `OpHasCall`: a device said to be connecting has a call whose end takes
that back, unless `set_op` raised and left it so (`stuck`). `OpEnds`: but for these,
it is not said for ever.

Bounds: three bars, so that one ends below, between and above others, in each order;
one device, whose two overlapping calls are the interesting case (calls for different
devices touch different operations); two messages each way. Fairness: a call of the
applet is answered, if by D-Bus's timeout; messages arrive; timers run.

### Plugins that follow BlueZ

`ProfilesOffered`, with the types of all modules but Networking's: an item in the menu belongs to a
headset with a card to set; once all is heard, connected headsets with a card have
their item. That a headset has only one, or that each item's headset is still
connected, is not said since it is not so: overlapping answers add an item twice,
and a list that comes late adds one for a headset that has gone.
`ItemOffered`: "Make Discoverable" is there for a powered adapter that is not
visible for ever already. `ConnectionsShown`: icon, tool tip, menu and bubbles show no
device that is not connected and, the bubbles apart, which come and go, each that is, but
for the `untold`. `ScreensaverReleased`: it is kept suspended for the sake of
a controller. `UsageIsOwn`: no byte is counted twice or for another device, and the
dialog shows the monitors there are. `ReconnectOffered`: AutoConnect's timer runs if an
adapter is powered, unless its last try raised, and the menu of RecentConns has what can be
connected. `NapIsKnown`: once all calls and news have arrived, BlueZ serves NAP only while
Networking is loaded, has the adapter as registered and the setting is on, or it was told
to end it and did not (`kept`).

Bounds: two controllers, two peers and two interface names, two headsets, two devices
on an adapter each: one that goes while another stays. Two ticks of a countdown, so that
it can be seen running and over; one item in the recent menu, which the second device
pushes out; three messages of BlueZ where an adapter, a device and the state of the name
are told of apart; a wake lock of three, which counts the connections that are on their way
too; two cards per headset, one whose profile changes once; two bytes, one moved before
and one after a reconnection; three calls to BlueZ's NAP server, as many as are on their way
when a plugin that was unloaded is loaded and unloaded again. Controllers, peers, names and headsets are symmetric.

### Deadlock

It is checked in every run except those of the plugin manager and of sending,
where `CHECK_DEADLOCK FALSE` says that the system may stop: blueman exits when a
permanent plugin fails to load, and `blueman-sendto` ends with its result.

## What is proved

The theorems hold for all values of the constants that keep the named
assumptions; every other property is model-checked only.

**PowerManagerProofs**, from `PowerAssumption`: the set of handlers is finite.
Adapters and callbacks may be any sets, also infinite ones, and `MaxSignals` any
number. The inductive invariant `Safe` is the conjunction of

  - `TypeOK`;
  - `TimersTracked`: `_pending_callbacks` is the set of callbacks with a timer.
    Without it stopping the pending ones, as `on_unload` does, would say
    nothing of the others;
  - `RequestIsTimed`, `AnswersCounted`, `QuietAfterUnload`, `ItemMatchesState`;
  - `HandlersNeedPlugin`: an unloaded plugin has no handler loaded, which is
    what keeps an unloaded plugin from being called.

Each conjunct has a lemma that says that every step keeps it, with one case per
action. The hard one is `AnswersStep`: a new callback counts the handlers it
asks with `Cardinality`, an answer moves one handler from the awaited to the
counted, an unloaded handler only lowers the sum, and a callback that nothing
refers to is reset. `AnsweredBeforeSwitched` follows: the answer that completes
has nobody left beside it, or the count would be exceeded. `AdapterStateRecomputed`
follows from `UpdatePowerState` and one case per action.

`KernelMirrored`, in the same module and from `KillSwitchAssumption` (finitely many switches,
room for an event, "absent" is no state of a switch), rests on `MirrorInv`:

  - `KillSwitchTypeOK` and `StateCurrent`, which says of the states without unread events what
    PowerManager was told and what the icon shows;
  - `KernelFollowed`: the last unread event about a switch says what the kernel has of it; a
    switch without one is known as it is, or it is gone and an entry of an earlier time is left;
  - `RemovalsKnown`: the switch that an unread event removes is in the table when it is read.
    The handler deletes it without asking, and a KeyError would leave the channel unread; so
    the order of the events counts, the replay of an open channel being in any.

**PluginManagerProofs**, from `PluginAssumption`: conflicts are symmetric and
irreflexive, nobody depends on a plugin that has conflicts, a plugin that
has conflicts is not permanent, and one without `on_unload` depends on permanent
ones only and gives way to none. All classes in `plugins/applet` are like that.
Dependencies may be circular, the number of plugins is not bounded, and so
neither is the stack. `DependencyClosed` and `NoConflict` are not inductive: what
keeps a finished load from breaking them is what the frames below the top have
done already. `Safe` therefore describes the stack (`StackOK`):

  - loads lie below unloads, since an unload loads nothing;
  - a load looks at its conflicts after its dependencies; the dependencies it
    has looked at are loaded, or the frame above is loading the one it waits
    for; the conflicts it has looked at are not loaded, or being unloaded;
  - an unload above a load is of a plugin with conflicts; the dependants an
    unload has looked at are not loaded, or being unloaded;
  - a plugin without `on_unload` is at the bottom only: nothing waits for it to go;

and adds `StartupOK`: an unload at the bottom of the stack is the work of
`on_property_changed`, plugins with conflicts are unloadable and permanent ones
are not. When a frame returns, the frame below finds what it waits for done;
that a load above it did not load something it had excluded follows from
`PluginAssumption`, as only a plugin without conflicts is loaded as a
dependency. `PermanentPluginsStay` follows for chains of any length, although
one pass over the classes marks only some of a chain as not unloadable: the
recursive unload meets the permanent plugin before it has unloaded anything the
permanent one needs.

The same module, of the pairing agent that one of the plugins makes, from
`AgentAssumption` ("none", "a code" and "not shown" are no requests; any requests and
devices, any bounds): `AgentInv` has `RequestsOK`, a request is on its way or on the
screen, not both, and not answered before; `ShownOK`, what the agent remembers is on the
screen and what is on the screen of its own is remembered, confirmations excepted, of
which it remembers the last only; `NoteOK` and `HidingOrder`, which make up for that:
whatever replaces a notification (a later request, a PIN code) is sent while no request is
open, so it comes before the notified request, or that one is over and its cancel was
received; `ServedOK`, the plugin knows whether bluetoothd runs or the last message about
it will say so, and serves it or is told of its end. `DialogTracked`, `AgentServed` and,
on steps, `CancelCleared` follow; `RequestsAnsweredOnce` is the third refinement of
`DBusMethod`: every step but a new request answers a set of requests that are on the
screen or just received (`Answering`).

**ConnectServiceProofs**, from `IdleAssumption`, `DialAssumption` and
`PortAssumption`: the helper has an idle limit, there is a command, ports are
numbers and the names of "no port" and "free" are not used for others. Calls and
ports may be any number. The inductive invariant `Inv` is the conjunction of

  - `TypeOK`, in which the helper's timer of a process that does not run is at
    zero, as the next process starts with it;
  - `ServedIsUp`: a call is served, and its sources exist, only while the
    helper runs, so that its exit may drop them all;
  - `WaitsOnOpenFile` and `TrackedAreLive`;
  - `CancelledHaveStarted`, `ActivatedElsewhere` and `BrokenAreOver`: what is cancelled was once
    tracked, a call that asked NetworkManager is not one of PPPSupport's, and nothing
    is done any more for a call at which a handler broke off;
    without them a state signal could end a call that is tracked;
  - `Untold`, `CancelledIsQuiet` and `Counted`: a call that waits was not told anything,
    what was cancelled is told nothing later, and a call that listens to the device and
    was answered is one NetworkManager has refused.

The steps of the helper, of one call and of everything else are proved to keep
the first three in lemmas of their own (`DialStepType`, `DialStepMechanism`, ...). The rest
speaks of one call at a time (`Books`, `BooksOfEach`): a step of a call keeps its
books (`CallBooks`) and touches nobody else's (`CallStepMoves`).
`ImplementsMethod` is the refinement of `DBusMethod`: `Moves` says what a step may
do to a call, and the mapped state of the call decides which action of the abstract
specification that is. `OneAnswerEach` says the same of the code's own count of answers.

**DeviceListProofs**, from `DeviceListAssumption`: each device has an adapter, "no
adapter" is none, a device may have at least one row. The invariant `ListInv` is
`TypeOK`, `MonitoredHasTimer` and

  - `RowsKnown`: a row that has a name and does not fade, nor ever ended its fade, is the
    one that the cache has for its device. Without it the end of another fade, which takes the row
    the cache has, could take it away;
  - `DevicesListed`: a device that was not overtaken has its row, and none of its
    rows fades: so no end of a fade is to come that could take that row;
  - `AdapterShown`: without an adapter there is nothing listed, and with one it is the
    last there was.

The hard steps are those through `clear()`, which is one state when all goes well and
one of many when its assertion fails.

The same module, of sending, from `SendtoAssumption`: there is a file to send, the session of the
other program and "no session" are none of obexd's own numbers, and there are two ways to connect or
more once they are known. Files, sessions, transfers, deaths and messages may be any number.

  - `TypeInv`: the list of files is a beginning of the one there was (`Lists`), since files are taken
    from its end; what is left and what was skipped are no more than that; and the attempt is below the
    attempts known, from which `AttemptsHold` follows. Each handler is a lemma that says what
    it returns (`StepOK`), and a handler that calls another composes two of them (`ChainTypes`).
  - `WaitInv`: what `NeverStuck` leaves implicit in "the queue is not empty". Without a session the
    Sender has asked for one, is about to be offered one, or waits on its own side (`Local`); with one
    it has a dialog open, or a file is under way in that session (`Working`): a call, an
    answer that it failed, the end of the session, a transfer it listens to which is active or whose
    end is in the queue, or one whose start it will read before its end. `SessionsKnown` is what
    carries this over the loss of a session: one that is not there any more says so by a message that comes
    after the one that announced it. The signals of a session that ends, in any order of its
    transfers, come from a lemma on `SetToSeq`.
  - `TruthInv`, as long as it is quiet: what is counted beyond the transfer under way is no more than the
    files that are gone from the list (`Counted`), and those have arrived or were skipped
    (`AllArrive`); `ProgressIsTrueHolds` follows. What was not quiet once is not quiet again
    (`NoiseStays`). It holds while the program runs
    because of `QuietInv`, which says that one file is under way at a time. `Numbered`: sessions and
    transfers are numbered in order, so a new one is not taken for an old one and each transfer has its
    handlers connected once. `AskedOnce`: there is one way only in which the next session comes.
    `OwnSession`: what is heard of transfers is of the session the Sender has, and a session
    says nothing after its end. `OneFile`: one call, one active transfer or one end of a transfer, and
    none while the user is asked. `StartsFirst`, `MovesRightly`: a transfer starts before all
    else that is heard of it, so that what was counted of it is zero then, and `last` is what was counted
    while it moves. `NextIsSent`: the file is the one at the end of the list, which
    its completion takes off. Each conjunct has a lemma for what obexd tells (`TellNumbered`,
    `TellAsked`, ...) and one for what the Sender reads or calls (`KeepsNumbered`, `KeepsOwn`, ...).
    TLC checked `QuietInv` and `TruthInv` on the instance of `sendto` before they were proved.

**NetworkProofs**, from `NetworkAssumption` and `IdleAssumption`: the queue has a
place, the helper an idle limit, and addresses, kinds of server and "none" are
different things; there may be any number of each, and rules are not bounded. A call is a
function from states to results, and the proof follows that: `Good(s)` says of a state of
NetConf and of what outlives it that a lock stands for what it locks, a refused rule excepted
(`Locked`), that every server has a pid file and, unless it is an orphan, is the current
handler's with the lock (`ServersKnown`), and that an address that is no orphan has one rule
or none, which is known (`RulesCounted`). The orphans are part of that state, as each step
that fails in the middle adds to them. A lemma for each function says that all its results,
the failures too, are `Good` if its argument is. `NetInv` adds the types of the rest. The
pid files and the counted rules are what is needed beside the properties: a server without
its file would not be cleaned up, and a rule that is there twice would survive its removal.

**ManagerWindowProofs**, from `WindowAssumption`: a place in each queue, and "no
device" is none. Bars and devices may be any sets. `WindowInv` is the conjunction of

  - `BarsInv`: each bar is in the stack once, the finalized ones are in it, and
    `BarsShown`. The lemma on `Finalize` rests on what `Trim` leaves: a beginning of the
    stack whose last bar is not finalized, and nothing but finalized bars after it;
  - `JobsInv`: a bar has a job exactly while it is in the stack and not finalized, and
    `OpHasCall`, which speaks of the devices that are not `stuck`;
  - `SearchInv`: the bars of searches, which handlers, calls and messages refer to, are
    not those of connections, and each call and each error is for a bar. Without it a
    late error, or the end of all searches, could finalize a connection's bar, and the
    operation would have none.

**TransferServiceProofs**, from `TransferAssumption`: there is a device, the trusted ones
are devices, "no notification" and "one that was not shown" are no transfers, and the
queue has a place. Transfers and devices may be any sets, the queue and the number of
crashes of any bound. A question that is open meets obexd, which may have given it up,
ended the transfer or crashed, only through messages on their way; so the invariant `IInv`
says of the messages in the queue what handling them will find:

  - `TypeOK` and `AgentOK`: the agent exists while the plugin is loaded and listens to the
    tracker, but for one that could not close its notification;
  - `ObjectsOK`: an object is announced, asked about, ended and removed in this order, and
    the messages on their way say no more than happened;
  - `AnswersOK`: a call is answered once, and not before it has reached the agent;
  - `ReportsOK`, `CountsOK`: what is reported was announced before, and the counters are
    no larger than the sets of transfers that were counted, which are finite;
  - `PendingOK`: a call that obexd waits for is on its way with nothing behind it that
    would close its notification, or is asked;
  - `QuestionsOK`: of a question that is open, or will be when its message is handled
    (`Due`), nothing that comes later completes or removes the transfer before the
    question is closed (`Safe`). This is what carries `AuthorizedIsOpen`: without it the
    user could accept a transfer that is over, and the agent would track it for ever;
  - `AuthorizedIsOpen`, `ConsentOK`.

`PushesTracked`, `ConsentIsAsked`, `ReportedRightly` and, on steps, `AllPushesAreHeard` follow.
`PushesAnsweredOnce` is the second refinement of `DBusMethod`, by the pushes as obexd
sees them, and `OneAnswerEach` what that gives.

**AppletPluginsProofs**, each group of plugins by itself, from the named assumptions of the
six modules: the countdown lasts a minute or more,
the bounds leave room for a message (the connection watchers' for two), "nobody" is neither a
device nor a name, and headsets are finitely many, as a listing has to end. Any other set may
be infinite. All of
these are about a record of a plugin, the state of BlueZ and the messages between them, and
the invariants say which messages must follow which (`Followed`, `Preceded`, `Separated`,
`Resolved`), so that appending one and taking one are a lemma each for any such claim.

  - `OfferedRightly`: the plugin knows whether the adapter is there or the last such message
    says it (`ThereOK`), and an item that is offered is offered rightly or is updated by a
    message on its way (`ItemOK`).
  - `ShownInTheEnd` and `ReleasedInTheEnd`: whether the applet knows the objects of BlueZ, or
    will (`ObjectsKnown`), what the messages about a device say in the end
    (`DevicesTold`; of a device in `untold`, which came connected, nothing says so), the records
    (`RecordsOK`), and that the screensaver is suspended for no
    more devices than those the plugins have heard to be connected (`BelievedWell`): a lock is
    counted up and down by messages, and a device whose messages alternate is one lock.
  - `OfferedAgain`: of each adapter and device the last message says whether it is there
    (`ObjectsHeard`), an adapter that was powered after it came tells it after it came
    (`PowerTold`), the timer runs, is started by such a message, or died with its source still
    remembered (`TimerOK`), and the menu is as it would be built now, or is built again
    (`MenuOK`).
  - `NapIsAlwaysKnown`, of the access point: the plugin has heard of the setting or will
    (`RegisteredOK`); the last news says whether the adapter is there (`NewsOK`); the last call
    on its way leaves NAP as the plugin thinks, and without a call it is so already (`CallsOK`).
  - `CountedApart`: while no monitor has overlooked an interface's end there is at most one
    monitor, or one to be made, of each device and of each name (`AllApart`), its
    interface is the device's own, and what that has counted beyond the monitor's last look
    is not in the device's usage yet (`AllOwe`).
  - `ProfilesOfferedRightly`, of the menu of sound profiles (`AudioInv`). Two services tell of a
    headset, and an answer may tell of a card as it was when the question was handled. `Answered`:
    PulseAudio answers in order, so that no earlier card is told after the present one, and
    none is told that is later than it. `Corrected`: an earlier card that is known, or will be,
    is followed by the answer that corrects it, by the event after which it is asked for, or by
    that question. This is what the property needs and does not say: at the end nothing follows,
    so the card that is known is the one that there is. `Filled`: a headset without its item has
    coming what gives it one: a signal after which the menu is made anew, a question or an answer.
    `Unready`: a connection that is lost takes both with it; after that no card is known that
    could have changed unheard. `MenuOfCards`: of the items that are known one has the greatest
    number, so that the next number is free (`NextIsGreater`, `ItemsAdded`). TLC checked these on
    the instance of `applet_plugins` before they were proved.
    Its other part, the types, needs the bounds of each group. Not evident
    among them: `SetsBounded` (beside the user's assignments only those of one change to "hidden" are on their way),
    `HeardBounded` (how much BlueZ may still tell depends on what an assignment can still change),
    `LockBounded` (no connection on its way would take the lock beyond its bound, whether the plugin
    is loaded or will be), and for the menu of RecentConns that it
    has no more items than places (`ItemsBounded`: a later item has more of the items before it)
    and stores no connection twice (`NotifyStores`).

Not proved, model-checked only: `IconSettles`, `Settles`, `CallEnds`,
`FailedIsClosed` and `OpEnds`. They are liveness, which is out of the prover's reach; of
`CallEnds` its safety part, `ImplementsMethod`, is proved. Every invariant, every property of
steps and every refinement that a run checks is proved.

## Where code and text disagree

The first has a run in which TLC shows the steps, and an entry under `findings`. The
others were met while modelling; no run expects them, and the
properties of the passing runs say what they except.

 1. `TemporaryEnds`. The tab of `blueman-adapters` offers "Temporarily visible"
    (`data/ui/adapters-tab.ui`). `on_temporary_toggle` (`main/Adapter.py`) leaves the
    timeout to the signal that the scale's value has changed. From "Temporarily" to
    "Always" and back the scale has its value already; no signal comes, the timeout stays
    0, and the adapter is visible for ever.
 2. `PowerManager.py:182` turns a request away with
    "Another request in progress". A callback that timed out does not tell its
    handlers: the late answer completes it once more and clears
    `request_in_progress` of the request that runs now, beside which a third
    can start.
 3. `TransferService.py:166` says of a large file from a
    trusted or allowed device "display a notification, but auto-accept". When the
    notification is a bubble `on_action` closes the notification before it is shown,
    which raises; the push is answered with an error and so is every later one.
 4. `blueman-sendto` describes its arguments as "Files to be send
    to the bluetooth device". The Sender takes whatever session appears for its
    own, a late one of a call that has timed out included, so that two sessions send the
    same file, and after a restart of obexd one completion is handled twice.
 5. SerialManager offers a "Script to execute on connection"
    (`SerialManager.py:48`) and runs it in `on_rfcomm_connected`, for the serial
    port profile only. `connect_service` (`DBusService.py:171`) answers a plain
    serial port with `lambda port: ok()` and not with `reply`, which is what calls
    the listeners; `reply` is used for dial-up services alone.
 6. Every proxy of `main/DBusProxies.py` asks the interface `org.blueman.Applet`
    (line 69), while `GetMenu`, `GetStatusIconImplementations`, `GetBluetoothStatus`
    and `DhcpClient` are exported on interfaces of their own
    (`org.blueman.Applet.Menu`, `.StatusIcon`, `.PowerManager`, `.DhcpClient`). So
    `blueman-tray` fails at its first call (`main/Tray.py:49`), and the Bluetooth switch
    of the manager (`main/Manager.py:149`) is always off. The repository's tests pin the
    interface with mocks.
 7. PulseAudioUtils tries to connect again once only after its connection is lost
    (`PulseAudioUtils.py:307`), and the menu of sound profiles may have a headset twice, or one
    that has gone (`PulseAudioProfile.py:114`).
 8. `BluezAgent.py:143` refuses a passkey request with "Another dialog still active". After
    the bubble of line 153 could not be shown that dialog has no handler, nobody
    can answer it, and it is refused until there is another agent.

## What is left out

Of the modelled components: names, tool tips, texts and icons; the answer values
(passkeys, PIN codes); what a file is moved to; the share path and its
notification; the speed of a transfer; what a variant of a session consists of;
the dialogs that report an error and change nothing. A channel that reports HUP
or ERR, which the kernel's rfkill never does, is not an event of `KillSwitch`.
Handlers may raise where they call something that fails: bluetoothd or obexd, the mechanism,
a program, a port, the notification daemon. These have a result of their own in the models:

  - PluginManager: the constructors' `on_load` and the `on_unload` of any plugin;
  - TransferService: a push whose properties cannot be read, a bubble that is not shown, and
    closing one that was not shown (`CloseRaises`);
  - BluezAgent: a notification that is not shown (`Unshown`), closing it (`NoteCloses`), the
    registration;
  - ConnectService: the serial connection and what watches it, the dial started from the timer
    and the write of a command, a byte that is no text, closing the port, the end of
    `check_pppd`, the watchers of a plugin that is unloaded (`broken`);
  - DeviceList: the reads of a device that is added (`Cached`) and those of the poll
    (`CheckRaises`), and the assertion of `clear`;
  - NetConf: each program, pid file and lock, one by one; DhcpClient: what follows a lease
    (`Complete`);
  - ManagerWindow: `connect_service` on a menu without a device (`SetOpRaises`); Connections:
    the enumeration of the devices (`Enumerates`); Reconnect: the tries of AutoConnect (`Run`)
    and `notify` of RecentConns.

Assumed not to raise are reads of properties of an object that is gone, in other handlers:
the proxies of `bluez/Base.py` are kept for ever and answer from the properties they have
cached until bluetoothd itself leaves the bus. Likewise closing a notification that was
shown, drawing and formatting, and reading settings. A server that is sent SIGTERM ends at once.

Of the newer models: how a row is drawn, sorted and searched; the content of the
servers' configuration files; the signal strength and the statistics of the manager; the
texts of menus and tool tips; the commands that the profiles' items send to PulseAudio.

Not modelled, as nothing of it would be a protocol:

  - the tray process: disagreement 6 leaves no behaviour after its first call. The
    same goes for the Bluetooth switch of the manager;
  - the D-Bus form of the applet's menu: a value computed anew for each request;
  - the cache of D-Bus objects (`bluez/Base.py`): one proxy per path for the life of
    the process, whose effect, a property that is cached or asked, is part of each module;
  - the manager's plugins, the plugin dialog, the services window beyond its network page:
    forms that keep nothing and call what is modelled;
  - widgets, tables, property wrappers, native helpers, the file manager plugin, data.

## The plan

What is left, in the order of its worth:

 1. **The rest of the calls.** The other paths of `disconnect_service`, some of
    which answer nobody and some twice, and the scripts of `SerialManager` as
    processes. Property: the refinement of `DBusMethod` by these calls too.
 2. **The manager's audio plugin** (`gui/manager/ManagerDeviceMenu.py` with
    `PulseAudioUtils`), which fills a menu while it is built, over `AudioProfiles`.
 3. **Two adapters** for Visibility, and the composition of Reconnect with the power
    manager, whose status it reads.
