--------------------------- MODULE ConnectService ---------------------------
(***************************************************************************)
(* Connecting to a service of a device through the applet: DBusService     *)
(* takes the call, SerialService creates an rfcomm port and a watcher      *)
(* process that keeps it open, and PPPSupport dials through the port of a  *)
(* dial-up service (module PPPConnection).  A network is connected through *)
(* NetworkManager, if NMPANSupport is loaded.  All calls are for one       *)
(* device.                                                                 *)
(***************************************************************************)
EXTENDS PPPConnection, FiniteSets

CONSTANTS Ports,       \* numbers of rfcomm ports
          NoPort,      \* the number of a call that has no port
          Free         \* a port that does not exist

ASSUME PortAssumption == /\ Ports \subseteq Nat /\ Ports # {}
                         /\ NoPort \notin Ports
                         /\ Free \notin Calls

VARIABLES loaded,      \* PPPSupport is loaded
          active,      \* PPPSupport._active
          stage,       \* where the call of ConnectService is
          told,        \* how it was answered, first
          replies,     \* how often ok or err was called for it
          number,      \* number of the port that was created for the call
          cancelled,   \* connections with _closed
          tracked,     \* PPPSupport._connections
          broken,      \* calls at which a handler broke off, see Breaks
          port,        \* the kernel's ports, by the call each was made for
          watched,     \* ports that a blueman-rfcomm-watcher keeps open
          activation,  \* what NetworkManager does about a call's activation
          adding,      \* calls for which it is asked to add a connection
          refused,     \* calls of which it refused a step, or has no APN
          listening,   \* calls with a handler of the device's state changes
          state        \* the device's state in NetworkManager

answerVars == <<told, replies>>
pluginVars == <<loaded, active, cancelled, tracked, broken>>
appletVars == <<pluginVars, stage, answerVars, number>>
portVars == <<port, watched>>
nmVars == <<activation, adding, refused, listening, state>>
allVars == <<vars, appletVars, portVars, nmVars>>

(* DISCONNECTED or less, PREPARE to SECONDARIES, ACTIVATED, DEACTIVATING   *)
(* and FAILED.                                                             *)
DeviceState == {"disconnected", "activating", "activated", "deactivating", "failed"}

TypeOK == /\ MechanismTypeOK
          /\ DialTypeOK
          /\ loaded \in BOOLEAN /\ active \in BOOLEAN
          /\ stage \in [Calls -> {"idle", "bluez", "activating",
                                   "probing", "calling", "closing", "done"}]
          /\ told \in [Calls -> {"none", "ok", "error"}]
          /\ replies \in [Calls -> Nat]
          /\ number \in [Calls -> Ports \union {NoPort}]
          /\ cancelled \subseteq Calls
          /\ tracked \subseteq Calls
          /\ broken \subseteq Calls
          /\ port \in [Ports -> Calls \union {Free}]
          /\ watched \subseteq Ports
          /\ activation \in [Calls -> {"none", "asked", "accepted"}]
          /\ adding \subseteq Calls /\ refused \subseteq Calls
          /\ listening \subseteq Calls
          /\ state \in DeviceState

Init == /\ MechanismInit
        /\ DialInit
        /\ loaded = TRUE /\ active = TRUE
        /\ stage = [c \in Calls |-> "idle"]
        /\ told = [c \in Calls |-> "none"]
        /\ replies = [c \in Calls |-> 0]
        /\ number = [c \in Calls |-> NoPort]
        /\ cancelled = {}
        /\ tracked = {}
        /\ broken = {}
        /\ port = [p \in Ports |-> Free]
        /\ watched = {}
        /\ activation = [c \in Calls |-> "none"]
        /\ adding = {} /\ refused = {}
        /\ listening = {}
        /\ state = "disconnected"

-----------------------------------------------------------------------------
(* What the handlers below are made of.                                    *)

(* ok or err is called for calls: the caller sees the first answer.        *)
TellAll(cs, a) ==
    /\ told' = [c \in Calls |-> IF c \in cs /\ told[c] = "none" THEN a ELSE told[c]]
    /\ replies' = [c \in Calls |-> IF c \in cs THEN replies[c] + 1 ELSE replies[c]]

Tell(c, a) == TellAll({c}, a)

Move(c, s) == stage' = [stage EXCEPT ![c] = s]

Ends(c, a) == Move(c, "done") /\ Tell(c, a)

(* History: a handler ends with an exception and leaves the call without   *)
(* an answer, or its connection tracked, or its port open.                 *)
Breaks(c) == broken' = broken \union {c}

(* The kernel gives a new port the lowest free number.                     *)
Lowest(p) == port[p] = Free /\ \A q \in Ports : port[q] = Free => p <= q

NewPort(c) == \E p \in Ports : /\ Lowest(p)
                               /\ port' = [port EXCEPT ![p] = c]
                               /\ number' = [number EXCEPT ![c] = p]

(* Mutants: the connection stays tracked; a pending close is dropped.      *)
RememberConnection(c) == UNCHANGED tracked

NoneClosing == {}

forget_connection(c) == tracked' = tracked \ {c}

(* Connections that failed and will close their port.                      *)
Closing == {c \in tracked : stage[c] = "closing"}

(* CloseRFCOMM of the mechanism kills the watchers of the ports.           *)
CloseRFCOMM(ps) == watched' = watched \ ps /\ port' = port /\ Called

(* The call raises: the mechanism does not start, fails, or answers too    *)
(* late what it has done.                                                  *)
CloseRaises(ps) == \/ CloseRFCOMM(ps)
                   \/ (Called \/ UNCHANGED mechanismVars) /\ UNCHANGED portVars

(* The port of a call is open: it is still the call's and has a watcher.   *)
Open(c) == \E p \in watched : port[p] = c

(* Connection.connect: PPPConnect is called in the mechanism.              *)
PPPConnect(c) == Move(c, "calling") /\ Answer(c, "asked")

-----------------------------------------------------------------------------
(* connect_service, for a service that BlueZ connects: all of a device,    *)
(* one of its profiles, or a network.                                      *)
ConnectBluez(c) == /\ stage[c] = "idle"
                   /\ Move(c, "bluez")
                   /\ UNCHANGED <<vars, pluginVars, answerVars, number, portVars, nmVars>>

(* Its answer.  on_generic_profile_error turns the failure of a profile    *)
(* into a success when the device is connected.                            *)
BluezAnswers(c) == /\ stage[c] = "bluez"
                   /\ \E a \in {"ok", "error"} : Ends(c, a)
                   /\ UNCHANGED <<vars, pluginVars, number, portVars, nmVars>>

(* connect_service: no such service, none that is supported, or            *)
(* SerialService.connect fails before it has a port.                       *)
ConnectFails(c) == /\ stage[c] = "idle"
                   /\ Ends(c, "error")
                   /\ UNCHANGED <<vars, pluginVars, number, portVars, nmVars>>

(* SerialService.connect has created the port and OpenRFCOMM raises: the   *)
(* exception answers the call, and the port stays without a watcher.       *)
WatcherFails(c) == /\ stage[c] = "idle"
                   /\ NewPort(c)
                   /\ Ends(c, "error")
                   /\ UNCHANGED <<vars, pluginVars, watched, nmVars>>

(* SerialService.connect has a port and a watcher, and raises: OpenRFCOMM  *)
(* answered too late, the file cannot be monitored, the root watcher not   *)
(* be replaced, or Connection dials at once and cannot.                    *)
WatchedFails(c) == /\ stage[c] = "idle"
                   /\ NewPort(c)
                   /\ watched' = watched \union {number'[c]}
                   /\ Called
                   /\ Ends(c, "error")
                   /\ Breaks(c)
                   /\ UNCHANGED <<dialVars, loaded, active, cancelled, tracked, nmVars>>

(* SerialService.connect gets a port and a watcher.  The port of a dial-up *)
(* service goes to PPPSupport, if that is loaded, which waits for          *)
(* ModemManager or dials at once; another one is answered at once.          *)
ConnectSerial(c, kind) ==
    /\ stage[c] = "idle"
    /\ kind = "dialup" /\ loaded => active
    /\ NewPort(c)
    /\ watched' = watched \union {number'[c]}
    /\ Called
    /\ IF kind = "dialup" /\ loaded
       THEN /\ \/ Move(c, "probing") /\ UNCHANGED call
               \/ PPPConnect(c)
            /\ tracked' = tracked \union {c}
            /\ UNCHANGED answerVars
       ELSE /\ Ends(c, "ok")
            /\ UNCHANGED <<call, tracked>>
    /\ UNCHANGED <<command, watching, timing, file, pppd, interface,
                   loaded, active, cancelled, broken, nmVars>>

(* local_reply of a PPPSupport whose on_unload broke off: it closes the    *)
(* port and answers nobody.                                                *)
ConnectInactive(c) ==
    /\ stage[c] = "idle"
    /\ loaded /\ ~active
    /\ NewPort(c)
    /\ Move(c, "done")
    /\ Called
    /\ Breaks(c)
    /\ UNCHANGED <<dialVars, loaded, active, cancelled, tracked, answerVars, watched, nmVars>>

(* Connection.connect, ten seconds later.                                  *)
ProbingEnds(c) == /\ stage[c] = "probing"
                  /\ PPPConnect(c)
                  /\ UNCHANGED <<mechanismVars, command, watching, timing, file, pppd, interface,
                                 pluginVars, answerVars, number, portVars, nmVars>>

(* It raises, in the timer: the device's address cannot be read, or there  *)
(* is no Mechanism.  Nobody is told, and the connection stays tracked.     *)
ProbingBreaks(c) == /\ stage[c] = "probing"
                    /\ Move(c, "done")
                    /\ Breaks(c)
                    /\ UNCHANGED <<vars, loaded, active, cancelled, tracked, answerVars,
                                   number, portVars, nmVars>>

(* on_connected.  A connection that was cancelled meanwhile only closes    *)
(* the port.  Once the caller is told, a listener or the notification may  *)
(* raise: _finish is not reached.                                          *)
on_connected(c) ==
    /\ stage[c] = "calling"
    /\ call[c] = "ok"
    /\ IF c \in cancelled
       THEN /\ Move(c, "done")
            /\ CloseRFCOMM({number[c]}) \/ CloseRaises({number[c]})
            /\ UNCHANGED <<answerVars, tracked, broken>>
       ELSE /\ Ends(c, "ok")
            /\ \/ forget_connection(c) /\ UNCHANGED broken
               \/ Breaks(c) /\ UNCHANGED tracked
            /\ UNCHANGED <<mechanismVars, portVars>>
    /\ UNCHANGED <<dialVars, loaded, active, cancelled, number, nmVars>>

(* Mutant: the caller is not told.                                         *)
SilentError(c) == /\ stage[c] = "calling"
                  /\ Move(c, "closing")
                  /\ UNCHANGED <<vars, pluginVars, answerVars, number, portVars, nmVars>>

(* on_error: the call is answered and the port closed a second later.      *)
on_error(c) == /\ stage[c] = "calling"
               /\ IF c \in cancelled
                  THEN Move(c, "done") /\ UNCHANGED answerVars
                  ELSE Move(c, "closing") /\ Tell(c, "error")
               /\ UNCHANGED <<vars, pluginVars, number, portVars, nmVars>>

PPPConnectFails(c) == call[c] = "error" /\ on_error(c)

(* D-Bus gives up a call after 25 seconds: not before the first command    *)
(* of the dial, which has 15, was answered.                                *)
PPPConnectTimesOut(c) == /\ call[c] = "served"
                         /\ ~(c \in timing /\ command[c] = 1)
                         /\ on_error(c)

(* _connect of on_error, with the number of the port that failed.  When    *)
(* the port cannot be closed _finish is not reached.                       *)
ClosePort(c) == /\ stage[c] = "closing"
                /\ Move(c, "done")
                /\ \/ /\ CloseRFCOMM({number[c]})
                      /\ forget_connection(c)
                      /\ UNCHANGED broken
                   \/ /\ CloseRaises({number[c]})
                      /\ Breaks(c)
                      /\ UNCHANGED tracked
                /\ UNCHANGED <<dialVars, loaded, active, cancelled, answerVars, number, nmVars>>

(* Connection.cancel: a pending dial is dropped, a pending close done at   *)
(* once, and the answer to a running dial will be ignored.                 *)
Cancel(cs) ==
    /\ cancelled' = cancelled \union cs
    /\ stage' = [c \in Calls |-> IF c \in cs /\ stage[c] \in {"probing", "closing"}
                                 THEN "done" ELSE stage[c]]

(* on_unload cancels the connections.                                      *)
UnloadPPPSupport ==
    /\ loaded
    /\ loaded' = FALSE /\ active' = FALSE
    /\ Cancel(tracked)
    /\ tracked' = {}
    /\ IF Closing = {} THEN UNCHANGED <<mechanismVars, portVars>>
       ELSE CloseRFCOMM({number[c] : c \in Closing})
    /\ UNCHANGED <<dialVars, broken, answerVars, number, nmVars>>

(* A port cannot be closed: the exception ends on_unload, after some of    *)
(* the connections in a set, and the plugin stays loaded.                  *)
UnloadBreaks ==
    /\ loaded
    /\ active' = FALSE
    /\ \E c \in Closing : \E cs \in SUBSET (tracked \ {c}) :
          /\ Cancel(cs \union {c})
          /\ tracked' = tracked \ (cs \ cancelled)
          /\ Breaks(c)
          /\ LET ps == {number[d] : d \in Closing \intersect cs}
             IN CloseRFCOMM(ps) \/ CloseRFCOMM(ps \union {number[c]})
    /\ UNCHANGED <<dialVars, loaded, answerVars, number, nmVars>>

LoadPPPSupport == /\ ~loaded
                  /\ loaded' = TRUE /\ active' = TRUE
                  /\ UNCHANGED <<vars, cancelled, tracked, broken, stage, answerVars,
                                 number, portVars, nmVars>>

(* _disconnect_service of a serial port.                                   *)
DisconnectService(p) == /\ p \in watched
                        /\ CloseRFCOMM({p})
                        /\ UNCHANGED <<dialVars, appletVars, nmVars>>

(* The device disconnects: SerialManager.on_device_disconnect closes the   *)
(* device's ports, those that can be closed.                               *)
on_device_disconnect == /\ watched # {}
                        /\ \E ps \in SUBSET watched : CloseRFCOMM(ps)
                        /\ UNCHANGED <<dialVars, appletVars, nmVars>>

(* The kernel releases a port that was hung up: its watcher sees the file  *)
(* go and quits.                                                           *)
HangUp(p) == /\ port[p] # Free
             /\ port' = [port EXCEPT ![p] = Free]
             /\ watched' = watched \ {p}
             /\ UNCHANGED <<vars, appletVars, nmVars>>

-----------------------------------------------------------------------------
(* A network, or a dial-up through NetworkManager.                *)

(* activate, when the connection was found, is being added, or cannot be   *)
(* added for want of an APN, of which the caller is told at once.  There   *)
(* is no device, or it is activated already; or the call listens to the    *)
(* device's state and asks for the activation.  Until a call listens the   *)
(* state is NetworkManager's affair.                                       *)
Activate(c) ==
    /\ stage[c] = "idle"
    /\ \E connection \in {"found", "adding", "no_apn"} :
         /\ adding' = IF connection = "adding" THEN adding \union {c} ELSE adding
         /\ refused' = IF connection = "no_apn" THEN refused \union {c} ELSE refused
         /\ \/ /\ Move(c, "done")
               /\ told' = [told EXCEPT ![c] = "error"]
               /\ replies' = [replies EXCEPT ![c] = IF connection = "no_apn" THEN 2 ELSE 1]
               /\ UNCHANGED <<activation, listening, state>>
            \/ /\ IF listening = {} THEN state' \in DeviceState \ {"activated"}
                  ELSE state # "activated" /\ UNCHANGED state
               /\ listening' = listening \union {c}
               /\ activation' = [activation EXCEPT ![c] = "asked"]
               /\ IF connection = "no_apn" THEN Ends(c, "error")
                  ELSE Move(c, "activating") /\ UNCHANGED answerVars
    /\ UNCHANGED <<vars, pluginVars, number, portVars>>

(* _on_connection_added: the caller of a connection that cannot be added   *)
(* is told, and the activation goes on.                                    *)
ConnectionAdded(c) ==
    /\ c \in adding
    /\ adding' = adding \ {c}
    /\ \/ UNCHANGED <<stage, answerVars, refused>>
       \/ Ends(c, "error") /\ refused' = refused \union {c}
    /\ UNCHANGED <<vars, pluginVars, number, portVars, activation, listening, state>>

(* on_connection_activate.                                                 *)
Accepted(c) == /\ activation[c] = "asked"
               /\ activation' = [activation EXCEPT ![c] = "accepted"]
               /\ UNCHANGED <<vars, appletVars, portVars, adding, refused, listening, state>>

(* The activation is refused: the call is answered and the handler stays.  *)
Refused(c) == /\ activation[c] = "asked"
              /\ activation' = [activation EXCEPT ![c] = "none"]
              /\ refused' = refused \union {c}
              /\ Ends(c, "error")
              /\ UNCHANGED <<vars, pluginVars, number,
                             portVars, adding, listening, state>>

(* _on_device_state_changed: the end of an activation, or of a connection, *)
(* answers every call that listens, those that were told of a refusal      *)
(* again, and disconnects its handler.  The device starts to be activated  *)
(* for a call that was accepted.                                           *)
DeviceStateChanged(new) ==
    /\ listening # {}
    /\ \/ state = "disconnected" /\ new = "activating"
          /\ \E c \in listening : activation[c] = "accepted"
       \/ state = "activating" /\ new \in {"activated", "deactivating", "failed", "disconnected"}
       \/ state \in {"deactivating", "failed"} /\ new = "disconnected"
    /\ IF state = "activating"
       THEN /\ TellAll(listening, IF new = "activated" THEN "ok" ELSE "error")
            /\ stage' = [c \in Calls |-> IF c \in listening THEN "done" ELSE stage[c]]
            /\ listening' = {}
            /\ state' = "disconnected"
       ELSE /\ state' = new
            /\ UNCHANGED <<stage, answerVars, listening>>
    /\ UNCHANGED <<vars, pluginVars, number, portVars, activation, adding, refused>>

CallStep(c) == \/ ConnectBluez(c) \/ BluezAnswers(c) \/ ConnectFails(c)
               \/ WatcherFails(c) \/ WatchedFails(c)
               \/ \E kind \in {"dialup", "serial"} : ConnectSerial(c, kind)
               \/ ConnectInactive(c)
               \/ ProbingEnds(c) \/ ProbingBreaks(c) \/ on_connected(c)
               \/ PPPConnectFails(c) \/ PPPConnectTimesOut(c) \/ ClosePort(c)
               \/ Activate(c) \/ ConnectionAdded(c) \/ Accepted(c) \/ Refused(c)

Next == \/ \E c \in Calls : CallStep(c)
        \/ \E c \in Calls : DialStep(c) /\ UNCHANGED <<appletVars, portVars, nmVars>>
        \/ (MechanismTicks \/ MechanismExits) /\ UNCHANGED <<appletVars, portVars, nmVars>>
        \/ UnloadPPPSupport \/ UnloadBreaks \/ LoadPPPSupport
        \/ \E p \in Ports : DisconnectService(p) \/ HangUp(p)
        \/ on_device_disconnect
        \/ \E new \in DeviceState : DeviceStateChanged(new)

Spec == Init /\ [][Next]_allVars

(* What the applet does about a call next, in its main loop.               *)
AppletStep(c) == \/ BluezAnswers(c)
                 \/ ProbingEnds(c) \/ ProbingBreaks(c)
                 \/ on_connected(c) \/ PPPConnectFails(c) \/ PPPConnectTimesOut(c)
                 \/ ClosePort(c)

(* The mechanism takes a call that is delivered, and its timers run out.   *)
MechanismStep(c) == NotAuthorized(c) \/ NotStarted(c) \/ Dialing(c) \/ ModemTimeout(c)

(* The main loop of the applet runs its timers and hands over the answers, *)
(* and D-Bus answers every call: with what BlueZ, NetworkManager or the    *)
(* mechanism says, or with a timeout.  A device that NetworkManager        *)
(* activates is activated, or it is not, in the end.                       *)
FairSpec == /\ Spec
            /\ \A c \in Calls :
                 /\ WF_allVars(AppletStep(c))
                 /\ WF_allVars(MechanismStep(c) /\ UNCHANGED <<appletVars, portVars, nmVars>>)
                 /\ WF_allVars(Accepted(c) \/ Refused(c))
            /\ WF_allVars(\E new \in DeviceState : DeviceStateChanged(new))

-----------------------------------------------------------------------------
(* The mechanism never waits for a modem whose file it has closed, and     *)
(* never without a timeout: on_timeout, on_data_ready and connect_callback *)
(* each close the file, and each must have removed what the others wait    *)
(* for.                                                                    *)
WaitsOnOpenFile == watching \subseteq timing /\ timing \subseteq file

(* Connections that wait for ModemManager, dial or have a port to close.   *)
Live == {c \in Calls : stage[c] \in {"probing", "calling", "closing"}} \ cancelled

(* PPPSupport tracks the connections that still have something to do, all  *)
(* of them: on_unload would otherwise leave one that closes a port or      *)
(* answers a call after the plugin is gone.  It tracks no other but those  *)
(* at which a handler broke off.                                           *)
TrackedAreLive == Live \subseteq tracked /\ tracked \ broken \subseteq Live

(* The call of ConnectService as its caller sees it.  It is over, without  *)
(* an answer, when PPPSupport is unloaded while it dials:                  *)
(* Connection.cancel answers nobody.                                       *)
CallState == [c \in Calls |->
                 CASE told[c] # "none" -> "answered"
                   [] told[c] = "none" /\ c \in cancelled -> "over"
                   [] told[c] = "none" /\ c \notin cancelled /\ stage[c] = "idle" -> "unused"
                   [] told[c] = "none" /\ c \notin cancelled /\ stage[c] # "idle" -> "open"]

(* The answers as they are counted, but for a call of which NetworkManager *)
(* refused a step: NMConnectionBase answers it again with the state of the *)
(* device, and only the first answer reaches the caller.                   *)
Replies == [c \in Calls |-> IF c \in refused THEN 1 ELSE replies[c]]

Method == INSTANCE DBusMethod WITH state <- CallState, replies <- Replies

(* However the modem, pppd, the mechanism, BlueZ and NetworkManager        *)
(* behave, a call of ConnectService gets its one answer, unless PPPSupport *)
(* is unloaded meanwhile or a handler broke off.                           *)
CallEnds == /\ Method!Spec
            /\ \A c \in Calls : CallState[c] = "open" ~> CallState[c] # "open" \/ c \in broken

(* When a call has failed its port does not stay open: _connect closes it  *)
(* a second later, or cancel at once when the plugin is unloaded in        *)
(* between; unless it cannot be closed, or the exception that failed the   *)
(* call came when it was open already.                                     *)
FailedIsClosed == \A c \in Calls : told[c] = "error" ~> ~Open(c) \/ c \in broken
=============================================================================
