------------------------ MODULE ConnectServiceProofs ------------------------
(***************************************************************************)
(* Proofs about ConnectService and the dial-up below it, for any number of *)
(* calls, ports and commands of the modem.                                 *)
(***************************************************************************)
EXTENDS ConnectService, TLAPS

\* What the proofs need of the constants.
LEMMA Constants == /\ Commands \in Nat \ {0}
                   /\ IdleLimit \in Nat \ {0}
                   /\ NoPort \notin Ports
BY DialAssumption, IdleAssumption, PortAssumption

\* A step of the timer keeps the mechanism's type.
LEMMA MechanismTimer ==
    ASSUME MechanismTypeOK,
           Called \/ Authorized \/ Stop \/ (up /\ Resume) \/ Tick \/ Exit \/ UNCHANGED mechanismVars
    PROVE  MechanismTypeOK'
<1>1. up' \in BOOLEAN /\ stopped' \in BOOLEAN
  BY DEF MechanismTypeOK, Called, Authorized, Stop, Resume, Tick, Exit, Idle, mechanismVars
<1>2. time' \in 0 .. IdleLimit - 1
  <2>1. time' \in {time, 0} \/ Tick
    BY DEF Called, Authorized, Stop, Resume, Exit, mechanismVars
  <2>2. CASE Tick
    BY <2>2, Constants DEF MechanismTypeOK, Tick
  <2> QED
    BY <2>1, <2>2, Constants DEF MechanismTypeOK
<1>3. ~up' => ~stopped' /\ time' = 0
  BY DEF MechanismTypeOK, Called, Authorized, Stop, Resume, Tick, Exit, Idle, mechanismVars
<1> QED
  BY <1>1, <1>2, <1>3 DEF MechanismTypeOK

\* What the mechanism serves or waits for needs its process.
ServedIsUp == ~up => /\ \A c \in Calls : call[c] # "served"
                     /\ timing = {}
                     /\ watching = {}

\* A step of a dial keeps the type of the dial and of the mechanism.
LEMMA DialStepType ==
    ASSUME MechanismTypeOK, DialTypeOK, NEW c \in Calls, DialStep(c)
    PROVE  DialTypeOK'
<1>1. CASE NotAuthorized(c)
  BY <1>1 DEF DialTypeOK, NotAuthorized, Answer
<1>2. CASE NotStarted(c)
  BY <1>2 DEF DialTypeOK, NotStarted, Answer
<1>3. CASE Dialing(c)
  BY <1>3, Constants DEF DialTypeOK, Dialing, Answer, WaitForReply
<1>4. CASE Reply(c)
  BY <1>4, Constants DEF DialTypeOK, Reply, WaitForReply
<1>5. CASE WriteFails(c)
  BY <1>5, Constants DEF DialTypeOK, WriteFails, StopWaiting
<1>6. CASE ModemConnects(c)
  BY <1>6, Constants DEF DialTypeOK, ModemConnects, StopWaiting, cleanup
<1>7. CASE DialFails(c)
  BY <1>7, Constants DEF DialTypeOK, DialFails, StopWaiting, cleanup, ErrorOccurred, Answer
<1>8. CASE SocketError(c)
  BY <1>8, Constants DEF DialTypeOK, SocketError, StopWaiting, cleanup, ErrorOccurred, Answer
<1>9. CASE BadByte(c)
  BY <1>9 DEF DialTypeOK, BadByte
<1>10. CASE ModemTimeout(c)
  BY <1>10, Constants DEF DialTypeOK, ModemTimeout, StopWaiting, cleanup, ErrorOccurred, Answer
<1>11. CASE on_pppd_stdout(c)
  BY <1>11 DEF DialTypeOK, on_pppd_stdout
<1>12. CASE PppdEnds(c)
  BY <1>12 DEF DialTypeOK, PppdEnds
<1>13. CASE check_pppd(c)
  BY <1>13 DEF DialTypeOK, check_pppd, ErrorOccurred, Answer
<1> QED
  BY <1>1, <1>2, <1>3, <1>4, <1>5, <1>6, <1>7, <1>8, <1>9, <1>10, <1>11, <1>12, <1>13 DEF DialStep

\* A handler that answers for the mechanism runs in its process, so the
\* process is there when the timer is resumed.
LEMMA DialStepMechanism ==
    ASSUME MechanismTypeOK, DialTypeOK, ServedIsUp, NEW c \in Calls, DialStep(c)
    PROVE  MechanismTypeOK' /\ ServedIsUp'
<1>1. MechanismTypeOK'
  <2>1. Authorized \/ Stop \/ (up /\ Resume) \/ UNCHANGED mechanismVars
    BY DEF DialStep, NotAuthorized, NotStarted, Dialing, Reply, WriteFails, ModemConnects, DialFails,
           SocketError, BadByte, ModemTimeout, on_pppd_stdout, PppdEnds, check_pppd, ErrorOccurred, ServedIsUp
  <2> QED
    BY <2>1, MechanismTimer
<1>2. ServedIsUp'
  <2>1. CASE NotAuthorized(c) \/ NotStarted(c) \/ Dialing(c)
    BY <2>1 DEF NotAuthorized, NotStarted, Dialing, Authorized, Stop, ServedIsUp
  <2>2. CASE Reply(c) \/ WriteFails(c) \/ ModemConnects(c) \/ BadByte(c)
    BY <2>2 DEF Reply, WriteFails, ModemConnects, BadByte, WaitForReply, StopWaiting, mechanismVars,
                ServedIsUp
  <2>3. CASE DialFails(c) \/ SocketError(c) \/ ModemTimeout(c)
    BY <2>3 DEF DialFails, SocketError, ModemTimeout, StopWaiting, ErrorOccurred, Resume, ServedIsUp
  <2>4. CASE on_pppd_stdout(c) \/ PppdEnds(c)
    BY <2>4 DEF on_pppd_stdout, PppdEnds, mechanismVars, ServedIsUp
  <2>5. CASE check_pppd(c)
    BY <2>5 DEF check_pppd, ErrorOccurred, Resume, ServedIsUp
  <2> QED
    BY <2>1, <2>2, <2>3, <2>4, <2>5 DEF DialStep
<1> QED
  BY <1>1, <1>2

-----------------------------------------------------------------------------
(***************************************************************************)
(* The invariant.  TrackedAreLive is inductive with two facts: a call is   *)
(* not cancelled before it has started, and what NetworkManager answers    *)
(* is never a call that dials.                                             *)
(***************************************************************************)
CancelledHaveStarted == \A c \in cancelled : stage[c] # "idle"

Activated(c) == c \in listening \/ c \in adding \/ activation[c] # "none"

ActivatedElsewhere == \A c \in Calls : /\ Activated(c) => stage[c] \in {"activating", "done"}
                                       /\ c \in refused => stage[c] = "done"

BrokenAreOver == \A c \in broken : stage[c] = "done" /\ ~Activated(c) /\ c \notin refused

Bookkeeping == TrackedAreLive /\ CancelledHaveStarted /\ ActivatedElsewhere /\ BrokenAreOver

\* A call that still waits was not told anything, and one whose connection
\* PPPSupport cancelled is told nothing by NetworkManager either.
Untold == \A c \in Calls : stage[c] \in {"idle", "bluez", "activating", "probing", "calling"}
                              => told[c] = "none"

CancelledIsQuiet == \A c \in cancelled : /\ stage[c] \in {"calling", "done"}
                                         /\ ~Activated(c)
                                         /\ c \notin refused

\* NetworkManager answers a second time only a call it has refused.
Counted == \A c \in Calls : /\ c \notin refused => replies[c] = IF told[c] = "none" THEN 0 ELSE 1
                            /\ c \in refused => told[c] # "none"
                            /\ c \in listening /\ told[c] # "none" => c \in refused

Quiet == Untold /\ CancelledIsQuiet /\ Counted

Inv == TypeOK /\ ServedIsUp /\ WaitsOnOpenFile /\ Bookkeeping /\ Quiet

LEMMA InitInv == Init => Inv
<1> SUFFICES ASSUME Init PROVE Inv
  OBVIOUS
<1>1. MechanismTypeOK /\ DialTypeOK
  <2>1. 0 \in 0 .. IdleLimit - 1 /\ 0 \in 0 .. Commands
    BY Constants
  <2>2. MechanismTypeOK
    BY <2>1 DEF Init, MechanismInit, MechanismTypeOK
  <2>3. DialTypeOK
    BY <2>1 DEF Init, DialInit, DialTypeOK
  <2> QED
    BY <2>2, <2>3
<1>2. TypeOK
  BY <1>1 DEF Init, TypeOK, DeviceState
<1>3. ServedIsUp /\ WaitsOnOpenFile
  BY DEF Init, DialInit, ServedIsUp, WaitsOnOpenFile
<1>4. Bookkeeping
  BY DEF Init, Bookkeeping, TrackedAreLive, Live, CancelledHaveStarted, Activated, ActivatedElsewhere,
         BrokenAreOver
<1>5. Quiet
  BY DEF Init, Quiet, Untold, CancelledIsQuiet, Counted
<1> QED
  BY <1>2, <1>3, <1>4, <1>5 DEF Inv

\* What the steps of a call are made of keeps its type.
LEMMA Told1 ==
    ASSUME TypeOK, NEW c \in Calls, NEW a \in {"none", "ok", "error"}, Tell(c, a)
    PROVE  told' \in [Calls -> {"none", "ok", "error"}] /\ replies' \in [Calls -> Nat]
BY DEF TypeOK, Tell, TellAll

LEMMA Moved ==
    ASSUME TypeOK, NEW c \in Calls,
           NEW s \in {"idle", "bluez", "activating", "probing", "calling", "closing", "done"}, Move(c, s)
    PROVE  stage' \in [Calls -> {"idle", "bluez", "activating", "probing", "calling", "closing", "done"}]
BY DEF TypeOK, Move

LEMMA Ported ==
    ASSUME TypeOK, NEW c \in Calls, NewPort(c)
    PROVE  /\ port' \in [Ports -> Calls \union {Free}]
           /\ number' \in [Calls -> Ports \union {NoPort}]
           /\ number'[c] \in Ports
BY DEF TypeOK, NewPort

\* The steps of a call leave the mechanism alone, or only call it.
LEMMA CallStepCalls ==
    ASSUME NEW c \in Calls, CallStep(c)
    PROVE  /\ Called \/ UNCHANGED mechanismVars
           /\ UNCHANGED <<command, watching, timing, file, pppd, interface>>
           /\ call' \in {call, [call EXCEPT ![c] = "asked"]}
<1>1. CASE ConnectBluez(c) \/ BluezAnswers(c) \/ ConnectFails(c) \/ WatcherFails(c) \/ ProbingBreaks(c)
  BY <1>1 DEF ConnectBluez, BluezAnswers, ConnectFails, WatcherFails, ProbingBreaks, vars, dialVars
<1>2. CASE WatchedFails(c) \/ ConnectInactive(c) \/ ClosePort(c)
  BY <1>2 DEF WatchedFails, ConnectInactive, ClosePort, CloseRFCOMM, CloseRaises, dialVars
<1>3. CASE \E kind \in {"dialup", "serial"} : ConnectSerial(c, kind)
  BY <1>3 DEF ConnectSerial, PPPConnect, Answer
<1>4. CASE ProbingEnds(c)
  BY <1>4 DEF ProbingEnds, PPPConnect, Answer
<1>5. CASE on_connected(c)
  BY <1>5 DEF on_connected, CloseRFCOMM, CloseRaises, dialVars
<1>6. CASE on_error(c) \/ Activate(c) \/ ConnectionAdded(c) \/ Accepted(c) \/ Refused(c)
  BY <1>6 DEF on_error, Activate, ConnectionAdded, Accepted, Refused, vars, dialVars
<1> QED
  BY <1>1, <1>2, <1>3, <1>4, <1>5, <1>6 DEF CallStep, PPPConnectFails, PPPConnectTimesOut

\* The steps of the applet keep the types.
LEMMA CallStepType ==
    ASSUME TypeOK, NEW c \in Calls, CallStep(c)
    PROVE  TypeOK'
<1>1. MechanismTypeOK' /\ DialTypeOK'
  BY CallStepCalls, MechanismTimer DEF TypeOK, DialTypeOK
<1>2. CASE ConnectBluez(c) \/ BluezAnswers(c) \/ ConnectFails(c)
  <2>1. PICK a \in {"ok", "error"} : (Move(c, "bluez") /\ UNCHANGED answerVars) \/ Ends(c, a)
    BY <1>2 DEF ConnectBluez, BluezAnswers, ConnectFails
  <2>2. /\ stage' \in [Calls -> {"idle", "bluez", "activating", "probing", "calling", "closing", "done"}]
        /\ told' \in [Calls -> {"none", "ok", "error"}] /\ replies' \in [Calls -> Nat]
    BY <2>1, Moved, Told1 DEF Ends, answerVars, TypeOK
  <2> QED
    BY <1>1, <1>2, <2>2 DEF TypeOK, ConnectBluez, BluezAnswers, ConnectFails, pluginVars, portVars, nmVars
<1>3. CASE WatcherFails(c)
  BY <1>1, <1>3, Ported, Moved, Told1 DEF TypeOK, WatcherFails, Ends, pluginVars, nmVars
<1>4. CASE WatchedFails(c)
  BY <1>1, <1>4, Ported, Moved, Told1 DEF TypeOK, WatchedFails, Breaks, Ends, nmVars
<1>5. CASE \E kind \in {"dialup", "serial"} : ConnectSerial(c, kind)
  <2>1. PICK kind \in {"dialup", "serial"} : ConnectSerial(c, kind)
    BY <1>5
  <2>2. /\ port' \in [Ports -> Calls \union {Free}]
        /\ watched' \subseteq Ports
        /\ number' \in [Calls -> Ports \union {NoPort}]
    BY <2>1, Ported DEF TypeOK, ConnectSerial
  <2>3. /\ stage' \in [Calls -> {"idle", "bluez", "activating", "probing", "calling", "closing", "done"}]
        /\ told' \in [Calls -> {"none", "ok", "error"}] /\ replies' \in [Calls -> Nat]
        /\ tracked' \subseteq Calls
    <3>1. Move(c, "probing") \/ Move(c, "calling") \/ Move(c, "done")
      BY <2>1 DEF ConnectSerial, PPPConnect, Ends
    <3>2. Tell(c, "ok") \/ UNCHANGED answerVars
      BY <2>1 DEF ConnectSerial, Ends
    <3>3. tracked' \in {tracked, tracked \union {c}}
      BY <2>1 DEF ConnectSerial
    <3> QED
      BY <3>1, <3>2, <3>3, Moved, Told1 DEF TypeOK, answerVars
  <2> QED
    BY <1>1, <2>1, <2>2, <2>3 DEF TypeOK, ConnectSerial, nmVars
<1>6. CASE ConnectInactive(c)
  BY <1>1, <1>6, Ported, Moved DEF TypeOK, ConnectInactive, Breaks, answerVars, nmVars
<1>7. CASE ProbingEnds(c) \/ ProbingBreaks(c)
  BY <1>1, <1>7, Moved DEF TypeOK, ProbingEnds, ProbingBreaks, PPPConnect, Breaks, pluginVars, answerVars,
                           portVars, nmVars
<1>8. CASE on_connected(c)
  <2>1. /\ stage' \in [Calls -> {"idle", "bluez", "activating", "probing", "calling", "closing", "done"}]
        /\ told' \in [Calls -> {"none", "ok", "error"}] /\ replies' \in [Calls -> Nat]
    <3>1. Move(c, "done") /\ (Tell(c, "ok") \/ UNCHANGED answerVars)
      BY <1>8 DEF on_connected, Ends
    <3> QED
      BY <3>1, Moved, Told1 DEF TypeOK, answerVars
  <2>2. port' = port /\ watched' \subseteq watched /\ tracked' \subseteq tracked
    BY <1>8 DEF on_connected, forget_connection, CloseRFCOMM, CloseRaises, portVars
  <2>3. broken' \subseteq Calls
    BY <1>8 DEF on_connected, Breaks, TypeOK
  <2> QED
    BY <1>1, <1>8, <2>1, <2>2, <2>3 DEF TypeOK, on_connected, nmVars
<1>9. CASE on_error(c)
  <2>1. /\ stage' \in [Calls -> {"idle", "bluez", "activating", "probing", "calling", "closing", "done"}]
        /\ told' \in [Calls -> {"none", "ok", "error"}] /\ replies' \in [Calls -> Nat]
    BY <1>9, Moved, Told1 DEF on_error, TypeOK, answerVars
  <2> QED
    BY <1>1, <1>9, <2>1 DEF TypeOK, on_error, pluginVars, portVars, nmVars
<1>10. CASE ClosePort(c)
  <2>1. port' = port /\ watched' \subseteq watched /\ tracked' \subseteq tracked /\ broken' \subseteq Calls
    BY <1>10 DEF ClosePort, forget_connection, CloseRFCOMM, CloseRaises, Breaks, portVars, TypeOK
  <2> QED
    BY <1>1, <1>10, <2>1, Moved DEF TypeOK, ClosePort, answerVars, nmVars
<1>11. CASE Activate(c)
  <2>1. /\ stage' \in [Calls -> {"idle", "bluez", "activating", "probing", "calling", "closing", "done"}]
        /\ told' \in [Calls -> {"none", "ok", "error"}] /\ replies' \in [Calls -> Nat]
    <3>1. Move(c, "done") \/ Move(c, "activating")
      BY <1>11 DEF Activate, Ends
    <3>2. \/ told' = [told EXCEPT ![c] = "error"] /\ replies' \in {[replies EXCEPT ![c] = 1], [replies EXCEPT ![c] = 2]}
          \/ Tell(c, "error") \/ UNCHANGED answerVars
      BY <1>11 DEF Activate, Ends
    <3> QED
      BY <3>1, <3>2, Moved, Told1 DEF TypeOK, answerVars
  <2>2. adding' \subseteq Calls /\ refused' \subseteq Calls
    BY <1>11 DEF Activate, TypeOK
  <2>3. listening' \subseteq Calls /\ state' \in DeviceState /\ activation' \in [Calls -> {"none", "asked", "accepted"}]
    BY <1>11 DEF Activate, TypeOK
  <2> QED
    BY <1>1, <1>11, <2>1, <2>2, <2>3 DEF TypeOK, Activate, pluginVars, portVars
<1>12. CASE ConnectionAdded(c)
  <2>1. /\ stage' \in [Calls -> {"idle", "bluez", "activating", "probing", "calling", "closing", "done"}]
        /\ told' \in [Calls -> {"none", "ok", "error"}] /\ replies' \in [Calls -> Nat]
    BY <1>12, Moved, Told1 DEF ConnectionAdded, Ends, answerVars, TypeOK
  <2> QED
    BY <1>1, <1>12, <2>1 DEF TypeOK, ConnectionAdded, pluginVars, portVars
<1>13. CASE Accepted(c)
  BY <1>1, <1>13 DEF TypeOK, Accepted, appletVars, pluginVars, answerVars, portVars
<1>14. CASE Refused(c)
  BY <1>1, <1>14, Moved, Told1 DEF TypeOK, Refused, Ends, pluginVars, portVars
<1> QED
  BY <1>2, <1>3, <1>4, <1>5, <1>6, <1>7, <1>8, <1>9, <1>10, <1>11, <1>12, <1>13, <1>14
     DEF CallStep, PPPConnectFails, PPPConnectTimesOut

\* ... and so does every other step.
LEMMA NextType ==
    ASSUME TypeOK, ServedIsUp, [Next]_allVars
    PROVE  TypeOK'
<1>1. CASE \E c \in Calls : CallStep(c)
  BY <1>1, CallStepType
<1>2. CASE \E c \in Calls : DialStep(c) /\ UNCHANGED <<appletVars, portVars, nmVars>>
  <2>1. MechanismTypeOK' /\ DialTypeOK'
    BY <1>2, DialStepType, DialStepMechanism DEF TypeOK
  <2> QED
    BY <1>2, <2>1 DEF TypeOK, appletVars, pluginVars, answerVars, portVars, nmVars
<1>3. CASE (MechanismTicks \/ MechanismExits) /\ UNCHANGED <<appletVars, portVars, nmVars>>
  <2>1. MechanismTypeOK'
    BY <1>3, MechanismTimer DEF TypeOK, MechanismTicks, MechanismExits
  <2>2. DialTypeOK'
    BY <1>3, Constants DEF TypeOK, DialTypeOK, MechanismTicks, MechanismExits, dialVars
  <2> QED
    BY <1>3, <2>1, <2>2 DEF TypeOK, appletVars, pluginVars, answerVars, portVars, nmVars
<1>4. CASE UnloadPPPSupport \/ UnloadBreaks
  <2>1. Called \/ UNCHANGED mechanismVars
    BY <1>4 DEF UnloadPPPSupport, UnloadBreaks, CloseRFCOMM
  <2>2. \E cs \in SUBSET Calls : Cancel(cs)
    <3>1. CASE UnloadPPPSupport
      BY <3>1 DEF UnloadPPPSupport, TypeOK
    <3>2. CASE UnloadBreaks
      <4>1. PICK c \in Closing : \E cs \in SUBSET (tracked \ {c}) : Cancel(cs \union {c})
        BY <3>2 DEF UnloadBreaks
      <4>2. PICK cs \in SUBSET (tracked \ {c}) : Cancel(cs \union {c})
        BY <4>1
      <4>3. cs \union {c} \in SUBSET Calls
        BY <4>1, <4>2 DEF Closing, TypeOK
      <4> QED
        BY <4>2, <4>3
    <3> QED
      BY <1>4, <3>1, <3>2
  <2>3. /\ cancelled' \subseteq Calls
        /\ stage' \in [Calls -> {"idle", "bluez", "activating", "probing", "calling", "closing", "done"}]
    BY <2>2 DEF Cancel, TypeOK
  <2>4. port' \in [Ports -> Calls \union {Free}] /\ watched' \subseteq Ports
    BY <1>4 DEF TypeOK, UnloadPPPSupport, UnloadBreaks, CloseRFCOMM, portVars
  <2>5. tracked' \subseteq Calls /\ broken' \subseteq Calls
    BY <1>4 DEF TypeOK, UnloadPPPSupport, UnloadBreaks, Closing, Breaks
  <2>6. MechanismTypeOK'
    BY <2>1, MechanismTimer DEF TypeOK
  <2> QED
    BY <1>4, <2>3, <2>4, <2>5, <2>6 DEF TypeOK, UnloadPPPSupport, UnloadBreaks, DialTypeOK, dialVars,
                                        answerVars, nmVars
<1>5. CASE LoadPPPSupport
  BY <1>5 DEF TypeOK, LoadPPPSupport, MechanismTypeOK, DialTypeOK, vars, mechanismVars, dialVars,
              answerVars, portVars, nmVars
<1>6. CASE (\E p \in Ports : DisconnectService(p)) \/ on_device_disconnect
  <2>1. MechanismTypeOK'
    BY <1>6, MechanismTimer DEF TypeOK, DisconnectService, on_device_disconnect, CloseRFCOMM
  <2> QED
    BY <1>6, <2>1 DEF TypeOK, DisconnectService, on_device_disconnect, CloseRFCOMM, DialTypeOK,
                      dialVars, appletVars, pluginVars, answerVars, nmVars
<1>7. CASE \E p \in Ports : HangUp(p)
  BY <1>7 DEF TypeOK, HangUp, MechanismTypeOK, DialTypeOK, vars, mechanismVars, dialVars,
              appletVars, pluginVars, answerVars, nmVars
<1>8. CASE \E new \in DeviceState : DeviceStateChanged(new)
  <2>1. MechanismTypeOK' /\ DialTypeOK'
    BY <1>8 DEF TypeOK, DeviceStateChanged, MechanismTypeOK, DialTypeOK, vars, mechanismVars, dialVars
  <2>2. /\ stage' \in [Calls -> {"idle", "bluez", "activating", "probing", "calling", "closing", "done"}]
        /\ told' \in [Calls -> {"none", "ok", "error"}] /\ replies' \in [Calls -> Nat]
    BY <1>8 DEF TypeOK, DeviceStateChanged, TellAll, answerVars
  <2>3. listening' \subseteq Calls /\ state' \in DeviceState
    BY <1>8 DEF TypeOK, DeviceStateChanged, DeviceState
  <2> QED
    BY <1>8, <2>1, <2>2, <2>3 DEF TypeOK, DeviceStateChanged, pluginVars, portVars
<1>9. CASE UNCHANGED allVars
  BY <1>9 DEF TypeOK, MechanismTypeOK, DialTypeOK, allVars, vars, mechanismVars, dialVars,
              appletVars, pluginVars, answerVars, portVars, nmVars
<1> QED
  BY <1>1, <1>2, <1>3, <1>4, <1>5, <1>6, <1>7, <1>8, <1>9 DEF Next

\* Only the mechanism's own steps touch what it serves, and its exit leaves
\* nothing behind that it served or waited for.
LEMMA ServedStep ==
    ASSUME TypeOK, ServedIsUp, [Next]_allVars
    PROVE  ServedIsUp'
<1>1. CASE \E c \in Calls : CallStep(c)
  <2>1. PICK c \in Calls : CallStep(c)
    BY <1>1
  <2>2. (up => up') /\ UNCHANGED <<watching, timing>>
    BY <2>1, CallStepCalls DEF Called, mechanismVars
  <2>3. \A d \in Calls : call'[d] = call[d] \/ call'[d] = "asked"
    BY <2>1, CallStepCalls DEF TypeOK, DialTypeOK
  <2> QED
    BY <2>2, <2>3 DEF ServedIsUp
<1>2. CASE \E c \in Calls : DialStep(c)
  BY <1>2, DialStepMechanism DEF TypeOK
<1>3. CASE MechanismTicks \/ MechanismExits
  BY <1>3 DEF MechanismTicks, MechanismExits, Tick, Exit, Idle, dialVars, ServedIsUp, TypeOK, DialTypeOK
<1>4. CASE UnloadPPPSupport \/ UnloadBreaks \/ LoadPPPSupport \/ (\E p \in Ports : DisconnectService(p) \/ HangUp(p))
           \/ on_device_disconnect \/ (\E new \in DeviceState : DeviceStateChanged(new))
           \/ UNCHANGED allVars
  <2>1. CASE UnloadBreaks
    BY <2>1 DEF UnloadBreaks, CloseRFCOMM, Called, dialVars, ServedIsUp
  <2>2. CASE ~UnloadBreaks
    <3>1. (up => up') /\ UNCHANGED dialVars
      BY <1>4, <2>2 DEF UnloadPPPSupport, LoadPPPSupport, DisconnectService, HangUp, on_device_disconnect,
                  DeviceStateChanged, CloseRFCOMM, Called, vars, allVars, mechanismVars
    <3> QED
      BY <3>1 DEF dialVars, ServedIsUp
  <2> QED
    BY <2>1, <2>2
<1> QED
  BY <1>1, <1>2, <1>3, <1>4 DEF Next

\* Whoever stops waiting has removed both sources before the file is closed.
LEMMA WaitsStep ==
    ASSUME WaitsOnOpenFile, [Next]_allVars
    PROVE  WaitsOnOpenFile'
<1>1. CASE \E c \in Calls : DialStep(c)
  BY <1>1 DEF WaitsOnOpenFile, DialStep, NotAuthorized, NotStarted, Dialing, Reply, WriteFails, ModemConnects,
              DialFails, SocketError, BadByte, ModemTimeout, on_pppd_stdout, PppdEnds, check_pppd,
              WaitForReply, StopWaiting, cleanup
<1>2. CASE MechanismTicks \/ MechanismExits
  BY <1>2 DEF WaitsOnOpenFile, MechanismTicks, MechanismExits, dialVars
<1>3. CASE UNCHANGED <<watching, timing, file>>
  BY <1>3 DEF WaitsOnOpenFile
<1>4. ASSUME NEW c \in Calls, CallStep(c)
      PROVE  UNCHANGED <<watching, timing, file>>
  BY <1>4, CallStepCalls
<1>5. ASSUME UnloadPPPSupport \/ UnloadBreaks \/ LoadPPPSupport \/ (\E p \in Ports : DisconnectService(p) \/ HangUp(p))
             \/ on_device_disconnect \/ (\E new \in DeviceState : DeviceStateChanged(new))
             \/ UNCHANGED allVars
      PROVE  UNCHANGED <<watching, timing, file>>
  BY <1>5 DEF UnloadPPPSupport, UnloadBreaks, LoadPPPSupport, DisconnectService, HangUp, on_device_disconnect,
              DeviceStateChanged, vars, allVars, dialVars
<1> QED
  BY <1>1, <1>2, <1>3, <1>4, <1>5 DEF Next

\* How a step of a call moves it: what its handler does to the books.
LEMMA CallStepMoves ==
    ASSUME TypeOK, NEW c \in Calls, CallStep(c)
    PROVE  /\ \A d \in Calls \ {c} : stage'[d] = stage[d] /\ told'[d] = told[d] /\ replies'[d] = replies[d]
           /\ \A d \in Calls \ {c} : /\ d \in listening' <=> d \in listening
                                     /\ d \in adding' <=> d \in adding
                                     /\ d \in refused' <=> d \in refused
                                     /\ activation'[d] = activation[d]
                                     /\ d \in tracked' <=> d \in tracked
                                     /\ d \in broken' <=> d \in broken
           /\ cancelled' = cancelled
<1>1. CASE ConnectBluez(c) \/ BluezAnswers(c) \/ ConnectFails(c) \/ WatcherFails(c) \/ WatchedFails(c)
           \/ ConnectInactive(c) \/ ProbingEnds(c) \/ ProbingBreaks(c) \/ on_error(c) \/ Accepted(c) \/ Refused(c)
  BY <1>1 DEF TypeOK, ConnectBluez, BluezAnswers, ConnectFails, WatcherFails, WatchedFails, ConnectInactive,
              ProbingEnds, ProbingBreaks, on_error, Accepted, Refused, PPPConnect, Ends, Move, Tell, TellAll,
              Breaks, appletVars, pluginVars, answerVars, nmVars
<1>2. CASE \E kind \in {"dialup", "serial"} : ConnectSerial(c, kind)
  BY <1>2 DEF TypeOK, ConnectSerial, PPPConnect, Ends, Move, Tell, TellAll, answerVars, nmVars
<1>3. CASE on_connected(c) \/ ClosePort(c)
  BY <1>3 DEF TypeOK, on_connected, ClosePort, forget_connection, Breaks, Ends, Move, Tell, TellAll,
              answerVars, nmVars
<1>4. CASE Activate(c)
  BY <1>4 DEF TypeOK, Activate, Ends, Move, Tell, TellAll, pluginVars, answerVars
<1>5. CASE ConnectionAdded(c)
  BY <1>5 DEF TypeOK, ConnectionAdded, Ends, Move, Tell, TellAll, pluginVars, answerVars
<1> QED
  BY <1>1, <1>2, <1>3, <1>4, <1>5 DEF CallStep, PPPConnectFails, PPPConnectTimesOut

\* The books about one call.
Books(c) == /\ stage[c] \in {"probing", "calling", "closing"} /\ c \notin cancelled => c \in tracked
            /\ c \in tracked /\ c \notin broken
                  => stage[c] \in {"probing", "calling", "closing"} /\ c \notin cancelled
            /\ c \in cancelled => /\ stage[c] \in {"calling", "done"}
                                  /\ ~Activated(c)
                                  /\ c \notin refused
            /\ Activated(c) => stage[c] \in {"activating", "done"}
            /\ c \in refused => stage[c] = "done"
            /\ c \in broken => stage[c] = "done" /\ ~Activated(c) /\ c \notin refused
            /\ stage[c] \in {"idle", "bluez", "activating", "probing", "calling"} => told[c] = "none"
            /\ c \notin refused => replies[c] = IF told[c] = "none" THEN 0 ELSE 1
            /\ c \in refused => told[c] # "none"
            /\ c \in listening /\ told[c] # "none" => c \in refused

LEMMA BooksOfEach == ASSUME TypeOK PROVE Bookkeeping /\ Quiet <=> \A c \in Calls : Books(c)
BY DEF TypeOK, Bookkeeping, TrackedAreLive, Live, CancelledHaveStarted, ActivatedElsewhere, BrokenAreOver,
       Quiet, Untold, CancelledIsQuiet, Counted, Books

\* A step of a call keeps the books about it.
LEMMA CallBooks ==
    ASSUME TypeOK, NEW c \in Calls, Books(c), CallStep(c)
    PROVE  Books(c)'
<1> USE DEF Books, Activated
<1>1. CASE ConnectBluez(c) \/ BluezAnswers(c) \/ ConnectFails(c) \/ WatcherFails(c)
  BY <1>1 DEF TypeOK, ConnectBluez, BluezAnswers, ConnectFails, WatcherFails, Ends, Move, Tell, TellAll,
              pluginVars, answerVars, nmVars
<1>2. CASE WatchedFails(c) \/ ConnectInactive(c)
  BY <1>2 DEF TypeOK, WatchedFails, ConnectInactive, Breaks, Ends, Move, Tell, TellAll, answerVars, nmVars
<1>3. CASE \E kind \in {"dialup", "serial"} : ConnectSerial(c, kind)
  BY <1>3 DEF TypeOK, ConnectSerial, PPPConnect, Ends, Move, Tell, TellAll, answerVars, nmVars
<1>4. CASE ProbingEnds(c) \/ ProbingBreaks(c)
  BY <1>4 DEF TypeOK, ProbingEnds, ProbingBreaks, PPPConnect, Breaks, Move, pluginVars, answerVars, nmVars
<1>5. CASE on_connected(c)
  BY <1>5 DEF TypeOK, on_connected, forget_connection, Breaks, Ends, Move, Tell, TellAll, answerVars, nmVars
<1>6. CASE on_error(c)
  BY <1>6 DEF TypeOK, on_error, Move, Tell, TellAll, pluginVars, answerVars, nmVars
<1>7. CASE ClosePort(c)
  BY <1>7 DEF TypeOK, ClosePort, forget_connection, Breaks, Move, answerVars, nmVars
<1>8. CASE Activate(c)
  BY <1>8 DEF TypeOK, Activate, Ends, Move, Tell, TellAll, pluginVars, answerVars
<1>9. CASE ConnectionAdded(c)
  BY <1>9 DEF TypeOK, ConnectionAdded, Ends, Move, Tell, TellAll, pluginVars, answerVars
<1>10. CASE Accepted(c)
  BY <1>10 DEF TypeOK, Accepted, appletVars, pluginVars, answerVars
<1>11. CASE Refused(c)
  BY <1>11 DEF TypeOK, Refused, Ends, Move, Tell, TellAll, pluginVars, answerVars
<1> QED
  BY <1>1, <1>2, <1>3, <1>4, <1>5, <1>6, <1>7, <1>8, <1>9, <1>10, <1>11
     DEF CallStep, PPPConnectFails, PPPConnectTimesOut

\* ... and so do the steps of the others.
LEMMA BooksStep ==
    ASSUME TypeOK, NEW c \in Calls, Books(c), [Next]_allVars
    PROVE  Books(c)'
<1> USE DEF Books, Activated
<1>1. ASSUME NEW d \in Calls, CallStep(d)
      PROVE  Books(c)'
  <2>1. CASE d = c
    BY <1>1, <2>1, CallBooks
  <2>2. CASE d # c
    BY <1>1, <2>2, CallStepMoves DEF TypeOK
  <2> QED
    BY <2>1, <2>2
<1>2. CASE UnloadPPPSupport
  BY <1>2 DEF TypeOK, UnloadPPPSupport, Cancel, answerVars, nmVars
<1>3. CASE UnloadBreaks
  <2>1. PICK d \in Closing : \E cs \in SUBSET (tracked \ {d}) :
                /\ Cancel(cs \union {d}) /\ tracked' = tracked \ (cs \ cancelled) /\ Breaks(d)
    BY <1>3 DEF UnloadBreaks
  <2>2. PICK cs \in SUBSET (tracked \ {d}) :
                /\ Cancel(cs \union {d}) /\ tracked' = tracked \ (cs \ cancelled) /\ Breaks(d)
    BY <2>1
  <2>3. UNCHANGED <<answerVars, nmVars>>
    BY <1>3 DEF UnloadBreaks
  <2> QED
    BY <2>2, <2>3 DEF TypeOK, Cancel, Breaks, Closing, answerVars, nmVars
<1>4. CASE \E new \in DeviceState : DeviceStateChanged(new)
  BY <1>4 DEF TypeOK, DeviceStateChanged, TellAll, pluginVars, answerVars
<1>5. CASE UNCHANGED <<stage, answerVars, tracked, cancelled, broken, nmVars>>
  BY <1>5 DEF answerVars, nmVars
<1>6. ASSUME \/ \E d \in Calls : DialStep(d) /\ UNCHANGED <<appletVars, portVars, nmVars>>
             \/ (MechanismTicks \/ MechanismExits) /\ UNCHANGED <<appletVars, portVars, nmVars>>
             \/ LoadPPPSupport
             \/ \E p \in Ports : DisconnectService(p) \/ HangUp(p)
             \/ on_device_disconnect
             \/ UNCHANGED allVars
      PROVE  UNCHANGED <<stage, answerVars, tracked, cancelled, broken, nmVars>>
  BY <1>6 DEF LoadPPPSupport, DisconnectService, HangUp, on_device_disconnect, appletVars, pluginVars, allVars
<1> QED
  BY <1>1, <1>2, <1>3, <1>4, <1>5, <1>6 DEF Next

\* Every reachable state satisfies the invariant.
THEOREM Invariant == Spec => []Inv
<1>1. Inv /\ [Next]_allVars => Inv'
  <2> SUFFICES ASSUME Inv, [Next]_allVars PROVE Inv'
    OBVIOUS
  <2>1. TypeOK' /\ ServedIsUp' /\ WaitsOnOpenFile'
    BY NextType, ServedStep, WaitsStep DEF Inv
  <2>2. ASSUME NEW c \in Calls
        PROVE  Books(c)'
    BY BooksOfEach, BooksStep DEF Inv
  <2>3. (\A c \in Calls : Books(c))' => (Bookkeeping /\ Quiet)'
    BY <2>1, BooksOfEach, PTL
  <2> QED
    BY <2>1, <2>2, <2>3 DEF Inv
<1> QED
  BY InitInv, <1>1, PTL DEF Spec

\* The variables of the applet, of the dial-up and of the mechanism's timer
\* keep their types (ConnectService, PPPConnection and Mechanism).
THEOREM TypeCorrect == Spec => []TypeOK
BY Invariant, PTL DEF Inv

\* The mechanism waits for a modem only with its file open and a timeout
\* pending (PPPConnection.wait_for_reply and what ends the wait).
THEOREM WaitsForAnOpenFile == Spec => []WaitsOnOpenFile
BY Invariant, PTL DEF Inv

\* PPPSupport tracks all connections that are not over, so on_unload cancels
\* them, and no others but those at which a handler broke off (PPPSupport.py).
THEOREM ConnectionsAreTracked == Spec => []TrackedAreLive
BY Invariant, PTL DEF Inv, Bookkeeping
-----------------------------------------------------------------------------
(* ConnectService as a method: what each step does to the calls.           *)

\* What was said is not changed, and is not said for a cancelled connection.
\* A call that has begun does not begin again, and stays cancelled.
Steps(c) == /\ told'[c] # told[c] => told[c] = "none" /\ c \notin cancelled
            /\ stage'[c] = "idle" => stage[c] = "idle"
            /\ c \in cancelled => c \in cancelled'
            /\ stage[c] = "idle" => c \notin cancelled'

LEMMA CallMoves ==
    ASSUME TypeOK, NEW c \in Calls, Books(c), CallStep(c)
    PROVE  Steps(c)
<1> USE DEF Steps, TypeOK, Books, Activated
<1>1. CASE ConnectBluez(c) \/ BluezAnswers(c) \/ ConnectFails(c) \/ WatcherFails(c)
  BY <1>1 DEF ConnectBluez, BluezAnswers, ConnectFails, WatcherFails, Ends, Move, Tell, TellAll, answerVars,
              pluginVars
<1>2. CASE WatchedFails(c) \/ ConnectInactive(c)
  BY <1>2 DEF WatchedFails, ConnectInactive, Ends, Move, Tell, TellAll, answerVars
<1>3. CASE \E kind \in {"dialup", "serial"} : ConnectSerial(c, kind)
  BY <1>3 DEF ConnectSerial, PPPConnect, Ends, Move, Tell, TellAll, answerVars
<1>4. CASE ProbingEnds(c) \/ ProbingBreaks(c) \/ ClosePort(c)
  BY <1>4 DEF ProbingEnds, ProbingBreaks, PPPConnect, ClosePort, Move, answerVars, pluginVars
<1>5. CASE on_connected(c) \/ on_error(c)
  BY <1>5 DEF on_connected, on_error, Ends, Move, Tell, TellAll, answerVars, pluginVars
<1>6. CASE Activate(c)
  BY <1>6 DEF Activate, Ends, Move, Tell, TellAll, answerVars, pluginVars
<1>7. CASE ConnectionAdded(c) \/ Accepted(c) \/ Refused(c)
  BY <1>7 DEF ConnectionAdded, Accepted, Refused, Ends, Move, Tell, TellAll, appletVars, answerVars, pluginVars
<1> QED
  BY <1>1, <1>2, <1>3, <1>4, <1>5, <1>6, <1>7 DEF CallStep, PPPConnectFails, PPPConnectTimesOut

LEMMA Moves ==
    ASSUME TypeOK, NEW c \in Calls, Books(c), [Next]_allVars
    PROVE  Steps(c)
<1>1. ASSUME NEW d \in Calls, CallStep(d)
      PROVE  Steps(c)
  <2>1. CASE d = c
    BY <1>1, <2>1, CallMoves
  <2>2. CASE d # c
    BY <1>1, <2>2, CallStepMoves DEF Steps, Books
  <2> QED
    BY <2>1, <2>2
<1>2. CASE UnloadPPPSupport
  BY <1>2 DEF UnloadPPPSupport, Cancel, Steps, TypeOK, Books, answerVars
<1>3. CASE UnloadBreaks
  <2>1. PICK d \in Closing : \E cs \in SUBSET (tracked \ {d}) : Cancel(cs \union {d})
    BY <1>3 DEF UnloadBreaks
  <2>2. PICK cs \in SUBSET (tracked \ {d}) : Cancel(cs \union {d})
    BY <2>1
  <2>3. UNCHANGED answerVars
    BY <1>3 DEF UnloadBreaks
  <2> QED
    BY <2>2, <2>3 DEF Steps, TypeOK, Books, Cancel, Closing, answerVars
<1>4. CASE \E new \in DeviceState : DeviceStateChanged(new)
  BY <1>4 DEF DeviceStateChanged, TellAll, Steps, TypeOK, Books, Activated, answerVars, pluginVars
<1>5. ASSUME \/ \E d \in Calls : DialStep(d) /\ UNCHANGED <<appletVars, portVars, nmVars>>
             \/ (MechanismTicks \/ MechanismExits) /\ UNCHANGED <<appletVars, portVars, nmVars>>
             \/ LoadPPPSupport
             \/ \E p \in Ports : DisconnectService(p) \/ HangUp(p)
             \/ on_device_disconnect
             \/ UNCHANGED allVars
      PROVE  UNCHANGED <<stage, told, cancelled>>
  BY <1>5 DEF LoadPPPSupport, DisconnectService, HangUp, on_device_disconnect, appletVars, pluginVars,
              answerVars, allVars
<1>6. CASE UNCHANGED <<stage, told, cancelled>>
  BY <1>6 DEF Steps, Books
<1> QED
  BY <1>1, <1>2, <1>3, <1>4, <1>5, <1>6 DEF Next

\* The call of ConnectService that DBusMethod sees begins once, is answered
\* once, and is over, without an answer, only when its connection was
\* cancelled.  Every answer of a handler counts (Replies), but for the calls
\* of which NetworkManager refused a step (NetworkManager.py:46, 82 and 202).
THEOREM ImplementsMethod == Spec => Method!Spec
<1>1. Init => Method!Init
  BY DEF Init, Method!Init, CallState, Replies
<1>2. ASSUME Inv, Inv', [Next]_allVars
      PROVE  Method!Next
  <2>1. ASSUME NEW c \in Calls
        PROVE  /\ Steps(c)
               /\ Replies[c] = IF told[c] = "none" THEN 0 ELSE 1
               /\ Replies'[c] = IF told'[c] = "none" THEN 0 ELSE 1
               /\ stage'[c] = "idle" => told'[c] = "none"
    <3>1. Books(c)
      BY <1>2, BooksOfEach DEF Inv
    <3>2. TypeOK' /\ Books(c)'
      BY <1>2, <3>1, BooksStep DEF Inv
    <3>3. Steps(c)
      BY <1>2, <3>1, Moves DEF Inv
    <3> QED
      BY <3>1, <3>2, <3>3 DEF Books, Replies
  <2>2. /\ CallState' \in [Calls -> {"unused", "open", "answered", "over"}]
        /\ Replies' \in [Calls -> {0, 1}]
    <3>1. Replies' = [c \in Calls |-> Replies'[c]]
      BY DEF Replies
    <3> QED
      BY <2>1, <3>1 DEF CallState
  <2>3. ASSUME NEW c \in Calls
        PROVE  \/ Method!Asked(c) \/ Method!Answered(c) \/ Method!AnsweredAtOnce(c)
               \/ Method!GivenUp(c) \/ Method!Stays(c)
    <3> HIDE DEF Replies
    <3> USE DEF CallState, Method!Asked, Method!Answered, Method!AnsweredAtOnce, Method!GivenUp,
                Method!Stays, Method!Becomes
    <3>1. CASE told[c] # "none"
      BY <2>1, <3>1 DEF Steps
    <3>2. CASE told[c] = "none" /\ c \in cancelled
      BY <2>1, <3>2 DEF Steps
    <3>3. CASE told[c] = "none" /\ c \notin cancelled /\ stage[c] = "idle"
      BY <2>1, <3>3 DEF Steps
    <3>4. CASE told[c] = "none" /\ c \notin cancelled /\ stage[c] # "idle"
      BY <2>1, <3>4 DEF Steps
    <3> QED
      BY <3>1, <3>2, <3>3, <3>4
  <2> QED
    BY <2>2, <2>3 DEF Method!Next
<1> QED
  BY <1>1, <1>2, Invariant, PTL DEF Spec, Method!Spec

\* Whatever becomes of its connection, a handler answers a call once at most
\* (NMConnectionBase and PPPSupport's Connection hold the ok and err that
\* DbusService._handle_method_call hands out), unless NetworkManager refused
\* a step of it; and what the caller was told, a handler said.
THEOREM OneAnswerEach ==
    Spec => [](\A c \in Calls : c \notin refused => replies[c] = IF told[c] = "none" THEN 0 ELSE 1)
<1>1. Inv => \A c \in Calls : c \notin refused => replies[c] = IF told[c] = "none" THEN 0 ELSE 1
  BY DEF Inv, Quiet, Counted
<1> QED
  BY <1>1, Invariant, PTL
=============================================================================
