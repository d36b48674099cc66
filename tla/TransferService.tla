-------------------------- MODULE TransferService --------------------------
(***************************************************************************)
(* Incoming files: the OBEX agent and the transfer plugin of the applet    *)
(* (plugins/applet/TransferService.py), the transfer tracker they listen   *)
(* to (bluez/obex/Manager.py) and the notification that asks the user      *)
(* (gui/Notification.py).                                                  *)
(*                                                                         *)
(* obexd is a process of its own: its calls and signals reach the applet   *)
(* in order through `queue', while the user, the 60 s timers and obexd     *)
(* itself go on.  An answer reaches obexd at once and counts only while    *)
(* it still waits for it.                                                  *)
(***************************************************************************)
EXTENDS Integers, Sequences, FiniteSets

CONSTANTS
    Transfers,    \* object paths of incoming transfers
    Devices,
    AutoTrusted,  \* Trusted devices, when opp-accept is set
    NoNote, Unshown,
    MaxQueue,     \* bound: messages from obexd on their way
    MaxCrashes    \* bound: crashes of obexd

ASSUME TransferAssumption ==
    /\ Devices # {} /\ AutoTrusted \subseteq Devices
    /\ NoNote # Unshown
    /\ {NoNote, Unshown} \cap Transfers = {}
    /\ MaxQueue \in Nat \ {0}
    /\ MaxCrashes \in Nat

VARIABLES
    obexd,    \* up: it runs; registered: it knows the agent;
              \* crashes: how often it died
    bubble,   \* the last notification of the agent is a bubble of the
              \* notification daemon (else a GTK dialog)
    object,   \* obexd's object of each transfer: its state, the device the
              \* file comes from and whether it is over 350000 bytes or of
              \* unknown size
    auth,     \* what became of the AuthorizePush call of each transfer
    announced,\* transfers whose InterfacesAdded signal was sent
    queue,    \* messages of obexd the applet has not handled
    tracker,  \* obex.Manager, a singleton: made; tracked: __transfers
    service,  \* the plugin: loaded, watching: _watch, connected: _manager,
              \* silent, normal: the two counters
    agent,    \* the Agent: exists, note: _notification, open: it is on the
              \* screen, transfers; allowed: how often each device is in
              \* _allowed_devices, timers: its 60 s timers
    answers,  \* history: replies to each AuthorizePush call
    reports,  \* history: the tracker's started and completed emissions of
              \* each transfer, and whether a counter of the plugin has it
    consent   \* history: devices a file of which the user has accepted

vars == <<bubble, obexd, object, auth, announced, queue, tracker, service, agent,
          answers, reports, consent>>

Unexported == [state |-> "unused", from |-> CHOOSE d \in Devices : TRUE,
               large |-> FALSE]

NoAgent == [exists |-> FALSE, note |-> NoNote, open |-> FALSE,
            transfers |-> {}, allowed |-> [d \in Devices |-> 0],
            timers |-> [d \in Devices |-> 0]]

NewAgent == [NoAgent EXCEPT !.exists = TRUE]

is_large_transfer(t) == object[t].large

-----------------------------------------------------------------------------
(* obexd *)

Send(m) == queue' = Append(queue, m)
Room == Len(queue) < MaxQueue

\* Without its name watch the plugin does not hear of the name: what is on its
\* way to a watch that is gone is dropped when it arrives.
Unwatched(q) ==
    [i \in DOMAIN q |-> IF q[i].kind \in {"appeared", "vanished"}
                       THEN [kind |-> "unheard"] ELSE q[i]]

AppletUnchanged ==
    UNCHANGED <<tracker, service, agent, answers, reports, consent>>

\* A device starts a push: the transfer object exists, and can be read,
\* before or after its InterfacesAdded signal is sent.
ExportTransfer(t, d, large) ==
    /\ obexd.up /\ object[t].state = "unused"
    /\ object' = [object EXCEPT ![t] = [state |-> "live", from |-> d,
                                      large |-> large]]
    /\ AppletUnchanged /\ UNCHANGED <<bubble, obexd, auth, announced, queue>>

Announce(t) ==
    /\ obexd.up /\ Room /\ object[t].state = "live" /\ t \notin announced
    /\ announced' = announced \cup {t}
    /\ Send([kind |-> "added", t |-> t])
    /\ AppletUnchanged /\ UNCHANGED <<bubble, obexd, object, auth>>

\* One authorization is open at a time.
Ask(t) ==
    /\ obexd.up /\ obexd.registered /\ Room
    /\ object[t].state = "live" /\ auth[t] = "none"
    /\ \A u \in Transfers : auth[u] # "pending"
    /\ auth' = [auth EXCEPT ![t] = "pending"]
    /\ Send([kind |-> "authorize", t |-> t])
    /\ AppletUnchanged /\ UNCHANGED <<bubble, obexd, object, announced>>

\* The sender goes away while the user is asked.
GiveUp(t) ==
    /\ obexd.up /\ Room /\ auth[t] = "pending"
    /\ auth' = [auth EXCEPT ![t] = "over"]
    /\ Send([kind |-> "cancel", t |-> t])
    /\ AppletUnchanged /\ UNCHANGED <<bubble, obexd, object, announced>>

\* Status becomes "complete" or "error".
EndTransfer(t, success) ==
    /\ obexd.up /\ Room
    /\ object[t].state = "live" /\ auth[t] = "accepted" /\ t \in announced
    /\ object' = [object EXCEPT ![t].state = "ended"]
    /\ Send([kind |-> "status", t |-> t, success |-> success])
    /\ AppletUnchanged /\ UNCHANGED <<bubble, obexd, auth, announced>>

\* The object goes away: after its end, a refusal or a break of the link.
RemoveTransfer(t) ==
    /\ obexd.up /\ Room
    /\ object[t].state \in {"live", "ended"}
    /\ auth[t] # "pending" /\ t \in announced
    /\ object' = [object EXCEPT ![t].state = "gone"]
    /\ Send([kind |-> "removed", t |-> t])
    /\ AppletUnchanged /\ UNCHANGED <<bubble, obexd, auth, announced>>

\* The session of a device ends after its transfers.
EndSession(d) ==
    LET of == {t \in Transfers : object[t].state # "unused"
                                /\ object[t].from = d} IN
    /\ obexd.up /\ Room
    /\ \E t \in of : object[t].state = "gone"
    /\ \A t \in of : object[t].state \in {"gone", "past"}
    /\ object' = [t \in Transfers |->
                     IF object[t].state = "gone" /\ t \in of
                     THEN [object[t] EXCEPT !.state = "past"]
                     ELSE object[t]]
    /\ Send([kind |-> "session"])
    /\ AppletUnchanged /\ UNCHANGED <<bubble, obexd, auth, announced>>

\* obexd dies: the object manager sees its objects go and the name watch
\* its name, in either order.
Crash ==
    /\ obexd.up /\ obexd.crashes < MaxCrashes /\ Len(queue) + 2 <= MaxQueue
    /\ obexd' = [up |-> FALSE, registered |-> FALSE,
                 crashes |-> obexd.crashes + 1]
    /\ object' = [t \in Transfers |->
                     IF object[t].state = "unused" THEN object[t]
                     ELSE [object[t] EXCEPT !.state = "past"]]
    /\ auth' = [t \in Transfers |-> IF auth[t] = "pending" THEN "over"
                                    ELSE auth[t]]
    /\ IF service.watching
       THEN \E m \in {<<"lost", "vanished">>, <<"vanished", "lost">>} :
                queue' = queue \o <<[kind |-> m[1]], [kind |-> m[2]]>>
       ELSE Send([kind |-> "lost"])
    /\ AppletUnchanged /\ UNCHANGED <<bubble, announced>>

Restart ==
    /\ ~obexd.up /\ Room
    /\ obexd' = [obexd EXCEPT !.up = TRUE]
    /\ IF service.watching THEN Send([kind |-> "appeared"])
       ELSE UNCHANGED queue
    /\ AppletUnchanged /\ UNCHANGED <<bubble, object, auth, announced>>

Receive(kind) ==
    /\ queue # <<>> /\ Head(queue).kind = kind
    /\ queue' = Tail(queue)

Unheard ==
    /\ Receive("unheard")
    /\ AppletUnchanged /\ UNCHANGED <<bubble, obexd, object, auth, announced>>

-----------------------------------------------------------------------------
(* obex.Manager: what it tells the plugin, if the plugin is connected *)

Authorized(t) == agent.exists /\ t \in agent.transfers

Counted(s, t, by) ==
    IF is_large_transfer(t) THEN [s EXCEPT !.normal = @ + by]
    ELSE [s EXCEPT !.silent = @ + by]

OnObjectAdded ==
    LET t == Head(queue).t IN
    /\ Receive("added")
    /\ IF ~tracker.made THEN UNCHANGED <<tracker, service, reports>>
       ELSE /\ tracker' = [tracker EXCEPT !.tracked = @ \cup {t}]
            /\ LET counts == service.connected /\ Authorized(t) IN
               /\ service' = IF counts THEN Counted(service, t, 1)
                             ELSE service
               /\ reports' = [reports EXCEPT ![t].started = @ + 1,
                                             ![t].counted = counts]
    /\ UNCHANGED <<bubble, obexd, object, auth, announced, agent, answers, consent>>

\* A transfer that failed, or whose file could not be moved, is taken off
\* its counter.
Completed(s, t, received) == IF received THEN s ELSE Counted(s, t, -1)

\* Mutant: the entry is kept.
AgentWith(t) == agent

AgentWithout(t) == [agent EXCEPT !.transfers = @ \ {t}]

\* The emission of transfer-completed for t.
EmitCompleted(t, success) ==
    /\ IF service.connected /\ Authorized(t)
       THEN /\ \E moved \in BOOLEAN :
                /\ service' = Completed(service, t, success /\ moved)
                /\ reports' = [reports EXCEPT
                       ![t].completed = @ + 1,
                       ![t].counted = @ /\ success /\ moved]
            /\ agent' = AgentWithout(t)
       ELSE /\ reports' = [reports EXCEPT ![t].completed = @ + 1]
            /\ UNCHANGED <<service, agent>>

\* Mutant: the transfer stays in __transfers when its status is reported.
ForgetsNothing(t) == tracker

Popped(t) == [tracker EXCEPT !.tracked = @ \ {t}]

OnTransferStatus ==
    LET t == Head(queue).t IN
    /\ Receive("status")
    /\ IF t \in tracker.tracked
       THEN /\ tracker' = Popped(t)
            /\ EmitCompleted(t, Head(queue).success)
       ELSE UNCHANGED <<tracker, service, agent, reports>>
    /\ UNCHANGED <<bubble, obexd, object, auth, announced, answers, consent>>

OnObjectRemoved ==
    LET t == Head(queue).t IN
    /\ Receive("removed")
    /\ IF t \in tracker.tracked
       THEN /\ tracker' = Popped(t)
            /\ EmitCompleted(t, FALSE)
       ELSE UNCHANGED <<tracker, service, agent, reports>>
    /\ UNCHANGED <<bubble, obexd, object, auth, announced, answers, consent>>

\* "Received n files in the background", and the counters start again.
SessionRemoved(s) ==
    IF s.connected /\ s.silent # 0
    THEN [s EXCEPT !.silent = 0, !.normal = 0] ELSE s

\* The counters when the transfers of ts have failed.
Failed(s, ts) ==
    LET large == {t \in ts : is_large_transfer(t)} IN
    [s EXCEPT !.normal = @ - Cardinality(large),
              !.silent = @ - Cardinality(ts \ large)]

\* The object manager saw obexd go: all its objects, transfers and sessions,
\* are removed in turn, in any order.  The counters depend on the transfers
\* that go before the first session and on those before the last that finds
\* something to report.
OnObjectsLost ==
    LET mine == IF service.connected
                THEN {t \in tracker.tracked : Authorized(t)} ELSE {}
    IN
    /\ Receive("lost")
    /\ tracker' = [tracker EXCEPT !.tracked = {}]
    /\ agent' = [agent EXCEPT !.transfers = @ \ mine]
    /\ \E sessions \in SUBSET Devices, before \in SUBSET mine :
       \E between \in SUBSET (mine \ before) :
        LET first == Failed(service, before)
            last == Failed(SessionRemoved(first), between)
            reset == /\ sessions # {} /\ service.connected
                     /\ first.silent # 0 \/ last.silent # 0
        IN
        /\ {object[t].from : t \in tracker.tracked} \subseteq sessions
        /\ Cardinality(sessions) = 1 => between = {}
        /\ service' = IF sessions = {} THEN Failed(service, mine)
                      ELSE Failed(SessionRemoved(last),
                                  (mine \ before) \ between)
        /\ reports' = [t \in Transfers |->
               [reports[t] EXCEPT
                   !.completed = @ + (IF t \in tracker.tracked THEN 1 ELSE 0),
                   !.counted = @ /\ t \notin mine /\ ~reset]]
    /\ UNCHANGED <<bubble, obexd, object, auth, announced, answers, consent>>

OnSessionRemoved ==
    /\ Receive("session")
    /\ IF tracker.made /\ SessionRemoved(service) # service
       THEN /\ service' = SessionRemoved(service)
            /\ reports' = [t \in Transfers |->
                              [reports[t] EXCEPT !.counted = FALSE]]
       ELSE UNCHANGED <<service, reports>>
    /\ UNCHANGED <<bubble, obexd, object, auth, announced, tracker, agent, answers, consent>>

-----------------------------------------------------------------------------
(* Agent *)

\* A reply to the AuthorizePush call of t.
Reply(t, how) ==
    /\ answers' = [answers EXCEPT ![t] = @ + 1]
    /\ auth' = IF auth[t] = "pending" THEN [auth EXCEPT ![t] = how] ELSE auth

\* _close_notification: CloseNotification takes the id the daemon gave; a
\* bubble that was never shown has none, and the call raises before the
\* reference to the notification is dropped.
CloseRaises == agent.note = Unshown

ClosedNote(a) == [a EXCEPT !.note = NoNote, !.open = FALSE]

\* Mutant: on_action leaves the notification where it is.
AcceptedLeftOpen(a, t) ==
    [a EXCEPT !.transfers = @ \cup {t}, !.allowed[object[t].from] = @ + 1,
              !.timers[object[t].from] = @ + 1]

\* on_action("accept")
Accepted(a, t) ==
    [ClosedNote(a) EXCEPT !.transfers = @ \cup {t},
                          !.allowed[object[t].from] = @ + 1,
                          !.timers[object[t].from] = @ + 1]

\* Mutant: one allowed device is enough for all.
AnyMayPush(d) == \E e \in Devices : agent.allowed[e] > 0 \/ e \in AutoTrusted

MayPush(d) == agent.allowed[d] > 0 \/ d \in AutoTrusted

\* Mutant: a transfer can be inspected once it has been announced.
ReadableOnceTracked(t) == t \in tracker.tracked

\* Transfer and Session can be read.
Readable(t) == object[t].state \in {"live", "ended"}

WithUnshownNote(a) == [a EXCEPT !.note = Unshown, !.open = FALSE]

\* The user is asked, with the class of notification that Notification()
\* chooses now; the daemon may refuse to show a bubble.
AskUser(t) ==
    \/ /\ agent' = [agent EXCEPT !.note = t, !.open = TRUE]
       /\ bubble' \in BOOLEAN
       /\ UNCHANGED <<auth, answers>>
    \/ /\ agent' = WithUnshownNote(agent) /\ bubble' = TRUE
       /\ Reply(t, "refused")

\* A large transfer has a note too, which on_action closes before it is
\* shown: that of a bubble raises.
AutoAccept(t) ==
    \/ /\ is_large_transfer(t)
       /\ agent' = WithUnshownNote(agent) /\ bubble' = TRUE
       /\ Reply(t, "refused")
    \/ /\ agent' = Accepted(agent, t)
       /\ bubble' = (bubble /\ ~is_large_transfer(t))
       /\ Reply(t, "accepted")

OnAuthorizePush ==
    LET t == Head(queue).t IN
    /\ Receive("authorize")
    /\ UNCHANGED <<obexd, object, announced, tracker, service, reports, consent>>
    /\ \/ /\ ~agent.exists \/ ~Readable(t) \/ CloseRaises
          /\ Reply(t, "refused") /\ UNCHANGED <<agent, bubble>>
       \/ /\ agent.exists /\ Readable(t) /\ ~CloseRaises
          /\ \/ ~MayPush(object[t].from) /\ AskUser(t)
             \/ MayPush(object[t].from) /\ AutoAccept(t)

UserAccepts ==
    LET t == agent.note IN
    /\ agent.open
    /\ agent' = Accepted(agent, t) /\ Reply(t, "accepted")
    /\ consent' = consent \cup {object[t].from}
    /\ UNCHANGED <<bubble, obexd, object, announced, queue, tracker, service, reports>>

\* "reject", and "close" when the window of the dialog is closed.
UserRejects ==
    LET t == agent.note IN
    /\ agent.open
    /\ agent' = ClosedNote(agent) /\ Reply(t, "refused")
    /\ UNCHANGED <<bubble, obexd, object, announced, queue, tracker, service, reports,
                   consent>>

\* NotificationClosed: a bubble expires or is dismissed; nobody is told.
NotificationClosed ==
    /\ bubble /\ agent.open
    /\ agent' = [agent EXCEPT !.open = FALSE]
    /\ UNCHANGED <<bubble, obexd, object, auth, announced, queue, tracker, service,
                   answers, reports, consent>>

\* 60 s after an acceptance: _remove.
AllowanceEnds(d) ==
    /\ agent.timers[d] > 0
    /\ agent' = [agent EXCEPT !.timers[d] = @ - 1, !.allowed[d] = @ - 1]
    /\ UNCHANGED <<bubble, obexd, object, auth, announced, queue, tracker, service,
                   answers, reports, consent>>

OnCancel ==
    /\ Receive("cancel")
    /\ agent' = IF agent.exists /\ ~CloseRaises THEN ClosedNote(agent)
                ELSE agent
    /\ UNCHANGED <<bubble, obexd, object, auth, announced, tracker, service, answers,
                   reports, consent>>

-----------------------------------------------------------------------------
(* TransferService *)

\* destroy: what is left when closing the notification raises.
HalfDestroyed == [agent EXCEPT !.allowed = [d \in Devices |-> 0],
                               !.timers = [d \in Devices |-> 0]]

Uncounted == [t \in Transfers |-> [reports[t] EXCEPT !.counted = FALSE]]

\* Manager() is a singleton that can fail to be made the first time only.
OnNameAppeared ==
    /\ Receive("appeared")
    /\ \/ /\ ~tracker.made
          /\ service' = [service EXCEPT !.connected = FALSE]
          /\ UNCHANGED <<tracker, agent, obexd>>
       \/ /\ tracker' = [tracker EXCEPT !.made = TRUE]
          /\ service' = [service EXCEPT !.connected = TRUE]
          /\ agent' = IF agent.exists THEN agent ELSE NewAgent
          /\ obexd' = [obexd EXCEPT !.registered = obexd.up]
    /\ UNCHANGED <<bubble, object, auth, announced, answers, reports, consent>>

OnNameVanished ==
    /\ Receive("vanished")
    /\ IF agent.exists /\ CloseRaises
       THEN /\ service' = [service EXCEPT !.connected = FALSE]
            /\ agent' = HalfDestroyed
            /\ UNCHANGED reports
       ELSE /\ service' = [service EXCEPT !.connected = FALSE,
                                          !.silent = 0, !.normal = 0]
            /\ agent' = NoAgent
            /\ reports' = Uncounted
    /\ UNCHANGED <<bubble, obexd, object, auth, announced, tracker, answers, consent>>

\* The name watch of the plugin reports the present state first.
Load ==
    /\ ~service.loaded /\ Room
    /\ service' = [loaded |-> TRUE, watching |-> TRUE, connected |-> FALSE,
                   silent |-> 0, normal |-> 0]
    /\ Send([kind |-> IF obexd.up THEN "appeared" ELSE "vanished"])
    /\ UNCHANGED <<bubble, obexd, object, auth, announced, tracker, agent, answers,
                   reports, consent>>

\* An exception of on_unload leaves the plugin in the list of loaded ones.
Unload ==
    /\ service.loaded
    /\ queue' = Unwatched(queue)
    /\ IF agent.exists /\ CloseRaises
       THEN /\ service' = [service EXCEPT !.watching = FALSE,
                                          !.connected = FALSE]
            /\ agent' = HalfDestroyed
            /\ UNCHANGED <<obexd, auth, reports>>
       ELSE /\ service' = [loaded |-> FALSE, watching |-> FALSE,
                           connected |-> FALSE, silent |-> 0, normal |-> 0]
            /\ agent' = NoAgent
            /\ obexd' = IF agent.exists
                        THEN [obexd EXCEPT !.registered = FALSE] ELSE obexd
            /\ auth' = IF agent.exists
                       THEN [t \in Transfers |-> IF auth[t] = "pending"
                                                 THEN "over" ELSE auth[t]]
                       ELSE auth
            /\ reports' = Uncounted
    /\ UNCHANGED <<bubble, object, announced, tracker, answers, consent>>

Init ==
    /\ obexd \in [up : BOOLEAN, registered : {FALSE}, crashes : {0}]
    /\ bubble = FALSE
    /\ object = [t \in Transfers |-> Unexported]
    /\ auth = [t \in Transfers |-> "none"]
    /\ announced = {}
    /\ queue = <<>>
    /\ tracker = [made |-> FALSE, tracked |-> {}]
    /\ service = [loaded |-> FALSE, watching |-> FALSE, connected |-> FALSE,
                  silent |-> 0, normal |-> 0]
    /\ agent = NoAgent
    /\ answers = [t \in Transfers |-> 0]
    /\ reports = [t \in Transfers |-> [started |-> 0, completed |-> 0,
                                       counted |-> FALSE]]
    /\ consent = {}

Next ==
    \/ \E t \in Transfers :
           \/ Announce(t) \/ Ask(t) \/ GiveUp(t)
           \/ RemoveTransfer(t)
           \/ \E d \in Devices, large \in BOOLEAN : ExportTransfer(t, d, large)
           \/ \E success \in BOOLEAN : EndTransfer(t, success)
    \/ \E d \in Devices : EndSession(d) \/ AllowanceEnds(d)
    \/ Crash \/ Restart \/ Unheard
    \/ OnObjectAdded \/ OnTransferStatus \/ OnObjectRemoved \/ OnObjectsLost
    \/ OnSessionRemoved
    \/ OnAuthorizePush \/ OnCancel
    \/ UserAccepts \/ UserRejects \/ NotificationClosed
    \/ OnNameAppeared \/ OnNameVanished \/ Load \/ Unload

Spec == Init /\ [][Next]_vars

-----------------------------------------------------------------------------
Messages ==
    [kind : {"added", "authorize", "cancel", "removed"}, t : Transfers]
    \cup [kind : {"status"}, t : Transfers, success : BOOLEAN]
    \cup [kind : {"session", "lost", "vanished", "appeared", "unheard"}]

\* The types; a note on the screen is always that of a push.
TypeOK ==
    /\ obexd \in [up : BOOLEAN, registered : BOOLEAN, crashes : 0..MaxCrashes]
    /\ bubble \in BOOLEAN
    /\ object \in [Transfers ->
                     [state : {"unused", "live", "ended", "gone", "past"},
                      from : Devices, large : BOOLEAN]]
    /\ auth \in [Transfers -> {"none", "pending", "accepted", "refused",
                               "over"}]
    /\ announced \subseteq Transfers
    /\ queue \in Seq(Messages) /\ Len(queue) <= MaxQueue
    /\ tracker \in [made : BOOLEAN, tracked : SUBSET Transfers]
    /\ service \in [loaded : BOOLEAN, watching : BOOLEAN,
                    connected : BOOLEAN, silent : Int, normal : Int]
    /\ agent \in [exists : BOOLEAN, note : Transfers \cup {NoNote, Unshown},
                  open : BOOLEAN, transfers : SUBSET Transfers,
                  allowed : [Devices -> Nat], timers : [Devices -> Nat]]
    /\ agent.open => agent.note \in Transfers
    /\ answers \in [Transfers -> Nat]
    /\ reports \in [Transfers -> [started : Nat, completed : Nat,
                                  counted : BOOLEAN]]
    /\ consent \subseteq Devices

\* The AuthorizePush calls as obexd sees them.
Method == INSTANCE DBusMethod WITH
    Calls <- Transfers,
    state <- [t \in Transfers |->
                 CASE auth[t] = "none" -> "unused"
                   [] auth[t] = "pending" -> "open"
                   [] auth[t] \in {"accepted", "refused"} -> "answered"
                   [] auth[t] = "over" -> "over"],
    replies <- answers

\* An AuthorizePush call is answered at most once, whatever the order of
\* clicks, expired notifications, cancellations and unloading.
AnsweredOnce == Method!Spec

Queued(kind) == \E i \in 1..Len(queue) : queue[i].kind = kind

\* While obexd waits for an answer to a call the agent has handled, the
\* agent holds the notification that asks for it; a dialog is on the screen.
PendingIsAsked ==
    \A t \in Transfers :
        auth[t] = "pending" /\ ~Queued("authorize") =>
            agent.note = t /\ (bubble \/ agent.open)

\* Every transfer is reported as started once and then as completed once:
\* by its status, by its removal or by the end of obexd.
ReportedOnce ==
    \A t \in Transfers :
        /\ reports[t].started <= 1
        /\ reports[t].started = reports[t].completed
                               + (IF t \in tracker.tracked THEN 1 ELSE 0)

\* A transfer the agent authorized has not been reported as completed: its
\* file was moved and its entry dropped when it was, so none is forgotten
\* and none is moved twice.  (A click between the two signals of a dying
\* obexd leaves one until the agent is destroyed, and an agent that cannot
\* close its notification cannot be destroyed.)
AuthorizedIsOpen ==
    \A t \in agent.transfers :
        \/ reports[t].completed = 0
        \/ Queued("vanished")
        \/ agent.note = Unshown

\* What obexd waits for is what the agent asks, and what the agent authorized
\* is what is still to be completed, through clicks, crashes and reloads.
PushesAreTracked == TypeOK /\ PendingIsAsked /\ AuthorizedIsOpen

\* No file is accepted from a device that is neither trusted nor one the
\* user has accepted a file from.
AcceptedWithConsent ==
    \A t \in Transfers :
        auth[t] = "accepted" => object[t].from \in AutoTrusted \cup consent

\* The counters never exceed the transfers counted since they were reset
\* that have not failed: "Received n files" is never too large.
NeverOverReported ==
    LET counted == {t \in Transfers : reports[t].counted}
        large == {t \in counted : object[t].large}
    IN
    /\ service.silent <= Cardinality(counted \ large)
    /\ service.normal <= Cardinality(large)

\* What is shown to the user is right: no transfer is missed or reported twice,
\* and no count is too large.
Reported == ReportedOnce /\ NeverOverReported

Refused(t) == auth[t] = "pending" /\ auth'[t] = "refused"

\* A push that reaches an agent, can be read and is refused without the user
\* having been asked, though its device may push or though it may not.
RefusedUnasked(t, allowed) ==
    /\ Refused(t)
    /\ agent.exists /\ object[t].state = "live" /\ agent.note # t
    /\ MayPush(object[t].from) = allowed

\* Nothing but a bubble that was not shown stands between a push that can be
\* read and the user's answer or the acceptance its device has: a device that
\* may push is accepted from and any other one is to be asked for (line 156),
\* however the push meets earlier ones, expired bubbles, timers and reloads.
AllAreHeard ==
    [][\A t \in Transfers, allowed \in BOOLEAN :
           RefusedUnasked(t, allowed) => agent'.note = Unshown]_vars
=============================================================================
