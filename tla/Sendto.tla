------------------------------- MODULE Sendto -------------------------------
(***************************************************************************)
(* Sending files (blueman-sendto): the Sender of main/Sendto.py, which     *)
(* waits for the device, asks obexd for a session, pushes its files one by *)
(* one and asks the user when a push fails.                                *)
(*                                                                         *)
(* Calls to obexd, and its signals and replies, keep their order.  obexd   *)
(* may die, its object manager may show the sessions of other programs, or *)
(* it may be slower than the 10 s a call waits for it, so that what is     *)
(* called failed is done all the same: SenderInit chooses.  After a        *)
(* restart obexd counts its paths from the beginning, and blueman keeps    *)
(* one object for each path for as long as it runs.                        *)
(***************************************************************************)
EXTENDS Integers, Sequences, FiniteSets, SequencesExt

CONSTANTS
    Files,         \* the files to send, a sequence
    Other,         \* the session of another program, with another device
    NoSession,
    Fallbacks,     \* how many ways to connect _ensure_session_fallbacks finds
    MaxSessions,   \* bound: sessions of one obexd
    MaxTransfers,  \* bound: transfers of one obexd
    MaxNoise,      \* bound: deaths of obexd, sessions of others, or calls
                   \* that are answered too late
    MaxQueue,      \* bound: what obexd has sent before it is read
    MaxCalls       \* bound: calls it has not read when something happens

ASSUME SendtoAssumption ==
    /\ Files \in Seq(Range(Files)) /\ Files # <<>>
    /\ Fallbacks \subseteq Nat \ {0, 1}
    /\ MaxSessions \in Nat /\ MaxTransfers \in Nat
    /\ Other \notin 1..MaxSessions
    /\ NoSession \notin 1..MaxSessions \cup {Other}

VARIABLES
    world,    \* what may happen: obexd dies, other sessions show up, or
              \* obexd is slow
    obexd,    \* its sessions, the next numbers, active transfers; how many
              \* CreateSession calls that have timed out it works on; how
              \* often it has died, another session or a late one has come,
              \* or a file is sent whose call has timed out
    queue,    \* from obexd to the sender
    calls,    \* from the sender to obexd
    device,   \* ready: connected with services resolved; connecting: the
              \* call of Connect has no answer yet
    sender,   \* the Sender
    wired,    \* transfers whose handlers are connected, and how many times
    sent,     \* history: what a device has received
    skipped   \* history: files the user gave up

senderVars == <<world, obexd, queue, calls, device, sender, wired, sent, skipped>>

Sessions == 1..MaxSessions
Paths == (Sessions \cup {Other}) \X (1..MaxTransfers)
Running == sender.result = "none"

-----------------------------------------------------------------------------
(* Parts of the Sender: from its state to its next state and what it calls *)

Step(s, cs) == [s |-> s, calls |-> cs]
Then(step, Op(_)) ==
    LET next == Op(step.s) IN Step(next.s, step.calls \o next.calls)

Emit(s, result) ==
    Step([s EXCEPT !.result = IF @ = "none" THEN result ELSE @], <<>>)

CreateSession(s) == Step(s, <<[op |-> "create"]>>)

NextFile(files) == files[Len(files)]

SendFile(s) ==
    Step(s, IF s.push = NoSession THEN <<>>
            ELSE <<[op |-> "send", session |-> s.push,
                    file |-> NextFile(s.files)]>>)

ProcessQueue(s) == IF s.files # <<>> THEN SendFile(s) ELSE Emit(s, "sent")

RemoveSession(s) ==
    IF s.push = NoSession THEN <<>>
    ELSE <<[op |-> "remove", session |-> s.push]>>

\* Mutant: the bytes of the transfer that was lost stay counted.
KeepTotal(s) == [s EXCEPT !.transferred = 0, !.last = 0]

\* _reset_transfer_state
ResetTransferState(s) ==
    [s EXCEPT !.total = IF @ < s.transferred THEN 0 ELSE @ - s.transferred,
              !.transferred = 0, !.last = 0]

OnCancel(s) ==
    Step([s EXCEPT !.retry = FALSE, !.awaiting = FALSE, !.result = "failed"],
         RemoveSession(s))

\* on_session_added: whoever's session it is.
OnSessionAdded(s, session) ==
    ProcessQueue([s EXCEPT !.retry = FALSE, !.push = session])

\* Mutant: no new session is asked for.
LostForGood(s) == Step(s, <<>>)
Reconnect(s) == CreateSession(s)

OnSessionRemoved(s, session) ==
    LET reset == ResetTransferState([s EXCEPT !.push = NoSession]) IN
    IF s.push # session THEN Step(s, <<>>)
    ELSE IF s.dialog # "none" \/ s.files = <<>> THEN Step(reset, <<>>)
    ELSE Reconnect(reset)

\* Mutant: one attempt too many.
NotTheLast(s, attempts) == s.attempt < attempts
MoreAttempts(s, attempts) == s.attempt + 1 < attempts

\* on_session_failed, with n variants if they are not known yet.
OnSessionFailed(s, n) ==
    LET attempts == IF s.attempts > 1 THEN s.attempts ELSE n IN
    Step(IF MoreAttempts(s, attempts)
         THEN [s EXCEPT !.attempts = attempts, !.attempt = @ + 1,
                        !.retry = TRUE]
         ELSE [s EXCEPT !.attempts = attempts, !.fatal = TRUE],
         <<>>)

OnTransferStarted(s) == [s EXCEPT !.last = 0, !.transferred = 0]

OnTransferProgress(s) ==
    [s EXCEPT !.total = @ + 1 - s.last, !.transferred = 1, !.last = 1]

\* on_transfer_completed; deleting from an empty list raises.
OnTransferCompleted(s) ==
    IF s.files = <<>> THEN Step(s, <<>>)
    ELSE ProcessQueue([s EXCEPT !.files = Front(@), !.transferred = 0,
                                !.last = 0])

\* on_transfer_error asks, unless it is asking already.
OnTransferError(s) ==
    IF s.dialog # "none" THEN Step(s, <<>>)
    ELSE Step([s EXCEPT !.dialog = IF Len(s.files) > 1 THEN "skip"
                                   ELSE "noskip"],
              RemoveSession(s))

-----------------------------------------------------------------------------
(* obexd *)

Room == Len(queue) < MaxQueue
Idle == Room /\ Len(calls) < MaxCalls
Tell(ms) == queue' = queue \o ms

Transfers(session) == {a \in obexd.active : a.path[1] = session}

\* What a session that ends says: its transfers fail.
Ended(session) ==
    LET order == SetToSeq({a.path : a \in Transfers(session)}) IN
    [n \in 1..Len(order) |-> [kind |-> "error", path |-> order[n]]]
    \o <<[kind |-> "removed", session |-> session]>>

DropSession(session) ==
    /\ obexd' = [obexd EXCEPT !.sessions = @ \ {session},
                              !.active = @ \ Transfers(session)]
    /\ Tell(Ended(session))

\* The 10 s after which a call has failed for its caller may be over first.
Slow == world = "slow" /\ obexd.late + obexd.noise < MaxNoise

HandleCreate ==
    \/ /\ obexd.nextSession <= MaxSessions
       /\ obexd' = [obexd EXCEPT !.sessions = @ \cup {obexd.nextSession},
                                 !.nextSession = @ + 1]
       /\ Tell(<<[kind |-> "added", session |-> obexd.nextSession]>>)
    \/ /\ Tell(<<[kind |-> "failed"]>>)
       /\ \/ UNCHANGED obexd
          \/ Slow /\ obexd' = [obexd EXCEPT !.late = @ + 1]

\* Only the owner of a session may remove it.
HandleRemove(session) ==
    IF session \in obexd.sessions \cap Sessions
    THEN DropSession(session) ELSE UNCHANGED <<obexd, queue>>

NextPath(session) == <<session, obexd.nextTransfer>>

BeginTransfer(session, file, noise) ==
    /\ session \in obexd.sessions
    /\ obexd.nextTransfer <= MaxTransfers
    /\ obexd' = [obexd EXCEPT
           !.nextTransfer = @ + 1, !.noise = noise,
           !.active = @ \cup {[path |-> NextPath(session), file |-> file,
                               moved |-> FALSE]}]

HandleSend(session, file) ==
    \/ /\ BeginTransfer(session, file, obexd.noise)
       /\ Tell(<<[kind |-> "started", session |-> session,
                  path |-> NextPath(session)]>>)
    \/ /\ Tell(<<[kind |-> "sendfailed", session |-> session]>>)
       /\ \/ UNCHANGED obexd
          \/ Slow /\ BeginTransfer(session, file, obexd.noise + 1)

ObexdHandles ==
    /\ Running /\ Room /\ calls # <<>>
    /\ calls' = Tail(calls)
    /\ LET call == Head(calls) IN
       \/ call.op = "create" /\ HandleCreate
       \/ call.op = "remove" /\ HandleRemove(call.session)
       \/ call.op = "send" /\ HandleSend(call.session, call.file)
    /\ UNCHANGED <<world, device, sender, wired, sent, skipped>>

TransferMoves(a) ==
    /\ Running /\ Room /\ ~a.moved
    /\ obexd' = [obexd EXCEPT !.active =
                    (@ \ {a}) \cup {[a EXCEPT !.moved = TRUE]}]
    /\ Tell(<<[kind |-> "progress", path |-> a.path]>>)
    /\ UNCHANGED <<world, calls, device, sender, wired, sent, skipped>>

TransferEnds(a) ==
    /\ Running /\ Room
    /\ obexd' = [obexd EXCEPT !.active = @ \ {a}]
    /\ \/ /\ Tell(<<[kind |-> "done", path |-> a.path]>>)
          /\ sent' = sent \cup {[file |-> a.file, to |-> a.path[1]]}
       \/ Tell(<<[kind |-> "error", path |-> a.path]>>) /\ UNCHANGED sent
    /\ UNCHANGED <<world, calls, device, sender, wired, skipped>>

LinkLost(session) ==
    /\ Running /\ Idle
    /\ DropSession(session)
    /\ UNCHANGED <<world, calls, device, sender, wired, sent, skipped>>

OtherSession ==
    /\ Running /\ Idle /\ world = "shared"
    /\ IF Other \in obexd.sessions THEN DropSession(Other)
       ELSE /\ obexd.noise < MaxNoise
            /\ obexd' = [obexd EXCEPT !.sessions = @ \cup {Other},
                                      !.noise = @ + 1]
            /\ Tell(<<[kind |-> "added", session |-> Other]>>)
    /\ UNCHANGED <<world, calls, device, sender, wired, sent, skipped>>

\* The session of a call that has failed for the Sender.
LateSession ==
    /\ Running /\ Room /\ obexd.late > 0
    /\ obexd.nextSession <= MaxSessions
    /\ obexd' = [obexd EXCEPT !.sessions = @ \cup {obexd.nextSession},
                              !.nextSession = @ + 1,
                              !.late = @ - 1, !.noise = @ + 1]
    /\ Tell(<<[kind |-> "added", session |-> obexd.nextSession]>>)
    /\ UNCHANGED <<world, calls, device, sender, wired, sent, skipped>>

FreshObexd == [sessions |-> {}, nextSession |-> 1, nextTransfer |-> 1,
               active |-> {}, late |-> 0, noise |-> 0]

\* obexd dies: its objects vanish.  The next call starts it.
ObexdDies ==
    /\ Running /\ Idle /\ world = "dying" /\ obexd.noise < MaxNoise
    /\ obexd' = [FreshObexd EXCEPT !.noise = obexd.noise + 1]
    /\ LET order == SetToSeq(obexd.sessions) IN
       Tell([n \in 1..Len(order) |-> [kind |-> "removed",
                                       session |-> order[n]]])
    /\ UNCHANGED <<world, calls, device, sender, wired, sent, skipped>>

-----------------------------------------------------------------------------
(* The Sender *)

Do(step) ==
    /\ sender' = step.s
    /\ calls' = calls \o step.calls

Receive(kind) ==
    /\ Running /\ queue # <<>> /\ Head(queue).kind = kind
    /\ queue' = Tail(queue)

Message == Head(queue)

\* __init__, a second after discovery was stopped or at once: the session, or
\* the wait for the device, which is connected if it is not.
StartSendSession ==
    /\ Running /\ sender.start
    /\ LET s == [sender EXCEPT !.start = FALSE, !.awaiting = ~device.ready] IN
       Do(IF device.ready THEN CreateSession(s) ELSE Step(s, <<>>))
    /\ device' \in IF device.ready THEN {device}
                   ELSE {device, [device EXCEPT !.connecting = TRUE]}
    /\ UNCHANGED <<world, obexd, queue, wired, sent, skipped>>

\* The device connects and resolves its services.
DeviceReady ==
    /\ Running /\ ~device.ready
    /\ device' = [device EXCEPT !.ready = TRUE]
    /\ Do(IF sender.awaiting
          THEN CreateSession([sender EXCEPT !.awaiting = FALSE])
          ELSE Step(sender, <<>>))
    /\ UNCHANGED <<world, obexd, queue, wired, sent, skipped>>

\* on_device_connect_failed, at any moment after the call.
DeviceConnectAnswers ==
    /\ Running /\ device.connecting
    /\ device' = [device EXCEPT !.connecting = FALSE]
    /\ \/ UNCHANGED sender
       \/ sender' = [sender EXCEPT !.awaiting = FALSE, !.fatal = TRUE]
    /\ UNCHANGED <<world, obexd, queue, calls, wired, sent, skipped>>

RetryTimeout ==
    /\ Running /\ sender.retry
    /\ Do(CreateSession([sender EXCEPT !.retry = FALSE]))
    /\ UNCHANGED <<world, obexd, queue, device, wired, sent, skipped>>

SessionAdded ==
    /\ Receive("added")
    /\ Do(OnSessionAdded(sender, Message.session))
    /\ UNCHANGED <<world, obexd, device, wired, sent, skipped>>

SessionRemoved ==
    /\ Receive("removed")
    /\ Do(OnSessionRemoved(sender, Message.session))
    /\ UNCHANGED <<world, obexd, device, wired, sent, skipped>>

SessionFailed ==
    /\ Receive("failed")
    /\ \E n \in Fallbacks : Do(OnSessionFailed(sender, n))
    /\ UNCHANGED <<world, obexd, device, wired, sent, skipped>>

\* The handlers of object_push are connected for the current session only;
\* those of a transfer are never disconnected.
TransferStarted ==
    /\ Receive("started")
    /\ IF sender.push = Message.session
       THEN /\ Do(Step(OnTransferStarted(sender), <<>>))
            /\ wired' = [wired EXCEPT ![Message.path] = @ + 1]
       ELSE UNCHANGED <<sender, calls, wired>>
    /\ UNCHANGED <<world, obexd, device, sent, skipped>>

TransferFailed ==
    /\ Receive("sendfailed")
    /\ Do(IF sender.push = Message.session THEN OnTransferError(sender)
          ELSE Step(sender, <<>>))
    /\ UNCHANGED <<world, obexd, device, wired, sent, skipped>>

\* Each connected handler runs; for progress and errors once is enough.
TransferSignal(kind, Handler(_)) ==
    /\ Receive(kind)
    /\ Do(IF wired[Message.path] = 0 THEN Step(sender, <<>>)
          ELSE Handler(sender))
    /\ UNCHANGED <<world, obexd, device, wired, sent, skipped>>

TransferProgress ==
    TransferSignal("progress", LAMBDA s : Step(OnTransferProgress(s), <<>>))

TransferError == TransferSignal("error", OnTransferError)

TransferCompleted ==
    TransferSignal("done",
        LAMBDA s : IF wired[Message.path] = 1 THEN OnTransferCompleted(s)
                   ELSE Then(OnTransferCompleted(s), OnTransferCompleted))

\* on_response: retry, or skip the file if it is not the last.
AfterDialog(s) ==
    LET undone == [s EXCEPT !.dialog = "none", !.total = @ - s.transferred,
                            !.transferred = 0] IN
    Then(IF s.push = NoSession THEN CreateSession(undone)
         ELSE Step(undone, <<>>), ProcessQueue)

Retry ==
    /\ Running /\ sender.dialog # "none"
    /\ Do(AfterDialog(sender))
    /\ UNCHANGED <<world, obexd, queue, device, wired, sent, skipped>>

DropFile(s) == [s EXCEPT !.files = Front(@), !.bytes = @ - 1]

Skip ==
    /\ Running /\ sender.dialog = "skip" /\ sender.files # <<>>
    /\ Do(AfterDialog(DropFile(sender)))
    /\ skipped' = skipped \cup {sender.files[Len(sender.files)]}
    /\ UNCHANGED <<world, obexd, queue, device, wired, sent>>

\* The button of the window or of the dialog.
Cancel ==
    /\ Running /\ ~sender.fatal
    /\ Do(OnCancel(sender))
    /\ UNCHANGED <<world, obexd, queue, device, wired, sent, skipped>>

\* The dialog of on_device_connect_failed or on_session_failed, which runs a
\* main loop of its own, is closed.
FatalClosed ==
    /\ Running /\ sender.fatal
    /\ Do(Emit(sender, "failed"))
    /\ UNCHANGED <<world, obexd, queue, device, wired, sent, skipped>>

-----------------------------------------------------------------------------
SenderInit ==
    /\ world \in {"dying", "shared", "slow"}
    /\ obexd = FreshObexd
    /\ queue = <<>> /\ calls = <<>>
    /\ device \in [ready : BOOLEAN, connecting : {FALSE}]
    /\ sender = [start |-> TRUE, awaiting |-> FALSE, attempt |-> 0,
                 attempts |-> 1, retry |-> FALSE, push |-> NoSession,
                 files |-> Files, bytes |-> Len(Files), total |-> 0,
                 transferred |-> 0, last |-> 0, dialog |-> "none",
                 fatal |-> FALSE, result |-> "none"]
    /\ wired = [p \in Paths |-> 0]
    /\ sent = {} /\ skipped = {}

SenderNext ==
    \/ ObexdHandles \/ LateSession \/ OtherSession \/ ObexdDies
    \/ \E a \in obexd.active : TransferMoves(a) \/ TransferEnds(a)
    \/ \E session \in obexd.sessions \cap Sessions : LinkLost(session)
    \/ StartSendSession \/ DeviceReady \/ DeviceConnectAnswers
    \/ RetryTimeout \/ SessionAdded \/ SessionRemoved \/ SessionFailed
    \/ TransferStarted \/ TransferFailed \/ TransferProgress
    \/ TransferError \/ TransferCompleted
    \/ Retry \/ Skip \/ Cancel \/ FatalClosed

SenderSpec == SenderInit /\ [][SenderNext]_senderVars

-----------------------------------------------------------------------------
SenderTypeOK ==
    /\ sender.push \in Sessions \cup {Other, NoSession}
    /\ sender.dialog \in {"none", "skip", "noskip"}
    /\ sender.result \in {"none", "sent", "failed"}
    /\ Len(sender.files) + Cardinality(skipped) <= Len(Files)
    /\ wired \in [Paths -> Nat]
    /\ obexd.sessions \subseteq Sessions \cup {Other}

\* _session_attempts[_session_attempt_index] exists whenever a session is
\* asked for.
AttemptExists == sender.attempt < sender.attempts

\* While the program runs it waits for something that comes: the device, a
\* timer, the user, or an answer or a signal of obexd it listens to.
NeverStuck ==
    Running =>
        \/ sender.start \/ sender.awaiting \/ sender.retry
        \/ sender.dialog # "none" \/ sender.fatal
        \/ calls # <<>> \/ queue # <<>>
        \/ \E a \in obexd.active : wired[a.path] > 0

\* Nothing has come but what the Sender asked for and was told of: obexd has
\* not died, no session of others or late one has come, and no file is sent
\* that was called failed.
Quiet == obexd.noise = 0

\* The progress bar stays within its bounds over retries, skipped files,
\* failed calls and lost sessions, as long as it is quiet.
ProgressInBounds ==
    Quiet => 0 <= sender.total /\ sender.total <= sender.bytes

Missing == {f \in 1..Len(Files) :
               /\ Files[f] \notin skipped
               /\ ~\E d \in sent : d.file = Files[f] /\ d.to # Other}

\* As long as it is quiet, success means that the device has every file but
\* those the user skipped.
SentWhenQuiet == Quiet /\ sender.result = "sent" => Missing = {}

\* No step of a retry, skip or cancellation leaves the list of files or of
\* attempts shorter than the index that is used next.
AttemptsExist == SenderTypeOK /\ AttemptExists

\* As long as it is quiet the bar and the result tell the user the truth.
ProgressIsTrue == ProgressInBounds /\ SentWhenQuiet
=============================================================================
