------------------------- MODULE TransferServiceProofs -------------------------
(***************************************************************************)
(* Proofs about incoming files, for any number of transfers, devices and   *)
(* messages of obexd on their way.                                         *)
(***************************************************************************)
EXTENDS TransferService, TLAPS, FiniteSetTheorems

(***************************************************************************)
(* The inductive invariant, in parts.                                      *)
(***************************************************************************)
\* A message about a transfer, at a position of the queue.
At(i, kind, t) == i \in DOMAIN queue /\ queue[i].kind = kind /\ queue[i].t = t
Is(i, kind) == i \in DOMAIN queue /\ queue[i].kind = kind

\* The agent exists while the plugin is loaded, and listens to the tracker, but for one that
\* cannot close its notification.
AgentOK ==
    /\ ~agent.exists => agent = NoAgent
    /\ agent.exists => tracker.made /\ service.loaded
    /\ service.watching => service.loaded
    /\ agent.exists => service.connected \/ agent.note = Unshown
    /\ agent.allowed = agent.timers
    /\ ~service.watching =>
         /\ agent.exists => agent.note = Unshown
         /\ \A i \in DOMAIN queue : queue[i].kind \notin {"appeared", "vanished"}

\* An object is announced, asked about, ended and removed in this order.
LivesOK ==
    /\ \A t \in Transfers : object[t].state = "unused" => auth[t] = "none" /\ t \notin announced
    /\ \A t \in Transfers : auth[t] = "pending" => obexd.up /\ object[t].state = "live"
    /\ \A t, u \in Transfers : auth[t] = "pending" /\ auth[u] = "pending" => t = u

ObjectsOK ==
    /\ LivesOK
    /\ \A i \in DOMAIN queue : \A t \in Transfers :
         /\ At(i, "removed", t) => object[t].state \in {"gone", "past"}
         /\ At(i, "status", t) => object[t].state \in {"ended", "gone", "past"}
         /\ At(i, "added", t) => t \in announced
         /\ Is(i, "lost") /\ (t \in tracker.tracked \/ \E j \in 1 .. i - 1 : At(j, "added", t))
              => object[t].state = "past"

\* A call is answered once, and not before it has reached the agent.
AnswersOK ==
    /\ \A t \in Transfers :
         /\ answers[t] \in {0, 1}
         /\ auth[t] \in {"none", "pending"} => answers[t] = 0
         /\ auth[t] \in {"accepted", "refused"} => answers[t] = 1
    /\ \A i \in DOMAIN queue : \A t \in Transfers : At(i, "authorize", t) =>
         auth[t] # "none" /\ answers[t] = 0
    /\ \A i, j \in DOMAIN queue : \A t \in Transfers :
         At(i, "authorize", t) /\ At(j, "authorize", t) => i = j
    /\ agent.open =>
         /\ auth[agent.note] \in {"pending", "over"} /\ answers[agent.note] = 0
         /\ \A i \in DOMAIN queue : ~At(i, "authorize", agent.note)

\* What is reported of a transfer.
ReportsOK ==
    /\ ReportedOnce
    /\ \A t \in Transfers :
         /\ t \notin announced => reports[t].started = 0
         /\ reports[t].completed > 0 => object[t].state \in {"ended", "gone", "past"}
         /\ reports[t].counted => reports[t].started = 1
    /\ \A i, j \in DOMAIN queue : \A t \in Transfers :
         At(i, "added", t) => reports[t].started = 0 /\ (At(j, "added", t) => i = j)

Disturbs == {"cancel", "vanished", "authorize"}

\* A pending call is on its way, behind what could close its notification, or is asked.
Undisturbed(i) == \A j \in DOMAIN queue : j > i => queue[j].kind \notin Disturbs
OnItsWay(t) == \E i \in DOMAIN queue : At(i, "authorize", t) /\ Undisturbed(i)
IsAsked(t) == agent.note = t /\ (bubble \/ agent.open)
PendingOK ==
    \A t \in Transfers : auth[t] = "pending" => OnItsWay(t) \/ (IsAsked(t) /\ Undisturbed(0))

\* There is an agent that can ask when the k-th message is handled.
Meets(k) ==
    \/ agent.exists /\ agent.note # Unshown
    \/ \E j \in 1 .. k - 1 : Is(j, "appeared")

\* The question about t is open now, or will be when the k-th message is handled.
Due(t, k) ==
    \/ k = 0 /\ agent.open /\ agent.note = t
    \/ At(k, "authorize", t) /\ Meets(k)

Ends(i, t) == At(i, "removed", t) \/ At(i, "status", t) \/ Is(i, "lost")
Closes(j) == j \in DOMAIN queue /\ queue[j].kind \in {"cancel", "vanished"}
GoesAfter(k) == \E j \in DOMAIN queue : j > k /\ Is(j, "vanished")
Unheeded(i, t) ==
    Is(i, "lost") /\ t \notin tracker.tracked /\ \A j \in 1 .. i - 1 : ~At(j, "added", t)

\* From position k on nothing can go wrong with t: it has not been completed, or the agent goes
\* first; when obexd has given it up the question is closed, before its end is heard.
Safe(t, k) ==
    /\ reports[t].completed = 0 \/ GoesAfter(k)
    /\ auth[t] = "over" => \E j \in DOMAIN queue : j > k /\ Closes(j)
    /\ \A i \in DOMAIN queue : Ends(i, t) =>
         \/ \E j \in DOMAIN queue : k < j /\ j < i /\ Closes(j)
         \/ GoesAfter(k)
         \/ Unheeded(i, t)

\* So it is with every transfer that the user is or will be asked about.
QuestionsOK == \A t \in Transfers : \A k \in 0 .. Len(queue) : Due(t, k) => Safe(t, k)

\* A device that may push has been allowed to.
ConsentOK ==
    /\ \A d \in Devices : agent.allowed[d] > 0 => d \in AutoTrusted \cup consent
    /\ AcceptedWithConsent

CountedTransfers == {t \in Transfers : reports[t].counted}

CountsOK == IsFiniteSet(CountedTransfers) /\ IsFiniteSet(tracker.tracked) /\ NeverOverReported

IInv ==
    /\ TypeOK /\ AgentOK /\ ObjectsOK /\ AnswersOK /\ ReportsOK /\ PendingOK /\ QuestionsOK
    /\ AuthorizedIsOpen /\ ConsentOK /\ CountsOK

(***************************************************************************)
(* Messages, the queue and the agent's record.                             *)
(***************************************************************************)
\* What the proofs need of the constants.
LEMMA Constants ==
    /\ Devices # {} /\ AutoTrusted \subseteq Devices /\ NoNote # Unshown
    /\ NoNote \notin Transfers /\ Unshown \notin Transfers
    /\ MaxQueue \in Nat \ {0} /\ MaxCrashes \in Nat
BY TransferAssumption

About == {"added", "authorize", "cancel", "removed", "status"}
Others == {"session", "lost", "vanished", "appeared", "unheard"}

\* The fields of a message.
LEMMA MessageFields ==
    ASSUME NEW m \in Messages
    PROVE  /\ m.kind \in About \cup Others
           /\ m.kind \in About => m.t \in Transfers
           /\ m.kind = "status" => m.success \in BOOLEAN
BY DEF Messages, About, Others

\* The messages that are sent.
LEMMA MessagesSent ==
    /\ \A t \in Transfers : \A k \in About \ {"status"} : [kind |-> k, t |-> t] \in Messages
    /\ \A t \in Transfers : \A b \in BOOLEAN : [kind |-> "status", t |-> t, success |-> b] \in Messages
    /\ \A k \in Others : [kind |-> k] \in Messages
BY DEF Messages, About, Others

\* A message is appended.
LEMMA Appended ==
    ASSUME NEW S, NEW s \in Seq(S), NEW m \in S
    PROVE  /\ Append(s, m) \in Seq(S) /\ Len(Append(s, m)) = Len(s) + 1
           /\ DOMAIN Append(s, m) = DOMAIN s \cup {Len(s) + 1} /\ Append(s, m)[Len(s) + 1] = m
           /\ \A i \in DOMAIN s : Append(s, m)[i] = s[i]
OBVIOUS

\* Two are.
LEMMA AppendedTwo ==
    ASSUME NEW S, NEW s \in Seq(S), NEW m \in S, NEW n \in S
    PROVE  /\ s \o <<m, n>> \in Seq(S) /\ Len(s \o <<m, n>>) = Len(s) + 2
           /\ DOMAIN (s \o <<m, n>>) = DOMAIN s \cup {Len(s) + 1, Len(s) + 2}
           /\ (s \o <<m, n>>)[Len(s) + 1] = m /\ (s \o <<m, n>>)[Len(s) + 2] = n
           /\ \A i \in DOMAIN s : (s \o <<m, n>>)[i] = s[i]
OBVIOUS

\* The first message is taken.
LEMMA Taken ==
    ASSUME NEW S, NEW s \in Seq(S), s # <<>>
    PROVE  /\ Tail(s) \in Seq(S) /\ Len(Tail(s)) = Len(s) - 1
           /\ Head(s) = s[1] /\ 1 \in DOMAIN s /\ Head(s) \in S
           /\ \A i \in DOMAIN Tail(s) : i + 1 \in DOMAIN s /\ Tail(s)[i] = s[i + 1]
           /\ \A i \in DOMAIN s : i = 1 \/ (i - 1 \in DOMAIN Tail(s) /\ Tail(s)[i - 1] = s[i])
OBVIOUS

\* The watch of the name ends.
LEMMA Filtered ==
    ASSUME NEW q \in Seq(Messages)
    PROVE  /\ Unwatched(q) \in Seq(Messages) /\ Len(Unwatched(q)) = Len(q)
           /\ DOMAIN Unwatched(q) = DOMAIN q
           /\ \A i \in DOMAIN q : q[i].kind \notin {"appeared", "vanished"} => Unwatched(q)[i] = q[i]
           /\ \A i \in DOMAIN q : q[i].kind \in {"appeared", "vanished"} => Unwatched(q)[i].kind = "unheard"
<1>1. \A i \in DOMAIN q : Unwatched(q)[i] \in Messages
  <2>1. [kind |-> "unheard"] \in Messages
    BY MessagesSent DEF Others
  <2>2. \A i \in DOMAIN q : q[i] \in Messages
    OBVIOUS
  <2> QED
    BY <2>1, <2>2 DEF Unwatched
<1>2. DOMAIN Unwatched(q) = 1 .. Len(q)
  BY DEF Unwatched
<1>3. Unwatched(q) \in [1 .. Len(q) -> Messages]
  BY <1>1, <1>2 DEF Unwatched
<1>4. Len(Unwatched(q)) = Len(q) /\ Unwatched(q) \in Seq(Messages)
  BY <1>2, <1>3
<1>5. \A i \in DOMAIN q : q[i].kind \notin {"appeared", "vanished"} => Unwatched(q)[i] = q[i]
  BY DEF Unwatched
<1>6. \A i \in DOMAIN q : q[i].kind \in {"appeared", "vanished"} => Unwatched(q)[i].kind = "unheard"
  BY DEF Unwatched
<1> QED
  BY <1>2, <1>4, <1>5, <1>6

Agents == [exists : BOOLEAN, note : Transfers \cup {NoNote, Unshown}, open : BOOLEAN,
           transfers : SUBSET Transfers, allowed : [Devices -> Nat], timers : [Devices -> Nat]]
Services == [loaded : BOOLEAN, watching : BOOLEAN, connected : BOOLEAN, silent : Int, normal : Int]
Reports == [started : Nat, completed : Nat, counted : BOOLEAN]

\* What happens to the plugin's record and to the reports.
LEMMA ServiceUpdates ==
    ASSUME NEW s \in Services, NEW n \in Int, NEW m \in Int
    PROVE  /\ [s EXCEPT !.connected = FALSE] \in Services
           /\ [s EXCEPT !.connected = TRUE] \in Services
           /\ [s EXCEPT !.connected = FALSE, !.silent = 0, !.normal = 0] \in Services
           /\ [s EXCEPT !.watching = FALSE, !.connected = FALSE] \in Services
           /\ [s EXCEPT !.silent = 0, !.normal = 0] \in Services
           /\ [s EXCEPT !.normal = @ - n, !.silent = @ - m] \in Services
           /\ [loaded |-> FALSE, watching |-> FALSE, connected |-> FALSE, silent |-> 0, normal |-> 0] \in Services
<1>1. ASSUME NEW r \in Services, NEW b \in BOOLEAN, NEW k \in Int
      PROVE  /\ [r EXCEPT !.connected = b] \in Services /\ [r EXCEPT !.watching = b] \in Services
             /\ [r EXCEPT !.silent = k] \in Services /\ [r EXCEPT !.normal = k] \in Services
  <2>1. [r EXCEPT !.connected = b] \in Services
    BY DEF Services
  <2>2. [r EXCEPT !.watching = b] \in Services
    BY DEF Services
  <2>3. [r EXCEPT !.silent = k] \in Services
    BY DEF Services
  <2>4. [r EXCEPT !.normal = k] \in Services
    BY DEF Services
  <2> QED
    BY <2>1, <2>2, <2>3, <2>4
<1>2. [loaded |-> FALSE, watching |-> FALSE, connected |-> FALSE, silent |-> 0, normal |-> 0] \in Services
  BY DEF Services
<1>3. s.silent - m \in Int /\ s.normal - n \in Int
  BY DEF Services
<1>4. FALSE \in BOOLEAN /\ TRUE \in BOOLEAN /\ 0 \in Int
  OBVIOUS
<1>5. /\ [s EXCEPT !.connected = FALSE] \in Services /\ [s EXCEPT !.connected = TRUE] \in Services
      /\ [s EXCEPT !.watching = FALSE] \in Services
      /\ [s EXCEPT !.silent = 0] \in Services /\ [s EXCEPT !.normal = s.normal - n] \in Services
  BY <1>1, <1>3, <1>4
<1>6. /\ [[s EXCEPT !.connected = FALSE] EXCEPT !.silent = 0] \in Services
      /\ [[s EXCEPT !.watching = FALSE] EXCEPT !.connected = FALSE] \in Services
      /\ [[s EXCEPT !.silent = 0] EXCEPT !.normal = 0] \in Services
      /\ [[s EXCEPT !.normal = s.normal - n] EXCEPT !.silent = s.silent - m] \in Services
  BY <1>1, <1>3, <1>4, <1>5
<1>7. [[[s EXCEPT !.connected = FALSE] EXCEPT !.silent = 0] EXCEPT !.normal = 0] \in Services
  BY <1>1, <1>4, <1>6
<1> QED
  BY <1>2, <1>5, <1>6, <1>7

LEMMA ReportUpdates ==
    ASSUME NEW R \in [Transfers -> Reports], NEW t \in Transfers, NEW c \in BOOLEAN
    PROVE  /\ [R EXCEPT ![t].completed = @ + 1, ![t].counted = c] \in [Transfers -> Reports]
           /\ [R EXCEPT ![t].completed = @ + 1] \in [Transfers -> Reports]
           /\ [R EXCEPT ![t].started = @ + 1, ![t].counted = c] \in [Transfers -> Reports]
           /\ [R[t] EXCEPT !.completed = @ + 1, !.counted = c] \in Reports
           /\ [R[t] EXCEPT !.counted = c] \in Reports
<1>1. ASSUME NEW x \in Reports, NEW b \in BOOLEAN, NEW k \in Nat
      PROVE  /\ [x EXCEPT !.completed = k] \in Reports /\ [x EXCEPT !.counted = b] \in Reports
             /\ [x EXCEPT !.started = k] \in Reports
  BY DEF Reports
<1>2. R[t] \in Reports /\ R[t].completed + 1 \in Nat /\ R[t].started + 1 \in Nat
  BY DEF Reports
<1>3. /\ [R[t] EXCEPT !.completed = R[t].completed + 1] \in Reports
      /\ [R[t] EXCEPT !.started = R[t].started + 1] \in Reports
      /\ [R[t] EXCEPT !.counted = c] \in Reports
  BY <1>1, <1>2
<1>4. [[R[t] EXCEPT !.completed = R[t].completed + 1] EXCEPT !.counted = c] \in Reports
  BY <1>1, <1>3
<1>5. ASSUME NEW F \in [Transfers -> Reports], NEW k \in Nat
      PROVE  /\ [F EXCEPT ![t].completed = k] \in [Transfers -> Reports]
             /\ [F EXCEPT ![t].counted = c] \in [Transfers -> Reports]
             /\ [F EXCEPT ![t].started = k] \in [Transfers -> Reports]
  <2>1. /\ [F[t] EXCEPT !.completed = k] \in Reports /\ [F[t] EXCEPT !.counted = c] \in Reports
        /\ [F[t] EXCEPT !.started = k] \in Reports
    BY <1>1
  <2> QED
    BY <2>1
<1>6. /\ [R EXCEPT ![t].completed = R[t].completed + 1] \in [Transfers -> Reports]
      /\ [R EXCEPT ![t].started = R[t].started + 1] \in [Transfers -> Reports]
  BY <1>2, <1>5
<1>7. /\ [[R EXCEPT ![t].completed = R[t].completed + 1] EXCEPT ![t].counted = c] \in [Transfers -> Reports]
      /\ [[R EXCEPT ![t].started = R[t].started + 1] EXCEPT ![t].counted = c] \in [Transfers -> Reports]
  BY <1>5, <1>6
<1> QED
  BY <1>3, <1>4, <1>6, <1>7

\* What happens to the agent.
LEMMA AgentUpdates ==
    ASSUME TypeOK, NEW t \in Transfers, agent.allowed = agent.timers
    PROVE  /\ agent \in Agents
           /\ ClosedNote(agent) \in Agents /\ Accepted(agent, t) \in Agents /\ HalfDestroyed \in Agents
           /\ AgentWithout(t) \in Agents /\ WithUnshownNote(agent) \in Agents
           /\ [agent EXCEPT !.note = t, !.open = TRUE] \in Agents
           /\ [agent EXCEPT !.open = FALSE] \in Agents
<1>1. agent \in Agents /\ object[t].from \in Devices
  BY DEF TypeOK, Agents
<1>2. \A d \in Devices : agent.allowed[d] + 1 \in Nat /\ agent.timers[d] + 1 \in Nat
  BY <1>1 DEF Agents
<1>3. /\ ClosedNote(agent) \in Agents /\ HalfDestroyed \in Agents
      /\ AgentWithout(t) \in Agents /\ WithUnshownNote(agent) \in Agents
      /\ [agent EXCEPT !.note = t, !.open = TRUE] \in Agents
      /\ [agent EXCEPT !.open = FALSE] \in Agents
  BY <1>1 DEF Agents, ClosedNote, HalfDestroyed, AgentWithout, WithUnshownNote
<1>4. Accepted(agent, t) \in Agents
  <2> DEFINE d == object[t].from
  <2>1. /\ [agent.allowed EXCEPT ![d] = @ + 1] \in [Devices -> Nat]
        /\ [agent.timers EXCEPT ![d] = @ + 1] \in [Devices -> Nat]
    BY <1>1, <1>2 DEF Agents
  <2>2. /\ Accepted(agent, t).allowed = [agent.allowed EXCEPT ![d] = @ + 1]
        /\ Accepted(agent, t).timers = [agent.timers EXCEPT ![d] = @ + 1]
    BY <1>1 DEF Agents, Accepted, ClosedNote
  <2> QED
    BY <1>1, <2>1, <2>2 DEF Agents, Accepted, ClosedNote
<1> QED
  BY <1>1, <1>3, <1>4

\* The steps of obexd and of the applet's queue, of the tracker, of the agent and of the plugin.
ObexdStep ==
    \/ \E t \in Transfers :
           \/ Announce(t) \/ Ask(t) \/ GiveUp(t) \/ RemoveTransfer(t)
           \/ \E d \in Devices, large \in BOOLEAN : ExportTransfer(t, d, large)
           \/ \E success \in BOOLEAN : EndTransfer(t, success)
    \/ \E d \in Devices : EndSession(d)
    \/ Crash \/ Restart \/ Unheard
TrackerStep == OnObjectAdded \/ OnTransferStatus \/ OnObjectRemoved \/ OnObjectsLost \/ OnSessionRemoved
AgentStep == OnAuthorizePush \/ OnCancel \/ UserAccepts \/ UserRejects \/ NotificationClosed
             \/ \E d \in Devices : AllowanceEnds(d)
PluginStep == OnNameAppeared \/ OnNameVanished \/ Load \/ Unload

LEMMA Steps == Next => ObexdStep \/ TrackerStep \/ AgentStep \/ PluginStep
BY DEF Next, ObexdStep, TrackerStep, AgentStep, PluginStep

QueueOK == queue \in Seq(Messages) /\ Len(queue) <= MaxQueue

\* A message is sent.
LEMMA Sends ==
    ASSUME QueueOK, Room, NEW m \in Messages, Send(m)
    PROVE  /\ QueueOK' /\ Len(queue') = Len(queue) + 1 /\ DOMAIN queue' = DOMAIN queue \cup {Len(queue) + 1}
           /\ queue'[Len(queue) + 1] = m /\ \A i \in DOMAIN queue : queue'[i] = queue[i]
<1>1. queue \in Seq(Messages) /\ Len(queue) \in Nat /\ Len(queue) < MaxQueue /\ queue' = Append(queue, m)
  BY DEF QueueOK, Room, Send
<1> HIDE DEF Messages
<1>2. /\ queue' \in Seq(Messages) /\ Len(queue') = Len(queue) + 1
      /\ DOMAIN queue' = DOMAIN queue \cup {Len(queue) + 1} /\ queue'[Len(queue) + 1] = m
      /\ \A i \in DOMAIN queue : queue'[i] = queue[i]
  BY <1>1, Appended
<1>3. QueueOK'
  BY <1>1, <1>2, Constants DEF QueueOK
<1> QED
  BY <1>2, <1>3

\* Two messages are sent.
LEMMA SendsTwo ==
    ASSUME QueueOK, Len(queue) + 2 <= MaxQueue, NEW m \in Messages, NEW n \in Messages,
           queue' = queue \o <<m, n>>
    PROVE  /\ QueueOK' /\ Len(queue') = Len(queue) + 2
           /\ DOMAIN queue' = DOMAIN queue \cup {Len(queue) + 1, Len(queue) + 2}
           /\ queue'[Len(queue) + 1] = m /\ queue'[Len(queue) + 2] = n
           /\ \A i \in DOMAIN queue : queue'[i] = queue[i]
<1>1. queue \in Seq(Messages) /\ Len(queue) \in Nat
  BY DEF QueueOK
<1> HIDE DEF Messages
<1>2. /\ queue' \in Seq(Messages) /\ Len(queue') = Len(queue) + 2
      /\ DOMAIN queue' = DOMAIN queue \cup {Len(queue) + 1, Len(queue) + 2}
      /\ queue'[Len(queue) + 1] = m /\ queue'[Len(queue) + 2] = n
      /\ \A i \in DOMAIN queue : queue'[i] = queue[i]
  BY <1>1, AppendedTwo
<1>3. QueueOK'
  BY <1>2 DEF QueueOK
<1> QED
  BY <1>2, <1>3

\* A message is received.
LEMMA Receives ==
    ASSUME QueueOK, NEW k, Receive(k)
    PROVE  /\ QueueOK' /\ Len(queue') = Len(queue) - 1
           /\ 1 \in DOMAIN queue /\ Head(queue) = queue[1] /\ Head(queue) \in Messages /\ queue[1].kind = k
           /\ \A i \in DOMAIN queue' : i + 1 \in DOMAIN queue /\ queue'[i] = queue[i + 1]
           /\ \A i \in DOMAIN queue : i = 1 \/ (i - 1 \in DOMAIN queue' /\ queue'[i - 1] = queue[i])
<1>1. /\ queue \in Seq(Messages) /\ Len(queue) \in Nat /\ Len(queue) <= MaxQueue
      /\ queue # <<>> /\ queue' = Tail(queue) /\ Head(queue).kind = k
  BY DEF QueueOK, Receive
<1> HIDE DEF Messages
<1>2. /\ queue' \in Seq(Messages) /\ Len(queue') = Len(queue) - 1
      /\ 1 \in DOMAIN queue /\ Head(queue) = queue[1] /\ Head(queue) \in Messages
      /\ \A i \in DOMAIN queue' : i + 1 \in DOMAIN queue /\ queue'[i] = queue[i + 1]
      /\ \A i \in DOMAIN queue : i = 1 \/ (i - 1 \in DOMAIN queue' /\ queue'[i - 1] = queue[i])
  BY <1>1, Taken
<1>3. QueueOK'
  BY <1>1, <1>2, Constants DEF QueueOK
<1> QED
  BY <1>1, <1>2, <1>3

\* The types but for the queue.
RestOK ==
    /\ obexd \in [up : BOOLEAN, registered : BOOLEAN, crashes : 0..MaxCrashes]
    /\ bubble \in BOOLEAN
    /\ object \in [Transfers ->
                     [state : {"unused", "live", "ended", "gone", "past"},
                      from : Devices, large : BOOLEAN]]
    /\ auth \in [Transfers -> {"none", "pending", "accepted", "refused", "over"}]
    /\ announced \subseteq Transfers
    /\ tracker \in [made : BOOLEAN, tracked : SUBSET Transfers]
    /\ service \in Services
    /\ agent \in Agents
    /\ agent.open => agent.note \in Transfers
    /\ answers \in [Transfers -> Nat]
    /\ reports \in [Transfers -> Reports]
    /\ consent \subseteq Devices

LEMMA TypeParts == (TypeOK <=> QueueOK /\ RestOK) /\ (TypeOK' <=> QueueOK' /\ RestOK')
BY DEF TypeOK, QueueOK, RestOK, Agents, Services, Reports

\* obexd keeps the types.
LEMMA ObexdType ==
    ASSUME QueueOK, RestOK, ObexdStep
    PROVE  QueueOK' /\ RestOK'
<1> USE DEF AppletUnchanged
<1>1. ASSUME NEW t \in Transfers, NEW d \in Devices, NEW large \in BOOLEAN, ExportTransfer(t, d, large)
      PROVE  QueueOK' /\ RestOK'
  BY <1>1 DEF RestOK, QueueOK, ExportTransfer
<1>2. ASSUME NEW t \in Transfers, Announce(t)
      PROVE  QueueOK' /\ RestOK'
  <2>1. QueueOK'
    BY <1>2, MessagesSent, Sends DEF Announce, About
  <2> QED
    BY <1>2, <2>1 DEF RestOK, Announce
<1>3. ASSUME NEW t \in Transfers, Ask(t)
      PROVE  QueueOK' /\ RestOK'
  <2>1. QueueOK'
    BY <1>3, MessagesSent, Sends DEF Ask, About
  <2> QED
    BY <1>3, <2>1 DEF RestOK, Ask
<1>4. ASSUME NEW t \in Transfers, GiveUp(t)
      PROVE  QueueOK' /\ RestOK'
  <2>1. QueueOK'
    BY <1>4, MessagesSent, Sends DEF GiveUp, About
  <2> QED
    BY <1>4, <2>1 DEF RestOK, GiveUp
<1>5. ASSUME NEW t \in Transfers, NEW success \in BOOLEAN, EndTransfer(t, success)
      PROVE  QueueOK' /\ RestOK'
  <2>1. QueueOK'
    BY <1>5, MessagesSent, Sends DEF EndTransfer, About
  <2> QED
    BY <1>5, <2>1 DEF RestOK, EndTransfer
<1>6. ASSUME NEW t \in Transfers, RemoveTransfer(t)
      PROVE  QueueOK' /\ RestOK'
  <2>1. QueueOK'
    BY <1>6, MessagesSent, Sends DEF RemoveTransfer, About
  <2> QED
    BY <1>6, <2>1 DEF RestOK, RemoveTransfer
<1>7. ASSUME NEW d \in Devices, EndSession(d)
      PROVE  QueueOK' /\ RestOK'
  <2>1. QueueOK'
    BY <1>7, MessagesSent, Sends DEF EndSession, Others
  <2> QED
    BY <1>7, <2>1 DEF RestOK, EndSession
<1>8. ASSUME Crash
      PROVE  QueueOK' /\ RestOK'
  <2>1. QueueOK'
    <3>1. CASE service.watching
      BY <1>8, <3>1, MessagesSent, SendsTwo DEF Crash, Others
    <3>2. CASE ~service.watching
      <4>1. Room /\ Send([kind |-> "lost"])
        BY <1>8, <3>2, Constants DEF Crash, Room, QueueOK
      <4> QED
        BY <4>1, MessagesSent, Sends DEF Others
    <3> QED
      BY <3>1, <3>2
  <2>2. obexd' \in [up : BOOLEAN, registered : BOOLEAN, crashes : 0..MaxCrashes]
    <3>1. obexd.crashes \in 0 .. MaxCrashes /\ obexd.crashes < MaxCrashes /\ MaxCrashes \in Nat
      BY <1>8, Constants DEF RestOK, Crash
    <3>2. obexd.crashes + 1 \in 0 .. MaxCrashes
      BY <3>1
    <3> QED
      BY <1>8, <3>2 DEF Crash
  <2>3. /\ object' \in [Transfers -> [state : {"unused", "live", "ended", "gone", "past"},
                                     from : Devices, large : BOOLEAN]]
        /\ auth' \in [Transfers -> {"none", "pending", "accepted", "refused", "over"}]
    BY <1>8 DEF RestOK, Crash
  <2> QED
    BY <1>8, <2>1, <2>2, <2>3 DEF RestOK, Crash
<1>9. ASSUME Restart
      PROVE  QueueOK' /\ RestOK'
  <2>1. QueueOK'
    <3>1. CASE service.watching
      BY <1>9, <3>1, MessagesSent, Sends DEF Restart, Others
    <3>2. CASE ~service.watching
      BY <1>9, <3>2 DEF Restart, QueueOK
    <3> QED
      BY <3>1, <3>2
  <2> QED
    BY <1>9, <2>1 DEF RestOK, Restart
<1>10. ASSUME Unheard
       PROVE  QueueOK' /\ RestOK'
  <2>1. QueueOK'
    BY <1>10, Receives DEF Unheard
  <2> QED
    BY <1>10, <2>1 DEF RestOK, Unheard
<1> QED
  BY <1>1, <1>2, <1>3, <1>4, <1>5, <1>6, <1>7, <1>8, <1>9, <1>10 DEF ObexdStep

LEMMA NoneCounted ==
    ASSUME reports \in [Transfers -> Reports]
    PROVE  Uncounted \in [Transfers -> Reports]
<1>1. FALSE \in BOOLEAN
  OBVIOUS
<1>2. \A t \in Transfers : [reports[t] EXCEPT !.counted = FALSE] \in Reports
  BY <1>1, ReportUpdates
<1> QED
  BY <1>2 DEF Uncounted

\* What is taken off a finite set makes it smaller by no more than its own size.
LEMMA Smaller ==
    ASSUME NEW S, IsFiniteSet(S), NEW T, IsFiniteSet(T)
    PROVE  /\ IsFiniteSet(S \ T) /\ Cardinality(S \ T) \in Nat /\ Cardinality(S) \in Nat /\ Cardinality(T) \in Nat
           /\ Cardinality(S \ T) >= Cardinality(S) - Cardinality(T)
<1>1. /\ IsFiniteSet(S \ T) /\ Cardinality(S \ T) = Cardinality(S) - Cardinality(S \cap T)
  BY FS_Difference
<1>2. IsFiniteSet(S \cap T) /\ Cardinality(S \cap T) <= Cardinality(T)
  BY FS_Subset
<1> QED
  BY <1>1, <1>2, FS_CardinalityType

\* How the counters change when transfers fail and when a session ends.
Large(C) == {t \in C : object[t].large}
Within(s, C) == s.normal <= Cardinality(Large(C)) /\ s.silent <= Cardinality(C \ Large(C))
SameLife(r, s) == r.loaded = s.loaded /\ r.watching = s.watching /\ r.connected = s.connected

LEMMA FailedFields ==
    ASSUME NEW s \in Services, NEW ts, IsFiniteSet(ts)
    PROVE  /\ Failed(s, ts) \in Services /\ SameLife(Failed(s, ts), s)
           /\ Failed(s, ts).normal = s.normal - Cardinality(Large(ts))
           /\ Failed(s, ts).silent = s.silent - Cardinality(ts \ Large(ts))
           /\ Cardinality(Large(ts)) \in Nat /\ Cardinality(ts \ Large(ts)) \in Nat
<1>1. IsFiniteSet(Large(ts)) /\ IsFiniteSet(ts \ Large(ts))
  BY FS_Subset DEF Large
<1>2. PICK n \in Nat, m \in Nat : n = Cardinality(Large(ts)) /\ m = Cardinality(ts \ Large(ts))
  BY <1>1, FS_CardinalityType
<1>3. Failed(s, ts) = [s EXCEPT !.normal = @ - n, !.silent = @ - m]
  BY <1>2 DEF Failed, is_large_transfer, Large
<1>4. n \in Int /\ m \in Int
  OBVIOUS
<1>5. [s EXCEPT !.normal = @ - n, !.silent = @ - m] \in Services
  BY <1>4, ServiceUpdates
<1>6. /\ SameLife([s EXCEPT !.normal = @ - n, !.silent = @ - m], s)
      /\ [s EXCEPT !.normal = @ - n, !.silent = @ - m].normal = s.normal - n
      /\ [s EXCEPT !.normal = @ - n, !.silent = @ - m].silent = s.silent - m
  BY DEF Services, SameLife
<1> QED
  BY <1>2, <1>3, <1>5, <1>6

LEMMA SessionFields ==
    ASSUME NEW s \in Services
    PROVE  /\ SessionRemoved(s) \in Services /\ SameLife(SessionRemoved(s), s)
           /\ IF s.connected /\ s.silent # 0
              THEN SessionRemoved(s).silent = 0 /\ SessionRemoved(s).normal = 0
              ELSE SessionRemoved(s) = s
<1>1. [s EXCEPT !.silent = 0, !.normal = 0] \in Services
  <2>1. 0 \in Int
    OBVIOUS
  <2> QED
    BY <2>1, ServiceUpdates
<1>2. /\ SameLife([s EXCEPT !.silent = 0, !.normal = 0], s)
      /\ [s EXCEPT !.silent = 0, !.normal = 0].silent = 0 /\ [s EXCEPT !.silent = 0, !.normal = 0].normal = 0
  BY DEF Services, SameLife
<1>3. SameLife(s, s)
  BY DEF SameLife
<1> QED
  BY <1>1, <1>2, <1>3 DEF SessionRemoved

\* Failures take as much off the bounds as off the counters.
LEMMA FailedWithin ==
    ASSUME NEW s \in Services, NEW ts, IsFiniteSet(ts), NEW C, IsFiniteSet(C), Within(s, C)
    PROVE  Within(Failed(s, ts), C \ ts) /\ IsFiniteSet(C \ ts)
<1>1. /\ IsFiniteSet(Large(ts)) /\ IsFiniteSet(ts \ Large(ts))
      /\ IsFiniteSet(Large(C)) /\ IsFiniteSet(C \ Large(C)) /\ IsFiniteSet(C \ ts)
  BY FS_Subset DEF Large
<1>2. /\ Large(C \ ts) = Large(C) \ Large(ts)
      /\ (C \ ts) \ Large(C \ ts) = (C \ Large(C)) \ (ts \ Large(ts))
  BY DEF Large
<1>3. /\ Cardinality(Large(C) \ Large(ts)) >= Cardinality(Large(C)) - Cardinality(Large(ts))
      /\ Cardinality(Large(C) \ Large(ts)) \in Nat /\ Cardinality(Large(C)) \in Nat
  BY <1>1, Smaller
<1>4. /\ Cardinality((C \ Large(C)) \ (ts \ Large(ts)))
            >= Cardinality(C \ Large(C)) - Cardinality(ts \ Large(ts))
      /\ Cardinality((C \ Large(C)) \ (ts \ Large(ts))) \in Nat /\ Cardinality(C \ Large(C)) \in Nat
  BY <1>1, Smaller
<1>5. /\ Failed(s, ts).normal = s.normal - Cardinality(Large(ts))
      /\ Failed(s, ts).silent = s.silent - Cardinality(ts \ Large(ts))
      /\ Cardinality(Large(ts)) \in Nat /\ Cardinality(ts \ Large(ts)) \in Nat
  BY FailedFields
<1>6. s.normal \in Int /\ s.silent \in Int
  BY DEF Services
<1>7. s.normal <= Cardinality(Large(C)) /\ s.silent <= Cardinality(C \ Large(C))
  BY DEF Within
<1>8. PICK a \in Nat, b \in Nat, c \in Nat : a = Cardinality(Large(ts)) /\ b = Cardinality(Large(C))
                                      /\ c = Cardinality(Large(C) \ Large(ts))
  BY <1>3, <1>5
<1>9. Failed(s, ts).normal <= Cardinality(Large(C \ ts))
  <2>1. Failed(s, ts).normal = s.normal - a /\ s.normal <= b /\ c >= b - a
    BY <1>3, <1>5, <1>7, <1>8
  <2>2. Failed(s, ts).normal <= c
    BY <1>6, <2>1
  <2> QED
    BY <1>2, <1>8, <2>2
<1>10. PICK a1 \in Nat, b1 \in Nat, c1 \in Nat :
         /\ a1 = Cardinality(ts \ Large(ts)) /\ b1 = Cardinality(C \ Large(C))
         /\ c1 = Cardinality((C \ Large(C)) \ (ts \ Large(ts)))
  BY <1>4, <1>5
<1>11. Failed(s, ts).silent <= Cardinality((C \ ts) \ Large(C \ ts))
  <2>1. Failed(s, ts).silent = s.silent - a1 /\ s.silent <= b1 /\ c1 >= b1 - a1
    BY <1>4, <1>5, <1>7, <1>10
  <2>2. Failed(s, ts).silent <= c1
    BY <1>6, <2>1
  <2>3. Cardinality((C \ ts) \ Large(C \ ts)) = c1
    BY <1>2, <1>10, Zenon
  <2> QED
    BY <2>2, <2>3
<1> QED
  BY <1>1, <1>9, <1>11 DEF Within

\* A session that reports starts the counters again.
LEMMA SessionWithin ==
    ASSUME NEW s \in Services
    PROVE  /\ s.connected /\ s.silent # 0 => Within(SessionRemoved(s), {})
           /\ ~(s.connected /\ s.silent # 0) => SessionRemoved(s) = s
           /\ Within(s, {}) => Within(SessionRemoved(s), {})
<1>1. Large({}) = {} /\ {} \ Large({}) = {} /\ Cardinality({}) = 0
  BY FS_EmptySet DEF Large
<1> QED
  BY <1>1, SessionFields DEF Within

\* What the end of obexd does to the plugin and to the reports.
LostReports(mine, reset) ==
    [t \in Transfers |->
        [reports[t] EXCEPT !.completed = @ + (IF t \in tracker.tracked THEN 1 ELSE 0),
                           !.counted = @ /\ t \notin mine /\ ~reset]]

LEMMA LostEffects ==
    ASSUME RestOK, IsFiniteSet(tracker.tracked), OnObjectsLost
    PROVE  \E mine \in SUBSET tracker.tracked, reset \in BOOLEAN :
               /\ agent' = [agent EXCEPT !.transfers = @ \ mine]
               /\ mine = IF service.connected THEN {t \in tracker.tracked : Authorized(t)} ELSE {}
               /\ reports' = LostReports(mine, reset)
               /\ service' \in Services /\ SameLife(service', service)
               /\ \A C : IsFiniteSet(C) /\ Within(service, C)
                          => Within(service', IF reset THEN {} ELSE C \ mine)
<1> DEFINE mine == IF service.connected THEN {t \in tracker.tracked : Authorized(t)} ELSE {}
<1>1. agent' = [agent EXCEPT !.transfers = @ \ mine] /\ mine \subseteq tracker.tracked
  BY DEF OnObjectsLost
<1>2. PICK sessions \in SUBSET Devices, before \in SUBSET mine :
      \E between \in SUBSET (mine \ before) :
        LET first == Failed(service, before)
            last == Failed(SessionRemoved(first), between)
            reset == /\ sessions # {} /\ service.connected
                     /\ first.silent # 0 \/ last.silent # 0
        IN
        /\ {object[t].from : t \in tracker.tracked} \subseteq sessions
        /\ Cardinality(sessions) = 1 => between = {}
        /\ service' = IF sessions = {} THEN Failed(service, mine)
                      ELSE Failed(SessionRemoved(last), (mine \ before) \ between)
        /\ reports' = [t \in Transfers |->
               [reports[t] EXCEPT
                   !.completed = @ + (IF t \in tracker.tracked THEN 1 ELSE 0),
                   !.counted = @ /\ t \notin mine /\ ~reset]]
  BY Zenon DEF OnObjectsLost
<1>3. PICK between \in SUBSET (mine \ before) :
        LET first == Failed(service, before)
            last == Failed(SessionRemoved(first), between)
            reset == sessions # {} /\ service.connected /\ (first.silent # 0 \/ last.silent # 0)
        IN
        /\ service' = IF sessions = {} THEN Failed(service, mine)
                      ELSE Failed(SessionRemoved(last), (mine \ before) \ between)
        /\ reports' = LostReports(mine, reset)
  BY <1>2 DEF LostReports
<1> DEFINE first == Failed(service, before)
           ended == SessionRemoved(first)
           last == Failed(ended, between)
           again == SessionRemoved(last)
           rest == (mine \ before) \ between
           reset == sessions # {} /\ service.connected /\ (first.silent # 0 \/ last.silent # 0)
<1>4. /\ service' = IF sessions = {} THEN Failed(service, mine) ELSE Failed(again, rest)
      /\ reports' = LostReports(mine, reset)
  BY <1>3
<1>5. IsFiniteSet(mine) /\ IsFiniteSet(before) /\ IsFiniteSet(between) /\ IsFiniteSet(rest)
  <2>1. IsFiniteSet(mine)
    BY <1>1, FS_Subset
  <2> QED
    BY <2>1, FS_Subset
<1>6. service \in Services
  BY DEF RestOK
<1>7. first \in Services /\ SameLife(first, service)
  BY <1>5, <1>6, FailedFields
<1>8. ended \in Services /\ SameLife(ended, first)
  BY <1>7, SessionFields
<1>9. last \in Services /\ SameLife(last, ended)
  BY <1>5, <1>8, FailedFields
<1>10. again \in Services /\ SameLife(again, last)
  BY <1>9, SessionFields
<1>11. Failed(again, rest) \in Services /\ SameLife(Failed(again, rest), again)
  BY <1>5, <1>10, FailedFields
<1>12. Failed(service, mine) \in Services /\ SameLife(Failed(service, mine), service)
  BY <1>5, <1>6, FailedFields
<1>13. first.connected = service.connected /\ last.connected = service.connected
  BY <1>7, <1>8, <1>9 DEF SameLife
<1>14. rest = (mine \ before) \ between /\ between \subseteq mine /\ before \subseteq mine
  OBVIOUS
<1> HIDE DEF mine, first, ended, last, again, rest
<1>15. ASSUME NEW C, IsFiniteSet(C), Within(service, C)
       PROVE  Within(service', IF reset THEN {} ELSE C \ mine)
  <2>1. CASE sessions = {}
    BY <1>4, <1>5, <1>6, <1>15, <2>1, FailedWithin
  <2>2. CASE sessions # {} /\ ~reset
    <3>1. ended = first /\ again = last
      BY <1>7, <1>9, <1>13, <2>2, SessionWithin DEF ended, again
    <3>2. Within(first, C \ before) /\ IsFiniteSet(C \ before)
      BY <1>5, <1>6, <1>15, FailedWithin DEF first
    <3>3. Within(last, (C \ before) \ between) /\ IsFiniteSet((C \ before) \ between)
      BY <1>5, <1>7, <3>1, <3>2, FailedWithin DEF last
    <3>4. Within(Failed(again, rest), ((C \ before) \ between) \ rest)
      BY <1>5, <1>9, <3>1, <3>3, FailedWithin
    <3>5. ((C \ before) \ between) \ rest = C \ mine
      BY <1>14
    <3> QED
      BY <1>4, <2>2, <3>4, <3>5
  <2>3. CASE sessions # {} /\ reset
    <3>1. IsFiniteSet({}) /\ {} \ between = {} /\ {} \ rest = {}
      BY FS_EmptySet
    <3>2. Within(again, {})
      <4>1. CASE last.silent # 0
        BY <1>9, <1>13, <2>3, <4>1, SessionWithin DEF again
      <4>2. CASE first.silent # 0
        <5>1. Within(ended, {})
          BY <1>7, <1>13, <2>3, <4>2, SessionWithin DEF ended
        <5>2. Within(last, {})
          BY <1>5, <1>8, <3>1, <5>1, FailedWithin DEF last
        <5> QED
          BY <1>9, <5>2, SessionWithin DEF again
      <4> QED
        BY <2>3, <4>1, <4>2
    <3>3. Within(Failed(again, rest), {})
      BY <1>5, <1>10, <3>1, <3>2, FailedWithin
    <3> QED
      BY <1>4, <2>3, <3>3
  <2> QED
    BY <2>1, <2>2, <2>3
<1>16. service' \in Services /\ SameLife(service', service)
  BY <1>4, <1>7, <1>8, <1>9, <1>10, <1>11, <1>12 DEF SameLife
<1>17. reset \in BOOLEAN
  OBVIOUS
<1>18. mine = IF service.connected THEN {t \in tracker.tracked : Authorized(t)} ELSE {}
  BY DEF mine
<1> HIDE DEF reset
<1>19. mine \in SUBSET tracker.tracked
  BY <1>1
<1>20. reports' = LostReports(mine, reset) /\ agent' = [agent EXCEPT !.transfers = @ \ mine]
  BY <1>1, <1>4
<1>21. \A C : IsFiniteSet(C) /\ Within(service, C) => Within(service', IF reset THEN {} ELSE C \ mine)
  BY <1>15
<1> QED
  BY <1>16, <1>17, <1>18, <1>19, <1>20, <1>21, Zenon

\* The same, without regard to the counters.
HasLife(s) == {"loaded", "watching", "connected"} \subseteq DOMAIN s

LEMMA LifeKept ==
    ASSUME NEW s, HasLife(s), NEW ts
    PROVE  /\ HasLife(Failed(s, ts)) /\ SameLife(Failed(s, ts), s)
           /\ HasLife(SessionRemoved(s)) /\ SameLife(SessionRemoved(s), s)
<1>1. ASSUME NEW n, NEW m
      PROVE  /\ HasLife([s EXCEPT !.normal = n, !.silent = m]) /\ SameLife([s EXCEPT !.normal = n, !.silent = m], s)
             /\ HasLife([s EXCEPT !.silent = m, !.normal = n]) /\ SameLife([s EXCEPT !.silent = m, !.normal = n], s)
  BY DEF HasLife, SameLife
<1> DEFINE a == s.normal - Cardinality({t \in ts : is_large_transfer(t)})
           b == s.silent - Cardinality(ts \ {t \in ts : is_large_transfer(t)})
<1>2. Failed(s, ts) = [s EXCEPT !.normal = a, !.silent = b]
  BY DEF Failed
<1>3. SessionRemoved(s) \in {s, [s EXCEPT !.silent = 0, !.normal = 0]}
  BY DEF SessionRemoved
<1>4. SameLife(s, s)
  BY DEF SameLife
<1> HIDE DEF a, b
<1>5. HasLife(Failed(s, ts)) /\ SameLife(Failed(s, ts), s)
  <2>1. HasLife([s EXCEPT !.normal = a, !.silent = b]) /\ SameLife([s EXCEPT !.normal = a, !.silent = b], s)
    BY <1>1
  <2> QED
    BY <1>2, <2>1, Zenon
<1>6. HasLife([s EXCEPT !.silent = 0, !.normal = 0]) /\ SameLife([s EXCEPT !.silent = 0, !.normal = 0], s)
  BY <1>1
<1>7. HasLife(SessionRemoved(s)) /\ SameLife(SessionRemoved(s), s)
  BY <1>3, <1>4, <1>6, Zenon
<1> QED
  BY <1>5, <1>7

LEMMA LostKeeps ==
    ASSUME RestOK, OnObjectsLost
    PROVE  \E mine, reset :
               /\ agent' = [agent EXCEPT !.transfers = @ \ mine]
               /\ mine = IF service.connected THEN {t \in tracker.tracked : Authorized(t)} ELSE {}
               /\ reports' = LostReports(mine, reset)
               /\ SameLife(service', service)
<1> DEFINE mine == IF service.connected THEN {t \in tracker.tracked : Authorized(t)} ELSE {}
<1>1. agent' = [agent EXCEPT !.transfers = @ \ mine]
  BY DEF OnObjectsLost
<1>2. PICK sessions \in SUBSET Devices, before \in SUBSET mine :
      \E between \in SUBSET (mine \ before) :
        LET first == Failed(service, before)
            last == Failed(SessionRemoved(first), between)
            reset == /\ sessions # {} /\ service.connected
                     /\ first.silent # 0 \/ last.silent # 0
        IN
        /\ {object[t].from : t \in tracker.tracked} \subseteq sessions
        /\ Cardinality(sessions) = 1 => between = {}
        /\ service' = IF sessions = {} THEN Failed(service, mine)
                      ELSE Failed(SessionRemoved(last), (mine \ before) \ between)
        /\ reports' = [t \in Transfers |->
               [reports[t] EXCEPT
                   !.completed = @ + (IF t \in tracker.tracked THEN 1 ELSE 0),
                   !.counted = @ /\ t \notin mine /\ ~reset]]
  BY Zenon DEF OnObjectsLost
<1>3. HasLife(service)
  BY DEF RestOK, Services, HasLife
<1>4. PICK between \in SUBSET (mine \ before) :
        LET first == Failed(service, before)
            last == Failed(SessionRemoved(first), between)
            reset == /\ sessions # {} /\ service.connected
                     /\ first.silent # 0 \/ last.silent # 0
        IN
        /\ service' = IF sessions = {} THEN Failed(service, mine)
                      ELSE Failed(SessionRemoved(last), (mine \ before) \ between)
        /\ reports' = LostReports(mine, reset)
  BY <1>2 DEF LostReports
<1> DEFINE first == Failed(service, before)
           ended == SessionRemoved(first)
           last == Failed(ended, between)
           again == SessionRemoved(last)
           reset == /\ sessions # {} /\ service.connected
                    /\ first.silent # 0 \/ last.silent # 0
<1>5. HasLife(first) /\ SameLife(first, service)
  BY <1>3, LifeKept
<1>6. HasLife(ended) /\ SameLife(ended, first)
  BY <1>5, LifeKept
<1>7. HasLife(last) /\ SameLife(last, ended)
  BY <1>6, LifeKept
<1>8. HasLife(again) /\ SameLife(again, last)
  BY <1>7, LifeKept
<1>9. SameLife(Failed(again, (mine \ before) \ between), again) /\ SameLife(Failed(service, mine), service)
  BY <1>3, <1>8, LifeKept
<1>10. /\ service' \in {Failed(service, mine), Failed(again, (mine \ before) \ between)}
       /\ reports' = LostReports(mine, reset)
  BY <1>4
<1> HIDE DEF first, ended, last, again, reset, mine
<1>11. SameLife(service', service)
  BY <1>5, <1>6, <1>7, <1>8, <1>9, <1>10 DEF SameLife
<1>12. mine = IF service.connected THEN {t \in tracker.tracked : Authorized(t)} ELSE {}
  BY DEF mine
<1> QED
  BY <1>1, <1>10, <1>11, <1>12, Zenon

\* The tracker keeps the types.
LEMMA TrackerType ==
    ASSUME QueueOK, RestOK, IsFiniteSet(tracker.tracked), TrackerStep
    PROVE  QueueOK' /\ RestOK'
<1>1. \A t \in Transfers, n \in {1, -1} : /\ Counted(service, t, n) \in Services
                                          /\ Counted(service, t, n).connected = service.connected
  BY DEF RestOK, Counted, Services
<1>2. ASSUME NEW t \in Transfers, NEW b \in BOOLEAN, EmitCompleted(t, b)
      PROVE  /\ service' \in Services
             /\ agent' \in Agents /\ (agent'.open => agent'.note \in Transfers)
             /\ reports' \in [Transfers -> Reports]
  <2>1. /\ service' \in Services
    BY <1>1, <1>2 DEF EmitCompleted, Completed, RestOK
  <2>2. agent' \in Agents /\ (agent'.open => agent'.note \in Transfers)
    <3>1. agent' \in {agent, AgentWithout(t)}
      BY <1>2 DEF EmitCompleted
    <3> QED
      BY <3>1 DEF AgentWithout, RestOK, Agents
  <2>3. reports' \in [Transfers -> Reports]
    <3>1. reports \in [Transfers -> Reports]
      BY DEF RestOK
    <3>2. CASE service.connected /\ Authorized(t)
      <4>1. PICK moved \in BOOLEAN : reports' = [reports EXCEPT ![t].completed = @ + 1,
                                                  ![t].counted = @ /\ b /\ moved]
        BY <1>2, <3>2 DEF EmitCompleted
      <4>2. PICK c \in BOOLEAN : c = (reports[t].counted /\ b /\ moved)
        OBVIOUS
      <4>3. reports' = [reports EXCEPT ![t].completed = @ + 1, ![t].counted = c]
        BY <3>1, <4>1, <4>2
      <4> QED
        BY <3>1, <4>3, ReportUpdates
    <3>3. CASE ~(service.connected /\ Authorized(t))
      <4>1. reports' = [reports EXCEPT ![t].completed = @ + 1]
        BY <1>2, <3>3 DEF EmitCompleted
      <4>2. FALSE \in BOOLEAN
        OBVIOUS
      <4>3. [reports EXCEPT ![t].completed = @ + 1] \in [Transfers -> Reports]
        BY <3>1, <4>2, ReportUpdates
      <4> QED
        BY <4>1, <4>3
    <3> QED
      BY <3>2, <3>3
  <2> QED
    BY <2>1, <2>2, <2>3
<1>3. ASSUME OnObjectAdded
      PROVE  QueueOK' /\ RestOK'
  <2> DEFINE t == Head(queue).t
  <2>1. QueueOK' /\ t \in Transfers
    BY <1>3, Receives, MessageFields DEF OnObjectAdded, About
  <2>2. tracker' \in [made : BOOLEAN, tracked : SUBSET Transfers]
    BY <1>3, <2>1 DEF OnObjectAdded, RestOK
  <2>3. service' \in Services
    BY <1>1, <1>3, <2>1 DEF OnObjectAdded, RestOK
  <2>4. reports' \in [Transfers -> Reports]
    <3>1. CASE tracker.made
      <4>1. PICK c \in BOOLEAN : c = (service.connected /\ Authorized(t))
        OBVIOUS
      <4>2. reports' = [reports EXCEPT ![t].started = @ + 1, ![t].counted = c]
        BY <1>3, <3>1, <4>1 DEF OnObjectAdded
      <4> QED
        BY <2>1, <4>2, ReportUpdates DEF RestOK
    <3>2. CASE ~tracker.made
      BY <1>3, <3>2 DEF OnObjectAdded, RestOK
    <3> QED
      BY <3>1, <3>2
  <2> QED
    BY <1>3, <2>1, <2>2, <2>3, <2>4 DEF OnObjectAdded, RestOK
<1>4. ASSUME OnTransferStatus
      PROVE  QueueOK' /\ RestOK'
  <2> DEFINE t == Head(queue).t
  <2>1. QueueOK' /\ t \in Transfers /\ Head(queue).success \in BOOLEAN
    BY <1>4, Receives, MessageFields DEF OnTransferStatus, About
  <2>2. tracker' \in [made : BOOLEAN, tracked : SUBSET Transfers]
    <3>1. tracker' \in {tracker, Popped(t)}
      BY <1>4 DEF OnTransferStatus
    <3> QED
      BY <3>1 DEF Popped, RestOK
  <2>3. \/ UNCHANGED <<tracker, service, agent, reports>>
        \/ EmitCompleted(t, Head(queue).success)
    BY <1>4 DEF OnTransferStatus
  <2> QED
    BY <1>2, <1>4, <2>1, <2>2, <2>3 DEF OnTransferStatus, RestOK
<1>5. ASSUME OnObjectRemoved
      PROVE  QueueOK' /\ RestOK'
  <2> DEFINE t == Head(queue).t
  <2>1. QueueOK' /\ t \in Transfers
    BY <1>5, Receives, MessageFields DEF OnObjectRemoved, About
  <2>2. tracker' \in [made : BOOLEAN, tracked : SUBSET Transfers]
    <3>1. tracker' \in {tracker, Popped(t)}
      BY <1>5 DEF OnObjectRemoved
    <3> QED
      BY <3>1 DEF Popped, RestOK
  <2>3. \/ UNCHANGED <<tracker, service, agent, reports>>
        \/ EmitCompleted(t, FALSE)
    BY <1>5 DEF OnObjectRemoved
  <2> QED
    BY <1>2, <1>5, <2>1, <2>2, <2>3 DEF OnObjectRemoved, RestOK
<1>6. ASSUME OnSessionRemoved
      PROVE  QueueOK' /\ RestOK'
  <2>1. QueueOK'
    BY <1>6, Receives DEF OnSessionRemoved
  <2>2. service' \in Services
    BY <1>6, SessionFields DEF OnSessionRemoved, RestOK
  <2>3. reports' \in {reports, Uncounted}
    BY <1>6 DEF OnSessionRemoved, Uncounted
  <2>4. reports' \in [Transfers -> Reports]
    BY <2>3, NoneCounted DEF RestOK
  <2> QED
    BY <1>6, <2>1, <2>2, <2>4 DEF OnSessionRemoved, RestOK
<1>7. ASSUME OnObjectsLost
      PROVE  QueueOK' /\ RestOK'
  <2>1. QueueOK'
    BY <1>7, Receives DEF OnObjectsLost
  <2>2. PICK mine \in SUBSET tracker.tracked, reset \in BOOLEAN :
           /\ agent' = [agent EXCEPT !.transfers = @ \ mine]
           /\ reports' = LostReports(mine, reset) /\ service' \in Services
    BY <1>7, LostEffects
  <2>3. \A t \in Transfers : LostReports(mine, reset)[t] \in Reports
    <3> TAKE t \in Transfers
    <3>1. reports[t] \in Reports
      BY DEF RestOK
    <3>2. PICK n \in Nat : n = reports[t].completed + (IF t \in tracker.tracked THEN 1 ELSE 0)
      BY <3>1 DEF Reports
    <3>3. PICK c \in BOOLEAN : c = (reports[t].counted /\ t \notin mine /\ ~reset)
      OBVIOUS
    <3>4. LostReports(mine, reset)[t] = [reports[t] EXCEPT !.completed = n, !.counted = c]
      BY <3>2, <3>3 DEF LostReports
    <3> QED
      BY <3>1, <3>4 DEF Reports
  <2>4. reports' \in [Transfers -> Reports]
    BY <2>2, <2>3 DEF LostReports
  <2>5. tracker' \in [made : BOOLEAN, tracked : SUBSET Transfers]
    BY <1>7 DEF RestOK, OnObjectsLost
  <2>6. agent' \in Agents /\ (agent'.open => agent'.note \in Transfers)
    BY <2>2 DEF RestOK, Agents
  <2> QED
    BY <1>7, <2>1, <2>2, <2>4, <2>5, <2>6 DEF OnObjectsLost, RestOK
<1> QED
  BY <1>3, <1>4, <1>5, <1>6, <1>7 DEF TrackerStep

\* The agent keeps the types.
LEMMA AgentType ==
    ASSUME QueueOK, RestOK, AgentOK, AgentStep
    PROVE  QueueOK' /\ RestOK'
<1>1. TypeOK /\ agent.allowed = agent.timers
  BY TypeParts DEF AgentOK
<1>2. ASSUME NEW t \in Transfers, NEW how \in {"accepted", "refused"}, Reply(t, how)
      PROVE  /\ answers' \in [Transfers -> Nat]
             /\ auth' \in [Transfers -> {"none", "pending", "accepted", "refused", "over"}]
  BY <1>2 DEF Reply, RestOK
<1>3. ASSUME OnAuthorizePush
      PROVE  QueueOK' /\ RestOK'
  <2> DEFINE t == Head(queue).t
  <2>1. QueueOK' /\ t \in Transfers
    BY <1>3, Receives, MessageFields DEF OnAuthorizePush, About
  <2>2. /\ \/ agent' \in {agent, WithUnshownNote(agent), Accepted(agent, t)}
           \/ agent' = [agent EXCEPT !.note = t, !.open = TRUE]
        /\ Reply(t, "refused") \/ Reply(t, "accepted") \/ UNCHANGED <<auth, answers>>
        /\ UNCHANGED <<obexd, object, announced, tracker, service, reports, consent>>
        /\ bubble' \in BOOLEAN
    BY <1>3 DEF OnAuthorizePush, AskUser, AutoAccept, RestOK
  <2> HIDE DEF t
  <2>3. agent' \in Agents
    BY <1>1, <2>1, <2>2, AgentUpdates
  <2>4. agent'.open => agent'.note \in Transfers
    BY <2>1, <2>2 DEF RestOK, WithUnshownNote, Accepted, ClosedNote, Agents
  <2>5. /\ answers' \in [Transfers -> Nat]
        /\ auth' \in [Transfers -> {"none", "pending", "accepted", "refused", "over"}]
    BY <1>2, <2>1, <2>2 DEF RestOK
  <2> QED
    BY <2>1, <2>2, <2>3, <2>4, <2>5 DEF RestOK
<1>4. ASSUME OnCancel
      PROVE  QueueOK' /\ RestOK'
  <2>1. QueueOK'
    BY <1>4, Receives DEF OnCancel
  <2>2. agent' \in {agent, ClosedNote(agent)}
    BY <1>4 DEF OnCancel
  <2>3. agent' \in Agents /\ (agent'.open => agent'.note \in Transfers)
    BY <2>2 DEF RestOK, Agents, ClosedNote
  <2> QED
    BY <1>4, <2>1, <2>3 DEF OnCancel, RestOK
<1>5. ASSUME UserAccepts
      PROVE  QueueOK' /\ RestOK'
  <2> DEFINE t == agent.note
  <2>1. t \in Transfers /\ object[t].from \in Devices
    BY <1>5 DEF UserAccepts, RestOK
  <2>2. agent' = Accepted(agent, t) /\ Reply(t, "accepted") /\ consent' = consent \cup {object[t].from}
    BY <1>5 DEF UserAccepts
  <2> HIDE DEF t
  <2>3. agent' \in Agents
    BY <1>1, <2>1, <2>2, AgentUpdates
  <2>4. ~agent'.open
    BY <2>2 DEF RestOK, Accepted, ClosedNote, Agents
  <2> QED
    BY <1>2, <1>5, <2>1, <2>2, <2>3, <2>4 DEF UserAccepts, RestOK, QueueOK
<1>6. ASSUME UserRejects
      PROVE  QueueOK' /\ RestOK'
  <2> DEFINE t == agent.note
  <2>1. t \in Transfers
    BY <1>6 DEF UserRejects, RestOK
  <2>2. agent' = ClosedNote(agent) /\ Reply(t, "refused")
    BY <1>6 DEF UserRejects
  <2> HIDE DEF t
  <2>3. agent' \in Agents /\ ~agent'.open
    BY <2>2 DEF RestOK, Agents, ClosedNote
  <2> QED
    BY <1>2, <1>6, <2>1, <2>2, <2>3 DEF UserRejects, RestOK, QueueOK
<1>7. ASSUME NotificationClosed
      PROVE  QueueOK' /\ RestOK'
  BY <1>7 DEF NotificationClosed, RestOK, QueueOK, Agents
<1>8. ASSUME NEW d \in Devices, AllowanceEnds(d)
      PROVE  QueueOK' /\ RestOK'
  <2>1. agent.timers[d] \in Nat /\ agent.allowed[d] = agent.timers[d] /\ agent.timers[d] > 0
    BY <1>1, <1>8 DEF AllowanceEnds, RestOK, Agents
  <2>2. agent.timers[d] - 1 \in Nat /\ agent.allowed[d] - 1 \in Nat
    BY <2>1
  <2>3. agent' = [agent EXCEPT !.timers[d] = @ - 1, !.allowed[d] = @ - 1]
    BY <1>8 DEF AllowanceEnds
  <2>4. agent' \in Agents /\ agent'.open = agent.open /\ agent'.note = agent.note
    BY <2>2, <2>3 DEF RestOK, Agents
  <2> QED
    BY <1>8, <2>4 DEF AllowanceEnds, RestOK, QueueOK
<1> QED
  BY <1>3, <1>4, <1>5, <1>6, <1>7, <1>8 DEF AgentStep

\* A new agent, and none.
LEMMA NewAgents == /\ NoAgent \in Agents /\ NewAgent \in Agents
                   /\ NewAgent.exists /\ NewAgent.note = NoNote /\ ~NewAgent.open /\ NewAgent.transfers = {}
                   /\ ~NoAgent.exists /\ NoAgent.note = NoNote /\ ~NoAgent.open /\ NoAgent.transfers = {}
                   /\ NewAgent.allowed = [d \in Devices |-> 0] /\ NewAgent.timers = NewAgent.allowed
                   /\ NoAgent.allowed = [d \in Devices |-> 0] /\ NoAgent.timers = NoAgent.allowed
BY DEF NoAgent, NewAgent, Agents

\* The plugin keeps the types.
LEMMA PluginType ==
    ASSUME QueueOK, RestOK, PluginStep
    PROVE  QueueOK' /\ RestOK'
<1>1. HalfDestroyed \in Agents /\ HalfDestroyed.open = agent.open /\ HalfDestroyed.note = agent.note
  BY DEF HalfDestroyed, RestOK, Agents
<1>2. Uncounted \in [Transfers -> Reports]
  BY NoneCounted DEF RestOK
<1> DEFINE Off == [loaded |-> FALSE, watching |-> FALSE, connected |-> FALSE, silent |-> 0, normal |-> 0]
           On == [loaded |-> TRUE, watching |-> TRUE, connected |-> FALSE, silent |-> 0, normal |-> 0]
           Plugins == {[service EXCEPT !.connected = FALSE], [service EXCEPT !.connected = TRUE],
                       [service EXCEPT !.connected = FALSE, !.silent = 0, !.normal = 0],
                       [service EXCEPT !.watching = FALSE, !.connected = FALSE], Off, On}
<1>10. Plugins \subseteq Services
  <2>1. 0 \in Int /\ service \in Services
    BY DEF RestOK
  <2>2. On \in Services
    BY DEF Services
  <2> QED
    BY <2>1, <2>2, ServiceUpdates
<1>3. ASSUME OnNameAppeared
      PROVE  QueueOK' /\ RestOK'
  <2>1. QueueOK'
    BY <1>3, Receives DEF OnNameAppeared
  <2>2. agent' \in {agent, NewAgent}
    BY <1>3 DEF OnNameAppeared
  <2>3. agent' \in Agents /\ (agent'.open => agent'.note \in Transfers)
    BY <2>2, NewAgents DEF RestOK
  <2>4. service' \in Services
    BY <1>3, <1>10 DEF OnNameAppeared
  <2> HIDE DEF Plugins
  <2> QED
    BY <1>3, <2>1, <2>3, <2>4 DEF OnNameAppeared, RestOK
<1>4. ASSUME OnNameVanished
      PROVE  QueueOK' /\ RestOK'
  <2>1. QueueOK'
    BY <1>4, Receives DEF OnNameVanished
  <2>2. agent' \in {HalfDestroyed, NoAgent} /\ reports' \in {reports, Uncounted}
    BY <1>4 DEF OnNameVanished
  <2>3. agent' \in Agents /\ (agent'.open => agent'.note \in Transfers)
    BY <1>1, <2>2, NewAgents DEF RestOK
  <2>4. reports' \in [Transfers -> Reports]
    BY <1>2, <2>2 DEF RestOK
  <2>5. service' \in Services
    BY <1>4, <1>10 DEF OnNameVanished
  <2>6. UNCHANGED <<bubble, obexd, object, auth, announced, tracker, answers, consent>>
    BY <1>4 DEF OnNameVanished
  <2> QED
    BY <2>1, <2>3, <2>4, <2>5, <2>6 DEF RestOK
<1>5. ASSUME Load
      PROVE  QueueOK' /\ RestOK'
  <2>1. [kind |-> IF obexd.up THEN "appeared" ELSE "vanished"] \in Messages
    BY MessagesSent DEF Others
  <2>2. QueueOK'
    BY <1>5, <2>1, Sends DEF Load
  <2>3. service' \in Services
    BY <1>5, <1>10 DEF Load
  <2> HIDE DEF Plugins
  <2> QED
    BY <1>5, <2>2, <2>3 DEF Load, RestOK
<1>6. ASSUME Unload
      PROVE  QueueOK' /\ RestOK'
  <2>1. QueueOK'
    BY <1>6, Filtered DEF Unload, QueueOK
  <2>2. agent' \in {HalfDestroyed, NoAgent} /\ reports' \in {reports, Uncounted}
    BY <1>6 DEF Unload
  <2>3. agent' \in Agents /\ (agent'.open => agent'.note \in Transfers)
    BY <1>1, <2>2, NewAgents DEF RestOK
  <2>4. reports' \in [Transfers -> Reports]
    BY <1>2, <2>2 DEF RestOK
  <2>5. service' \in Services
    BY <1>6, <1>10 DEF Unload
  <2>6. obexd' \in [up : BOOLEAN, registered : BOOLEAN, crashes : 0..MaxCrashes]
    BY <1>6 DEF Unload, RestOK
  <2>7. auth' \in [Transfers -> {"none", "pending", "accepted", "refused", "over"}]
    BY <1>6 DEF Unload, RestOK
  <2>8. UNCHANGED <<bubble, object, announced, tracker, answers, consent>>
    BY <1>6 DEF Unload
  <2> QED
    BY <2>1, <2>3, <2>4, <2>5, <2>6, <2>7, <2>8 DEF RestOK
<1> QED
  BY <1>3, <1>4, <1>5, <1>6 DEF PluginStep

\* No step does anything else.
LEMMA Typed ==
    ASSUME TypeOK, AgentOK, IsFiniteSet(tracker.tracked), [Next]_vars
    PROVE  TypeOK'
<1>1. QueueOK /\ RestOK
  BY TypeParts
<1>2. CASE UNCHANGED vars
  BY <1>2 DEF vars, TypeOK
<1>3. CASE Next
  <2>1. QueueOK' /\ RestOK'
    BY <1>1, <1>3, Steps, ObexdType, TrackerType, AgentType, PluginType
  <2> QED
    BY <2>1, TypeParts
<1> QED
  BY <1>2, <1>3

(***************************************************************************)
(* What the steps do, field by field.                                      *)
(***************************************************************************)
\* The queue loses its first s messages, s being 0 or 1.
Shifted(s) ==
    /\ Len(queue') = Len(queue) - s
    /\ \A i \in DOMAIN queue' : i + s \in DOMAIN queue /\ queue'[i] = queue[i + s]
    /\ \A i \in DOMAIN queue : i > s => i - s \in DOMAIN queue' /\ queue'[i - s] = queue[i]

\* It gets messages at its end.
Extended ==
    /\ Len(queue') >= Len(queue)
    /\ \A i \in DOMAIN queue : i \in DOMAIN queue' /\ queue'[i] = queue[i]

QueueDomain == Len(queue) \in Nat /\ DOMAIN queue = 1 .. Len(queue)

LEMMA Domains == (QueueOK => QueueDomain) /\ (QueueOK' => QueueDomain')
BY DEF QueueOK, QueueDomain

LEMMA Shifts ==
    ASSUME QueueOK
    PROVE  /\ UNCHANGED queue => Shifted(0) /\ Extended
           /\ \A k : Receive(k) => Shifted(1) /\ Is(1, k) /\ queue # <<>> /\ Head(queue) = queue[1]
<1>1. UNCHANGED queue => Shifted(0) /\ Extended
  BY Domains DEF Shifted, Extended, QueueDomain
<1>2. ASSUME NEW k, Receive(k)
      PROVE  Shifted(1) /\ Is(1, k) /\ queue # <<>> /\ Head(queue) = queue[1]
  <2>1. QueueOK'
    BY <1>2, Receives
  <2> QED
    BY <1>2, <2>1, Receives, Domains DEF Shifted, Is, QueueDomain, Receive
<1> QED
  BY <1>1, <1>2

LEMMA AgentFields ==
    ASSUME agent \in Agents, NEW t \in Transfers
    PROVE  /\ LET a == ClosedNote(agent) IN
              /\ a.note = NoNote /\ a.open = FALSE /\ a.exists = agent.exists /\ a.transfers = agent.transfers
              /\ a.allowed = agent.allowed /\ a.timers = agent.timers
           /\ LET a == Accepted(agent, t) IN
              /\ a.note = NoNote /\ a.open = FALSE /\ a.exists = agent.exists
              /\ a.transfers = agent.transfers \cup {t}
              /\ a.allowed = [agent.allowed EXCEPT ![object[t].from] = @ + 1]
              /\ a.timers = [agent.timers EXCEPT ![object[t].from] = @ + 1]
           /\ LET a == HalfDestroyed IN
              /\ a.note = agent.note /\ a.open = agent.open /\ a.exists = agent.exists
              /\ a.transfers = agent.transfers
              /\ a.allowed = [d \in Devices |-> 0] /\ a.timers = [d \in Devices |-> 0]
           /\ LET a == WithUnshownNote(agent) IN
              /\ a.note = Unshown /\ a.open = FALSE /\ a.exists = agent.exists /\ a.transfers = agent.transfers
              /\ a.allowed = agent.allowed /\ a.timers = agent.timers
           /\ LET a == [agent EXCEPT !.note = t, !.open = TRUE] IN
              /\ a.note = t /\ a.open = TRUE /\ a.exists = agent.exists /\ a.transfers = agent.transfers
              /\ a.allowed = agent.allowed /\ a.timers = agent.timers
           /\ LET a == [agent EXCEPT !.open = FALSE] IN
              /\ a.note = agent.note /\ a.open = FALSE /\ a.exists = agent.exists
              /\ a.transfers = agent.transfers
              /\ a.allowed = agent.allowed /\ a.timers = agent.timers
BY DEF Agents, ClosedNote, Accepted, HalfDestroyed, WithUnshownNote

SameNote ==
    /\ agent'.exists = agent.exists /\ agent'.note = agent.note /\ agent'.open = agent.open
    /\ agent'.allowed = agent.allowed /\ agent'.timers = agent.timers
SamePlugin ==
    /\ service'.loaded = service.loaded /\ service'.watching = service.watching
    /\ service'.connected = service.connected

\* The completion of a transfer.
LEMMA EmitEffects ==
    ASSUME RestOK, NEW t \in Transfers, NEW b \in BOOLEAN, EmitCompleted(t, b)
    PROVE  /\ SameNote /\ SamePlugin
           /\ agent'.transfers \subseteq agent.transfers
           /\ agent.exists /\ service.connected => agent'.transfers = agent.transfers \ {t}
           /\ \/ agent' = agent
              \/ agent.exists
           /\ \A u \in Transfers :
                /\ reports'[u].started = reports[u].started
                /\ reports'[u].completed = IF u = t THEN reports[u].completed + 1 ELSE reports[u].completed
                /\ reports'[u].counted => reports[u].counted
<1>1. /\ agent' \in {agent, AgentWithout(t)}
      /\ Authorized(t) /\ service.connected => agent' = AgentWithout(t)
      /\ agent' = agent \/ Authorized(t)
      /\ ~Authorized(t) => agent' = agent
  BY DEF EmitCompleted
<1>2. /\ SameNote /\ agent'.transfers \subseteq agent.transfers
      /\ agent' = AgentWithout(t) => agent'.transfers = agent.transfers \ {t}
  BY <1>1 DEF RestOK, Agents, AgentWithout, SameNote
<1>3. SamePlugin
  BY DEF EmitCompleted, RestOK, Services, SamePlugin, Completed, Counted
<1>4. ASSUME NEW u \in Transfers
      PROVE  /\ reports'[u].started = reports[u].started
             /\ reports'[u].completed = IF u = t THEN reports[u].completed + 1 ELSE reports[u].completed
             /\ reports'[u].counted => reports[u].counted
  BY DEF EmitCompleted, RestOK, Reports
<1>5. agent.exists /\ service.connected => agent'.transfers = agent.transfers \ {t}
  <2>1. CASE Authorized(t)
    BY <1>1, <1>2, <2>1
  <2>2. CASE ~Authorized(t)
    BY <1>1, <2>2 DEF Authorized
  <2> QED
    BY <2>1, <2>2
<1> QED
  BY <1>1, <1>2, <1>3, <1>4, <1>5 DEF Authorized

LEMMA TrackerEffects ==
    ASSUME QueueOK, RestOK, TrackerStep
    PROVE  /\ SameNote /\ SamePlugin /\ tracker'.made = tracker.made
           /\ agent'.transfers \subseteq agent.transfers
           /\ agent' = agent \/ agent.exists
           /\ UNCHANGED <<bubble, obexd, object, auth, announced, answers, consent>>
           /\ Shifted(1) /\ QueueDomain /\ QueueDomain'
           /\ \E k \in {"added", "status", "removed", "lost", "session"} : Is(1, k)
           /\ \A t \in tracker'.tracked : t \in tracker.tracked \/ At(1, "added", t)
<1> DEFINE Goal == /\ SameNote /\ SamePlugin /\ tracker'.made = tracker.made
                   /\ agent'.transfers \subseteq agent.transfers
                   /\ agent' = agent \/ agent.exists
                   /\ \A t \in tracker'.tracked : t \in tracker.tracked \/ At(1, "added", t)
<1>1. PICK k \in {"added", "status", "removed", "lost", "session"} : Receive(k)
  BY DEF TrackerStep, OnObjectAdded, OnTransferStatus, OnObjectRemoved, OnObjectsLost, OnSessionRemoved
<1>2. /\ Shifted(1) /\ QueueDomain /\ QueueDomain' /\ Is(1, k) /\ Head(queue) = queue[1]
  BY <1>1, Receives, Shifts, Domains
<1>3. UNCHANGED <<bubble, obexd, object, auth, announced, answers, consent>>
  BY DEF TrackerStep, OnObjectAdded, OnTransferStatus, OnObjectRemoved, OnObjectsLost, OnSessionRemoved
<1>4. ASSUME OnObjectAdded
      PROVE  Goal
  <2> DEFINE t == Head(queue).t
  <2>1. At(1, "added", t) /\ t \in Transfers
    BY <1>2, <1>4, Receives, MessageFields DEF OnObjectAdded, About, At, Receive
  <2>2. SamePlugin
    BY <1>4 DEF OnObjectAdded, Counted, RestOK, Services, SamePlugin
  <2>3. tracker'.made = tracker.made /\ tracker'.tracked \subseteq tracker.tracked \cup {t}
    BY <1>4 DEF OnObjectAdded, RestOK
  <2> QED
    BY <1>4, <2>1, <2>2, <2>3 DEF OnObjectAdded, SameNote
<1>5. ASSUME NEW t \in Transfers, NEW b \in BOOLEAN,
             IF t \in tracker.tracked THEN tracker' = Popped(t) /\ EmitCompleted(t, b)
             ELSE UNCHANGED <<tracker, service, agent, reports>>
      PROVE  Goal
  <2>1. CASE t \in tracker.tracked
    <3>1. tracker'.made = tracker.made /\ tracker'.tracked \subseteq tracker.tracked
      BY <1>5, <2>1 DEF Popped, RestOK
    <3> QED
      BY <1>5, <2>1, <3>1, EmitEffects
  <2>2. CASE t \notin tracker.tracked
    BY <1>5, <2>2 DEF SameNote, SamePlugin
  <2> QED
    BY <2>1, <2>2
<1>6. ASSUME OnTransferStatus
      PROVE  Goal
  <2>1. Head(queue).t \in Transfers /\ Head(queue).success \in BOOLEAN
    BY <1>6, Receives, MessageFields DEF OnTransferStatus, About
  <2> QED
    BY <1>5, <1>6, <2>1 DEF OnTransferStatus
<1>7. ASSUME OnObjectRemoved
      PROVE  Goal
  <2>1. Head(queue).t \in Transfers
    BY <1>7, Receives, MessageFields DEF OnObjectRemoved, About
  <2> QED
    BY <1>5, <1>7, <2>1 DEF OnObjectRemoved
<1>8. ASSUME OnObjectsLost
      PROVE  Goal
  <2>1. PICK mine : /\ agent' = [agent EXCEPT !.transfers = @ \ mine]
                    /\ mine = IF service.connected THEN {t \in tracker.tracked : Authorized(t)} ELSE {}
                    /\ SameLife(service', service)
    BY <1>8, LostKeeps
  <2>2. SameNote /\ agent'.transfers \subseteq agent.transfers
    BY <2>1 DEF RestOK, Agents, SameNote
  <2>3. agent' = agent \/ agent.exists
    <3>1. CASE ~agent.exists
      <4>1. mine = {}
        BY <2>1, <3>1 DEF Authorized
      <4> QED
        BY <2>1, <4>1 DEF RestOK, Agents
    <3> QED
      BY <3>1
  <2>4. SamePlugin
    BY <2>1 DEF SamePlugin, SameLife
  <2>5. tracker'.made = tracker.made /\ tracker'.tracked = {}
    BY <1>8 DEF OnObjectsLost, RestOK
  <2> QED
    BY <2>2, <2>3, <2>4, <2>5
<1>9. ASSUME OnSessionRemoved
      PROVE  Goal
  <2>1. SamePlugin
    BY <1>9, SessionFields DEF OnSessionRemoved, RestOK, SamePlugin, SameLife
  <2> QED
    BY <1>9, <2>1 DEF OnSessionRemoved, SameNote
<1> QED
  BY <1>1, <1>2, <1>3, <1>4, <1>6, <1>7, <1>8, <1>9 DEF TrackerStep

\* The notification becomes n, on the screen or not, and nothing else of the agent changes but what
\* it lets through.
NoteIs(n, o) == agent'.exists = agent.exists /\ agent'.note = n /\ agent'.open = o
Keeps == agent'.transfers = agent.transfers /\ agent'.allowed = agent.allowed /\ agent'.timers = agent.timers
Lets(t) ==
    /\ agent'.transfers = agent.transfers \cup {t}
    /\ agent'.allowed = [agent.allowed EXCEPT ![object[t].from] = @ + 1]
    /\ agent'.timers = [agent.timers EXCEPT ![object[t].from] = @ + 1]

Authorizes(t) ==
    /\ Shifted(1) /\ At(1, "authorize", t) /\ UNCHANGED consent
    /\ \/ /\ ~agent.exists \/ ~Readable(t) \/ CloseRaises
          /\ Reply(t, "refused") /\ UNCHANGED agent
       \/ /\ agent.exists /\ Readable(t) /\ ~CloseRaises
          /\ \/ /\ ~MayPush(object[t].from) /\ NoteIs(t, TRUE) /\ Keeps
                /\ UNCHANGED <<auth, answers>>
             \/ Reply(t, "refused") /\ NoteIs(Unshown, FALSE) /\ Keeps
             \/ /\ MayPush(object[t].from)
                /\ Reply(t, "accepted") /\ NoteIs(NoNote, FALSE) /\ Lets(t)
Cancels ==
    /\ Shifted(1) /\ Is(1, "cancel") /\ UNCHANGED <<auth, answers, consent>>
    /\ \/ agent.exists /\ ~CloseRaises /\ NoteIs(NoNote, FALSE) /\ Keeps
       \/ (~agent.exists \/ CloseRaises) /\ UNCHANGED agent
Clicks(t) ==
    /\ UNCHANGED queue /\ agent.open /\ agent.note = t /\ NoteIs(NoNote, FALSE)
    /\ \/ Lets(t) /\ Reply(t, "accepted") /\ consent' = consent \cup {object[t].from}
       \/ Keeps /\ Reply(t, "refused") /\ UNCHANGED consent
Expires ==
    /\ UNCHANGED <<bubble, queue, auth, answers, consent>>
    /\ \/ bubble /\ agent.open /\ NoteIs(agent.note, FALSE) /\ Keeps
       \/ \E d \in Devices :
             /\ agent.timers[d] > 0 /\ NoteIs(agent.note, agent.open)
             /\ agent'.transfers = agent.transfers
             /\ agent'.allowed = [agent.allowed EXCEPT ![d] = @ - 1]
             /\ agent'.timers = [agent.timers EXCEPT ![d] = @ - 1]

LEMMA AgentEffects ==
    ASSUME QueueOK, RestOK, AgentStep
    PROVE  /\ UNCHANGED <<obexd, object, announced, tracker, service, reports>>
           /\ QueueDomain /\ QueueDomain'
           /\ \/ \E t \in Transfers : Authorizes(t) \/ Clicks(t)
              \/ Cancels \/ Expires
<1>1. UNCHANGED <<obexd, object, announced, tracker, service, reports>>
  BY DEF AgentStep, OnAuthorizePush, OnCancel, UserAccepts, UserRejects, NotificationClosed, AllowanceEnds
<1>2. agent \in Agents /\ (agent.open => agent.note \in Transfers)
  BY DEF RestOK
<1>3. ASSUME OnAuthorizePush
      PROVE  QueueDomain' /\ \E t \in Transfers : Authorizes(t)
  <2> DEFINE t == Head(queue).t
  <2>1. t \in Transfers
    BY <1>3, Receives, MessageFields DEF OnAuthorizePush, About
  <2>2. Shifted(1) /\ At(1, "authorize", t) /\ QueueDomain'
    BY <1>3, Shifts, Receives, Domains DEF OnAuthorizePush, At, Is
  <2>3. UNCHANGED consent
    BY <1>3 DEF OnAuthorizePush
  <2>4. \/ /\ ~agent.exists \/ ~Readable(t) \/ CloseRaises
           /\ Reply(t, "refused") /\ UNCHANGED agent
        \/ /\ agent.exists /\ Readable(t) /\ ~CloseRaises
           /\ \/ /\ ~MayPush(object[t].from)
                 /\ agent' = [agent EXCEPT !.note = t, !.open = TRUE]
                 /\ UNCHANGED <<auth, answers>>
              \/ Reply(t, "refused") /\ agent' = WithUnshownNote(agent)
              \/ /\ MayPush(object[t].from)
                 /\ Reply(t, "accepted") /\ agent' = Accepted(agent, t)
    BY <1>3 DEF OnAuthorizePush, AskUser, AutoAccept
  <2> HIDE DEF t
  <2>5. /\ agent' = [agent EXCEPT !.note = t, !.open = TRUE] => NoteIs(t, TRUE) /\ Keeps
        /\ agent' = WithUnshownNote(agent) => NoteIs(Unshown, FALSE) /\ Keeps
        /\ agent' = Accepted(agent, t) => NoteIs(NoNote, FALSE) /\ Lets(t)
    <3>1. ASSUME agent' = [agent EXCEPT !.note = t, !.open = TRUE]
          PROVE  NoteIs(t, TRUE) /\ Keeps
      BY <1>2, <2>1, <3>1, AgentFields DEF NoteIs, Keeps
    <3>2. ASSUME agent' = WithUnshownNote(agent)
          PROVE  NoteIs(Unshown, FALSE) /\ Keeps
      BY <1>2, <2>1, <3>2, AgentFields DEF NoteIs, Keeps
    <3>3. ASSUME agent' = Accepted(agent, t)
          PROVE  NoteIs(NoNote, FALSE) /\ Lets(t)
      BY <1>2, <2>1, <3>3, AgentFields DEF NoteIs, Lets
    <3> QED
      BY <3>1, <3>2, <3>3
  <2>6. Authorizes(t)
    BY <2>2, <2>3, <2>4, <2>5 DEF Authorizes
  <2> QED
    BY <2>1, <2>2, <2>6
<1>4. ASSUME OnCancel
      PROVE  QueueDomain' /\ Cancels
  <2>1. Shifted(1) /\ Is(1, "cancel") /\ QueueDomain'
    BY <1>4, Shifts, Receives, Domains DEF OnCancel
  <2>2. /\ ClosedNote(agent).note = NoNote /\ ClosedNote(agent).open = FALSE
        /\ ClosedNote(agent).exists = agent.exists /\ ClosedNote(agent).transfers = agent.transfers
        /\ ClosedNote(agent).allowed = agent.allowed /\ ClosedNote(agent).timers = agent.timers
    BY <1>2 DEF Agents, ClosedNote
  <2> QED
    BY <1>4, <2>1, <2>2 DEF OnCancel, Cancels, NoteIs, Keeps
<1>5. ASSUME UserAccepts
      PROVE  QueueDomain' /\ \E t \in Transfers : Clicks(t)
  <2>1. agent.note \in Transfers /\ QueueDomain'
    BY <1>2, <1>5, Domains DEF UserAccepts, QueueDomain
  <2>2. NoteIs(NoNote, FALSE) /\ Lets(agent.note)
    BY <1>2, <1>5, <2>1, AgentFields DEF UserAccepts, NoteIs, Lets
  <2> QED
    BY <1>5, <2>1, <2>2 DEF UserAccepts, Clicks
<1>6. ASSUME UserRejects
      PROVE  QueueDomain' /\ \E t \in Transfers : Clicks(t)
  <2>1. agent.note \in Transfers /\ QueueDomain'
    BY <1>2, <1>6, Domains DEF UserRejects, QueueDomain
  <2>2. NoteIs(NoNote, FALSE) /\ Keeps
    BY <1>2, <1>6, <2>1, AgentFields DEF UserRejects, NoteIs, Keeps
  <2> QED
    BY <1>6, <2>1, <2>2 DEF UserRejects, Clicks
<1>7. ASSUME NotificationClosed
      PROVE  QueueDomain' /\ Expires
  <2>1. agent.note \in Transfers /\ QueueDomain'
    BY <1>2, <1>7, Domains DEF NotificationClosed, QueueDomain
  <2>2. NoteIs(agent.note, FALSE) /\ Keeps
    BY <1>2, <1>7, <2>1, AgentFields DEF NotificationClosed, NoteIs, Keeps
  <2> QED
    BY <1>7, <2>1, <2>2 DEF NotificationClosed, Expires
<1>8. ASSUME NEW d \in Devices, AllowanceEnds(d)
      PROVE  QueueDomain' /\ Expires
  <2>1. QueueDomain'
    BY <1>8, Domains DEF AllowanceEnds, QueueDomain
  <2>2. /\ NoteIs(agent.note, agent.open) /\ agent'.transfers = agent.transfers
        /\ agent'.allowed = [agent.allowed EXCEPT ![d] = @ - 1]
        /\ agent'.timers = [agent.timers EXCEPT ![d] = @ - 1]
    BY <1>2, <1>8 DEF AllowanceEnds, Agents, NoteIs
  <2> QED
    BY <1>8, <2>1, <2>2 DEF AllowanceEnds, Expires
<1> QED
  BY <1>1, <1>3, <1>4, <1>5, <1>6, <1>7, <1>8, Domains DEF AgentStep

\* A reply.
LEMMA Replies ==
    ASSUME RestOK, NEW t \in Transfers, NEW how \in {"accepted", "refused"}, Reply(t, how)
    PROVE  \A u \in Transfers :
             /\ answers'[u] = IF u = t THEN answers[u] + 1 ELSE answers[u]
             /\ auth'[u] = IF u = t /\ auth[u] = "pending" THEN how ELSE auth[u]
BY DEF RestOK, Reply

\* A message is sent, or two when obexd dies and the plugin watches its name.
SentOne(m) ==
    /\ Extended /\ Len(queue') = Len(queue) + 1 /\ DOMAIN queue' = DOMAIN queue \cup {Len(queue) + 1}
    /\ queue'[Len(queue) + 1] = m
SentTwo(k, l) ==
    /\ Extended /\ Len(queue') = Len(queue) + 2
    /\ DOMAIN queue' = DOMAIN queue \cup {Len(queue) + 1, Len(queue) + 2}
    /\ queue'[Len(queue) + 1] = [kind |-> k] /\ queue'[Len(queue) + 2] = [kind |-> l]

LEMMA Sendings ==
    ASSUME QueueOK, Room, NEW m \in Messages, Send(m)
    PROVE  SentOne(m) /\ QueueDomain /\ QueueDomain'
<1>1. QueueDomain /\ QueueDomain'
  BY Sends, Domains
<1>2. /\ Len(queue') = Len(queue) + 1 /\ DOMAIN queue' = DOMAIN queue \cup {Len(queue) + 1}
      /\ queue'[Len(queue) + 1] = m /\ \A i \in DOMAIN queue : queue'[i] = queue[i]
  BY Sends
<1>3. Extended
  BY <1>1, <1>2 DEF Extended, QueueDomain
<1> QED
  BY <1>1, <1>2, <1>3 DEF SentOne

LEMMA SendingsTwo ==
    ASSUME QueueOK, Len(queue) + 2 <= MaxQueue, NEW k \in Others, NEW l \in Others,
           queue' = queue \o <<[kind |-> k], [kind |-> l]>>
    PROVE  SentTwo(k, l) /\ QueueDomain /\ QueueDomain'
<1>1. [kind |-> k] \in Messages /\ [kind |-> l] \in Messages
  BY MessagesSent
<1> QED
  BY <1>1, SendsTwo, Domains DEF SentTwo, Extended, QueueDomain

\* What the queue gets when obexd dies or starts again.
LEMMA CrashQueue ==
    ASSUME QueueOK, RestOK, Crash
    PROVE  /\ \/ service.watching /\ (SentTwo("lost", "vanished") \/ SentTwo("vanished", "lost"))
              \/ ~service.watching /\ SentOne([kind |-> "lost"])
           /\ \A i \in DOMAIN queue' :
                \/ i \in DOMAIN queue /\ queue'[i] = queue[i]
                \/ i \notin DOMAIN queue /\ queue'[i] \in {[kind |-> "lost"], [kind |-> "vanished"]}
<1>1. \/ service.watching /\ (SentTwo("lost", "vanished") \/ SentTwo("vanished", "lost"))
      \/ ~service.watching /\ SentOne([kind |-> "lost"])
  <2>1. CASE service.watching
    <3>1. \/ queue' = queue \o <<[kind |-> "lost"], [kind |-> "vanished"]>>
          \/ queue' = queue \o <<[kind |-> "vanished"], [kind |-> "lost"]>>
      BY <2>1 DEF Crash
    <3>2. "lost" \in Others /\ "vanished" \in Others /\ Len(queue) + 2 <= MaxQueue
      BY DEF Crash, Others
    <3> QED
      BY <2>1, <3>1, <3>2, SendingsTwo
  <2>2. CASE ~service.watching
    <3>1. Room /\ Send([kind |-> "lost"])
      BY <2>2, Constants DEF Crash, Room, QueueOK
    <3> QED
      BY <2>2, <3>1, MessagesSent, Sendings DEF Others
  <2> QED
    BY <2>1, <2>2
<1>2. QueueDomain
  BY Domains
<1> QED
  BY <1>1, <1>2 DEF SentOne, SentTwo, Extended, QueueDomain

LEMMA RestartQueue ==
    ASSUME QueueOK, RestOK, Restart
    PROVE  \/ service.watching /\ SentOne([kind |-> "appeared"])
           \/ ~service.watching /\ UNCHANGED queue
BY MessagesSent, Sendings DEF Restart, Others

ObexdSame ==
    UNCHANGED <<bubble, tracker, service, agent, answers, reports, consent>>

\* What obexd does.
LEMMA ObexdEffects ==
    ASSUME QueueOK, RestOK, ObexdStep
    PROVE  /\ ObexdSame /\ QueueDomain /\ QueueDomain'
           /\ \/ \E t \in Transfers, d \in Devices, large \in BOOLEAN :
                    ExportTransfer(t, d, large) /\ UNCHANGED queue
              \/ \E t \in Transfers : Announce(t) /\ SentOne([kind |-> "added", t |-> t])
              \/ \E t \in Transfers : Ask(t) /\ SentOne([kind |-> "authorize", t |-> t])
              \/ \E t \in Transfers : GiveUp(t) /\ SentOne([kind |-> "cancel", t |-> t])
              \/ \E t \in Transfers : RemoveTransfer(t) /\ SentOne([kind |-> "removed", t |-> t])
              \/ \E t \in Transfers, b \in BOOLEAN :
                    EndTransfer(t, b) /\ SentOne([kind |-> "status", t |-> t, success |-> b])
              \/ \E d \in Devices : EndSession(d) /\ SentOne([kind |-> "session"])
              \/ /\ Crash
                 /\ \/ service.watching /\ (SentTwo("lost", "vanished") \/ SentTwo("vanished", "lost"))
                    \/ ~service.watching /\ SentOne([kind |-> "lost"])
              \/ /\ Restart
                 /\ \/ service.watching /\ SentOne([kind |-> "appeared"])
                    \/ ~service.watching /\ UNCHANGED queue
              \/ Unheard /\ Shifted(1) /\ Is(1, "unheard")
<1>1. ObexdSame
  BY DEF ObexdStep, ObexdSame, AppletUnchanged, Announce, Ask, GiveUp, RemoveTransfer, ExportTransfer,
         EndTransfer, EndSession, Crash, Restart, Unheard
<1>2. QueueDomain /\ QueueDomain'
  BY ObexdType, Domains
<1>3. ASSUME NEW t \in Transfers, Announce(t)
      PROVE  SentOne([kind |-> "added", t |-> t])
  BY <1>3, MessagesSent, Sendings DEF Announce, About
<1>4. ASSUME NEW t \in Transfers, Ask(t)
      PROVE  SentOne([kind |-> "authorize", t |-> t])
  BY <1>4, MessagesSent, Sendings DEF Ask, About
<1>5. ASSUME NEW t \in Transfers, GiveUp(t)
      PROVE  SentOne([kind |-> "cancel", t |-> t])
  BY <1>5, MessagesSent, Sendings DEF GiveUp, About
<1>6. ASSUME NEW t \in Transfers, RemoveTransfer(t)
      PROVE  SentOne([kind |-> "removed", t |-> t])
  BY <1>6, MessagesSent, Sendings DEF RemoveTransfer, About
<1>7. ASSUME NEW t \in Transfers, NEW b \in BOOLEAN, EndTransfer(t, b)
      PROVE  SentOne([kind |-> "status", t |-> t, success |-> b])
  BY <1>7, MessagesSent, Sendings DEF EndTransfer, About
<1>8. ASSUME NEW d \in Devices, EndSession(d)
      PROVE  SentOne([kind |-> "session"])
  BY <1>8, MessagesSent, Sendings DEF EndSession, Others
<1>9. ASSUME Crash
      PROVE  \/ service.watching /\ (SentTwo("lost", "vanished") \/ SentTwo("vanished", "lost"))
             \/ ~service.watching /\ SentOne([kind |-> "lost"])
  BY <1>9, CrashQueue
<1>10. ASSUME Restart
       PROVE  \/ service.watching /\ SentOne([kind |-> "appeared"])
              \/ ~service.watching /\ UNCHANGED queue
  BY <1>10, RestartQueue
<1>11. ASSUME Unheard
       PROVE  Shifted(1) /\ Is(1, "unheard")
  BY <1>11, Shifts DEF Unheard
<1>12. ASSUME NEW t \in Transfers, NEW d \in Devices, NEW large \in BOOLEAN, ExportTransfer(t, d, large)
       PROVE  UNCHANGED queue
  BY <1>12 DEF ExportTransfer
<1> QED
  BY <1>1, <1>2, <1>3, <1>4, <1>5, <1>6, <1>7, <1>8, <1>9, <1>10, <1>11, <1>12 DEF ObexdStep

\* The watch of the name is gone, and what is on its way to it is not heard.
Muted ==
    /\ Len(queue') = Len(queue) /\ DOMAIN queue' = DOMAIN queue
    /\ \A i \in DOMAIN queue : queue[i].kind \notin {"appeared", "vanished"} => queue'[i] = queue[i]
    /\ \A i \in DOMAIN queue : queue[i].kind \in {"appeared", "vanished"} => queue'[i].kind = "unheard"

ServiceIs(l, w, c) == service'.loaded = l /\ service'.watching = w /\ service'.connected = c
Reset == service'.silent = 0 /\ service'.normal = 0 /\ reports' = Uncounted
SameCounts == service'.silent = service.silent /\ service'.normal = service.normal /\ reports' = reports

\* The agent cannot close its notification and is half destroyed, or it is gone.
Destroyed ==
    \/ /\ agent.exists /\ CloseRaises /\ agent'.exists /\ agent'.note = agent.note
       /\ agent'.open = agent.open /\ agent'.transfers = agent.transfers
       /\ agent'.allowed = [d \in Devices |-> 0] /\ agent'.timers = [d \in Devices |-> 0]
    \/ ~(agent.exists /\ CloseRaises) /\ agent' = NoAgent

Appears ==
    /\ Shifted(1) /\ Is(1, "appeared") /\ UNCHANGED <<auth, reports>>
    /\ tracker'.tracked = tracker.tracked /\ obexd'.up = obexd.up
    /\ \/ /\ ~tracker.made /\ UNCHANGED <<tracker, agent>>
          /\ ServiceIs(service.loaded, service.watching, FALSE) /\ SameCounts
       \/ /\ tracker'.made /\ agent' = (IF agent.exists THEN agent ELSE NewAgent)
          /\ ServiceIs(service.loaded, service.watching, TRUE) /\ SameCounts

Vanishes ==
    /\ Shifted(1) /\ Is(1, "vanished") /\ UNCHANGED <<auth, obexd, tracker>>
    /\ Destroyed /\ ServiceIs(service.loaded, service.watching, FALSE)
    /\ \/ agent.exists /\ CloseRaises /\ SameCounts
       \/ ~(agent.exists /\ CloseRaises) /\ Reset

Loads ==
    /\ SentOne([kind |-> IF obexd.up THEN "appeared" ELSE "vanished"])
    /\ UNCHANGED <<auth, obexd, tracker, agent, reports>>
    /\ ~service.loaded /\ ServiceIs(TRUE, TRUE, FALSE)
    /\ service'.silent = 0 /\ service'.normal = 0

Unloads ==
    /\ Muted /\ UNCHANGED tracker /\ obexd'.up = obexd.up
    /\ Destroyed
    /\ \/ /\ agent.exists /\ CloseRaises /\ UNCHANGED auth /\ SameCounts
          /\ ServiceIs(TRUE, FALSE, FALSE)
       \/ /\ ~(agent.exists /\ CloseRaises) /\ Reset /\ ServiceIs(FALSE, FALSE, FALSE)
          /\ \A t \in Transfers : auth'[t] = IF agent.exists /\ auth[t] = "pending" THEN "over" ELSE auth[t]

LEMMA PluginEffects ==
    ASSUME QueueOK, RestOK, PluginStep
    PROVE  /\ UNCHANGED <<bubble, object, announced, answers, consent>>
           /\ QueueDomain /\ QueueDomain'
           /\ Appears \/ Vanishes \/ Loads \/ Unloads
<1>1. UNCHANGED <<bubble, object, announced, answers, consent>>
  BY DEF PluginStep, OnNameAppeared, OnNameVanished, Load, Unload
<1>2. QueueDomain /\ QueueDomain'
  BY PluginType, Domains
<1>3. HalfDestroyed.note = agent.note /\ HalfDestroyed.open = agent.open /\ HalfDestroyed.exists = agent.exists
      /\ HalfDestroyed.transfers = agent.transfers
      /\ HalfDestroyed.allowed = [d \in Devices |-> 0] /\ HalfDestroyed.timers = [d \in Devices |-> 0]
  BY DEF RestOK, Agents, HalfDestroyed
<1>4. service \in Services
  BY DEF RestOK
<1>5. ASSUME OnNameAppeared
      PROVE  Appears
  <2>1. Shifted(1) /\ Is(1, "appeared")
    BY <1>5, Shifts DEF OnNameAppeared
  <2>2. CASE ~tracker.made /\ service' = [service EXCEPT !.connected = FALSE] /\ UNCHANGED <<tracker, agent, obexd>>
    <3>1. ServiceIs(service.loaded, service.watching, FALSE) /\ SameCounts
      BY <1>4, <1>5, <2>2 DEF Services, ServiceIs, SameCounts, OnNameAppeared
    <3> QED
      BY <1>5, <2>1, <2>2, <3>1 DEF OnNameAppeared, Appears
  <2>3. CASE /\ tracker' = [tracker EXCEPT !.made = TRUE]
             /\ service' = [service EXCEPT !.connected = TRUE]
             /\ agent' = (IF agent.exists THEN agent ELSE NewAgent)
             /\ obexd' = [obexd EXCEPT !.registered = obexd.up]
    <3>1. ServiceIs(service.loaded, service.watching, TRUE) /\ SameCounts
      BY <1>4, <1>5, <2>3 DEF Services, ServiceIs, SameCounts, OnNameAppeared
    <3>2. tracker'.tracked = tracker.tracked /\ tracker'.made /\ obexd'.up = obexd.up
      BY <2>3 DEF RestOK
    <3> QED
      BY <1>5, <2>1, <2>3, <3>1, <3>2 DEF OnNameAppeared, Appears
  <2> QED
    BY <1>5, <2>2, <2>3 DEF OnNameAppeared
<1>6. ASSUME OnNameVanished
      PROVE  Vanishes
  <2>1. Shifted(1) /\ Is(1, "vanished")
    BY <1>6, Shifts DEF OnNameVanished
  <2>2. CASE agent.exists /\ CloseRaises
    <3>1. service' = [service EXCEPT !.connected = FALSE] /\ agent' = HalfDestroyed /\ reports' = reports
      BY <1>6, <2>2 DEF OnNameVanished
    <3>2. ServiceIs(service.loaded, service.watching, FALSE) /\ SameCounts
      BY <1>4, <3>1 DEF Services, ServiceIs, SameCounts
    <3> QED
      BY <1>3, <1>6, <2>1, <2>2, <3>1, <3>2 DEF OnNameVanished, Vanishes, Destroyed
  <2>3. CASE ~(agent.exists /\ CloseRaises)
    <3>1. /\ service' = [service EXCEPT !.connected = FALSE, !.silent = 0, !.normal = 0]
          /\ agent' = NoAgent /\ reports' = Uncounted
      BY <1>6, <2>3 DEF OnNameVanished
    <3>2. ServiceIs(service.loaded, service.watching, FALSE) /\ Reset
      BY <1>4, <3>1 DEF Services, ServiceIs, Reset
    <3> QED
      BY <1>6, <2>1, <2>3, <3>1, <3>2 DEF OnNameVanished, Vanishes, Destroyed
  <2> QED
    BY <2>2, <2>3
<1>7. ASSUME Load
      PROVE  Loads
  <2>1. [kind |-> IF obexd.up THEN "appeared" ELSE "vanished"] \in Messages
    BY MessagesSent DEF Others
  <2>2. SentOne([kind |-> IF obexd.up THEN "appeared" ELSE "vanished"])
    BY <1>7, <2>1, Sendings DEF Load
  <2>3. ServiceIs(TRUE, TRUE, FALSE) /\ service'.silent = 0 /\ service'.normal = 0
    BY <1>7 DEF Load, ServiceIs
  <2> QED
    BY <1>7, <2>2, <2>3 DEF Load, Loads
<1>8. ASSUME Unload
      PROVE  Unloads
  <2>1. Muted
    BY <1>8, Filtered DEF Unload, Muted, QueueOK
  <2>2. service.loaded /\ UNCHANGED tracker
    BY <1>8 DEF Unload
  <2>3. CASE agent.exists /\ CloseRaises
    <3>1. service' = [service EXCEPT !.watching = FALSE, !.connected = FALSE] /\ agent' = HalfDestroyed
          /\ UNCHANGED <<obexd, auth, reports>>
      BY <1>8, <2>3 DEF Unload
    <3>2. ServiceIs(TRUE, FALSE, FALSE) /\ SameCounts
      BY <1>4, <2>2, <3>1 DEF Services, ServiceIs, SameCounts
    <3> QED
      BY <1>3, <2>1, <2>2, <2>3, <3>1, <3>2 DEF Unloads, Destroyed
  <2>4. CASE ~(agent.exists /\ CloseRaises)
    <3>1. /\ service' = [loaded |-> FALSE, watching |-> FALSE, connected |-> FALSE, silent |-> 0, normal |-> 0]
          /\ agent' = NoAgent /\ reports' = Uncounted
          /\ obexd' = IF agent.exists THEN [obexd EXCEPT !.registered = FALSE] ELSE obexd
          /\ auth' = IF agent.exists
                     THEN [t \in Transfers |-> IF auth[t] = "pending" THEN "over" ELSE auth[t]] ELSE auth
      BY <1>8, <2>4 DEF Unload
    <3>2. ServiceIs(FALSE, FALSE, FALSE) /\ Reset
      BY <3>1 DEF ServiceIs, Reset
    <3>3. obexd'.up = obexd.up
      BY <3>1 DEF RestOK
    <3>4. \A t \in Transfers : auth'[t] = IF agent.exists /\ auth[t] = "pending" THEN "over" ELSE auth[t]
      BY <3>1
    <3> QED
      BY <2>1, <2>2, <2>4, <3>1, <3>2, <3>3, <3>4 DEF Unloads, Destroyed
  <2> QED
    BY <2>3, <2>4
<1> QED
  BY <1>1, <1>2, <1>5, <1>6, <1>7, <1>8 DEF PluginStep

(***************************************************************************)
(* The parts, step by step.                                                *)
(***************************************************************************)
LEMMA AgentKept ==
    ASSUME QueueOK, RestOK, AgentOK, Next
    PROVE  AgentOK'
<1>1. CASE ObexdStep
  <2>1. ObexdSame /\ QueueDomain /\ QueueDomain'
    BY <1>1, ObexdEffects
  <2>2. ~service.watching => \A i \in DOMAIN queue' : queue'[i].kind \notin {"appeared", "vanished"}
    <3>1. ASSUME NEW m, SentOne(m), m.kind \notin {"appeared", "vanished"}, ~service.watching
          PROVE  \A i \in DOMAIN queue' : queue'[i].kind \notin {"appeared", "vanished"}
      BY <3>1 DEF SentOne, Extended, AgentOK
    <3>2. ASSUME Shifted(1), ~service.watching
          PROVE  \A i \in DOMAIN queue' : queue'[i].kind \notin {"appeared", "vanished"}
      BY <3>2 DEF Shifted, AgentOK
    <3> QED
      BY <1>1, <3>1, <3>2, ObexdEffects DEF AgentOK
  <2> QED
    BY <2>1, <2>2 DEF AgentOK, ObexdSame
<1>2. CASE TrackerStep
  BY <1>2, TrackerEffects DEF AgentOK, SameNote, SamePlugin, Shifted
<1>3. CASE AgentStep
  <2>1. /\ UNCHANGED <<obexd, object, announced, tracker, service, reports>>
        /\ \/ \E t \in Transfers : Authorizes(t) \/ Clicks(t)
           \/ Cancels \/ Expires
    BY <1>3, AgentEffects
  <2>2. \A i \in DOMAIN queue' : queue'[i].kind \in {"appeared", "vanished"} =>
            \E j \in DOMAIN queue : queue'[i].kind = queue[j].kind
    BY <2>1 DEF Authorizes, Clicks, Cancels, Expires, Shifted
  <2>3. /\ ~agent.exists => agent = NoAgent
        /\ NoAgent.open = FALSE /\ \A d \in Devices : NoAgent.timers[d] = 0
    BY NewAgents DEF AgentOK
  <2>4. ASSUME NEW t \in Transfers, Authorizes(t)
        PROVE  AgentOK'
    <3>1. CASE UNCHANGED agent
      BY <2>1, <2>2, <3>1 DEF AgentOK
    <3>2. CASE agent.exists /\ ~CloseRaises /\ NoteIs(t, TRUE) /\ Keeps
      BY <2>1, <2>2, <3>2, Constants DEF AgentOK, NoteIs, Keeps, CloseRaises
    <3>3. CASE agent.exists /\ ~CloseRaises /\ NoteIs(Unshown, FALSE) /\ Keeps
      BY <2>1, <2>2, <3>3, Constants DEF AgentOK, NoteIs, Keeps, CloseRaises
    <3>4. CASE agent.exists /\ ~CloseRaises /\ NoteIs(NoNote, FALSE) /\ Lets(t)
      BY <2>1, <2>2, <3>4, Constants DEF AgentOK, NoteIs, Lets, CloseRaises
    <3> QED
      BY <2>4, <3>1, <3>2, <3>3, <3>4 DEF Authorizes
  <2>5. ASSUME NEW t \in Transfers, Clicks(t)
        PROVE  AgentOK'
    <3>1. agent.exists /\ agent.note # Unshown
      BY <2>3, <2>5, Constants DEF Clicks
    <3>2. NoteIs(NoNote, FALSE) /\ (Lets(t) \/ Keeps)
      BY <2>5 DEF Clicks
    <3> QED
      BY <2>1, <2>2, <3>1, <3>2, Constants DEF AgentOK, NoteIs, Lets, Keeps
  <2>6. ASSUME Cancels
        PROVE  AgentOK'
    BY <2>1, <2>2, <2>6, Constants DEF AgentOK, Cancels, NoteIs, Keeps, CloseRaises
  <2>7. ASSUME Expires
        PROVE  AgentOK'
    <3>1. (agent.exists /\ NoteIs(agent.note, FALSE)) \/ NoteIs(agent.note, agent.open)
      BY <2>3, <2>7 DEF Expires
    <3>2. agent.exists
      <4>1. \A d \in Devices : ~(0 > 0)
        OBVIOUS
      <4> QED
        BY <2>3, <2>7, <4>1 DEF Expires
    <3>3. agent'.allowed = agent'.timers
      BY <2>7 DEF Expires, Keeps, AgentOK
    <3> QED
      BY <2>1, <2>2, <3>1, <3>2, <3>3 DEF AgentOK, NoteIs
  <2> QED
    BY <2>1, <2>4, <2>5, <2>6, <2>7
<1>4. CASE PluginStep
  <2>1. /\ UNCHANGED <<bubble, object, announced, answers, consent>>
        /\ Appears \/ Vanishes \/ Loads \/ Unloads
    BY <1>4, PluginEffects
  <2>2. ASSUME Appears
        PROVE  AgentOK'
    <3>1. service.watching /\ service.loaded
      BY <2>2 DEF AgentOK, Appears, Is
    <3> QED
      BY <2>1, <2>2, <3>1, NewAgents, Constants DEF AgentOK, Appears, ServiceIs
  <2>3. ASSUME Vanishes
        PROVE  AgentOK'
    <3>1. service.watching
      BY <2>3 DEF AgentOK, Vanishes, Is
    <3> QED
      BY <2>1, <2>3, <3>1, NewAgents, Constants DEF AgentOK, Vanishes, Destroyed, CloseRaises, ServiceIs
  <2>4. ASSUME Loads
        PROVE  AgentOK'
    BY <2>1, <2>4 DEF AgentOK, Loads, ServiceIs
  <2>5. ASSUME Unloads
        PROVE  AgentOK'
    <3>1. \A i \in DOMAIN queue' : queue'[i].kind \notin {"appeared", "vanished"}
      BY <2>5 DEF Unloads, Muted
    <3> QED
      BY <2>1, <2>5, <3>1, NewAgents, Constants DEF AgentOK, Unloads, Destroyed, CloseRaises, ServiceIs
  <2> QED
    BY <2>1, <2>2, <2>3, <2>4, <2>5
<1> QED
  BY <1>1, <1>2, <1>3, <1>4, Steps

\* What is tracked or on its way to be has been announced.
LEMMA TrackedAnnounced ==
    ASSUME RestOK, ReportsOK
    PROVE  tracker.tracked \subseteq announced
BY DEF RestOK, ReportsOK, ReportedOnce, Reports

LEMMA ObjectFields ==
    ASSUME RestOK, ObexdStep
    PROVE  /\ \A t \in Transfers, d \in Devices, large \in BOOLEAN : ExportTransfer(t, d, large) =>
                /\ object[t].state = "unused" /\ object'[t].state = "live" /\ object'[t].from = d
                /\ \A u \in Transfers : u # t => object'[u] = object[u]
           /\ \A t \in Transfers, b \in BOOLEAN : EndTransfer(t, b) =>
                /\ object[t].state = "live" /\ object'[t].state = "ended" /\ object'[t].from = object[t].from
                /\ \A u \in Transfers : u # t => object'[u] = object[u]
           /\ \A t \in Transfers : RemoveTransfer(t) =>
                /\ object[t].state \in {"live", "ended"} /\ object'[t].state = "gone"
                /\ object'[t].from = object[t].from
                /\ \A u \in Transfers : u # t => object'[u] = object[u]
           /\ \A d \in Devices : EndSession(d) => \A u \in Transfers :
                /\ object'[u].from = object[u].from
                /\ \/ object'[u] = object[u]
                   \/ object[u].state = "gone" /\ object'[u].state = "past"
           /\ Crash => \A u \in Transfers :
                /\ object'[u].from = object[u].from
                /\ \/ object[u].state = "unused" /\ object'[u] = object[u]
                   \/ object[u].state # "unused" /\ object'[u].state = "past"
                /\ auth'[u] = IF auth[u] = "pending" THEN "over" ELSE auth[u]
<1>1. \A t \in Transfers, d \in Devices, large \in BOOLEAN : ExportTransfer(t, d, large) =>
        /\ object[t].state = "unused" /\ object'[t].state = "live" /\ object'[t].from = d
        /\ \A u \in Transfers : u # t => object'[u] = object[u]
  BY DEF RestOK, ExportTransfer
<1>2. \A t \in Transfers, b \in BOOLEAN : EndTransfer(t, b) =>
        /\ object[t].state = "live" /\ object'[t].state = "ended" /\ object'[t].from = object[t].from
        /\ \A u \in Transfers : u # t => object'[u] = object[u]
  BY DEF RestOK, EndTransfer
<1>3. \A t \in Transfers : RemoveTransfer(t) =>
        /\ object[t].state \in {"live", "ended"} /\ object'[t].state = "gone"
        /\ object'[t].from = object[t].from
        /\ \A u \in Transfers : u # t => object'[u] = object[u]
  BY DEF RestOK, RemoveTransfer
<1>4. ASSUME NEW d \in Devices, EndSession(d), NEW u \in Transfers
      PROVE  /\ object'[u].from = object[u].from
             /\ \/ object'[u] = object[u]
                \/ object[u].state = "gone" /\ object'[u].state = "past"
  BY <1>4 DEF RestOK, EndSession
<1>5. ASSUME Crash, NEW u \in Transfers
      PROVE  /\ object'[u].from = object[u].from
             /\ \/ object[u].state = "unused" /\ object'[u] = object[u]
                \/ object[u].state # "unused" /\ object'[u].state = "past"
             /\ auth'[u] = IF auth[u] = "pending" THEN "over" ELSE auth[u]
  BY <1>5 DEF RestOK, Crash
<1> QED
  BY <1>1, <1>2, <1>3, <1>4, <1>5

\* What happens to the calls.
LEMMA AuthFields ==
    ASSUME RestOK, NEW t \in Transfers
    PROVE  /\ Ask(t) => /\ obexd.up /\ obexd.registered /\ object[t].state = "live" /\ auth[t] = "none"
                        /\ \A u \in Transfers : auth[u] # "pending"
                        /\ \A u \in Transfers : auth'[u] = IF u = t THEN "pending" ELSE auth[u]
                        /\ UNCHANGED <<obexd, object, announced>>
           /\ GiveUp(t) => /\ auth[t] = "pending"
                           /\ \A u \in Transfers : auth'[u] = IF u = t THEN "over" ELSE auth[u]
                           /\ UNCHANGED <<obexd, object, announced>>
BY DEF RestOK, Ask, GiveUp

\* The answers of the agent.
LEMMA AnswerFields ==
    ASSUME QueueOK, RestOK, AgentStep
    PROVE  \A u \in Transfers : \/ auth'[u] = auth[u]
                                \/ auth[u] = "pending" /\ auth'[u] \in {"accepted", "refused"}
<1>1. \/ UNCHANGED auth
      \/ \E t \in Transfers, how \in {"accepted", "refused"} : Reply(t, how)
  BY AgentEffects DEF Authorizes, Clicks, Cancels, Expires
<1> QED
  BY <1>1, Replies

LEMMA LivesKept ==
    ASSUME QueueOK, RestOK, LivesOK, Next
    PROVE  LivesOK'
<1>1. CASE ObexdStep
  <2>1. ASSUME NEW t \in Transfers, NEW d \in Devices, NEW large \in BOOLEAN, ExportTransfer(t, d, large)
        PROVE  LivesOK'
    <3>1. /\ object[t].state = "unused" /\ object'[t].state = "live"
          /\ \A u \in Transfers : u # t => object'[u] = object[u]
      BY <1>1, <2>1, ObjectFields
    <3>2. UNCHANGED <<obexd, auth, announced>>
      BY <2>1 DEF ExportTransfer
    <3> QED
      BY <3>1, <3>2 DEF LivesOK
  <2>2. ASSUME NEW t \in Transfers, Announce(t)
        PROVE  LivesOK'
    BY <2>2 DEF LivesOK, Announce
  <2>3. ASSUME NEW t \in Transfers, Ask(t)
        PROVE  LivesOK'
    BY <2>3, AuthFields DEF LivesOK
  <2>4. ASSUME NEW t \in Transfers, GiveUp(t)
        PROVE  LivesOK'
    BY <2>4, AuthFields DEF LivesOK
  <2>5. ASSUME NEW t \in Transfers, RemoveTransfer(t)
        PROVE  LivesOK'
    <3>1. auth[t] # "pending" /\ UNCHANGED <<obexd, auth, announced>>
      BY <2>5 DEF RemoveTransfer
    <3> QED
      BY <1>1, <2>5, <3>1, ObjectFields DEF LivesOK
  <2>6. ASSUME NEW t \in Transfers, NEW b \in BOOLEAN, EndTransfer(t, b)
        PROVE  LivesOK'
    <3>1. auth[t] = "accepted" /\ UNCHANGED <<obexd, auth, announced>>
      BY <2>6 DEF EndTransfer
    <3> QED
      BY <1>1, <2>6, <3>1, ObjectFields DEF LivesOK
  <2>7. ASSUME NEW d \in Devices, EndSession(d)
        PROVE  LivesOK'
    <3>1. UNCHANGED <<obexd, auth, announced>>
      BY <2>7 DEF EndSession
    <3> QED
      BY <1>1, <2>7, <3>1, ObjectFields DEF LivesOK
  <2>8. ASSUME Crash
        PROVE  LivesOK'
    <3>1. UNCHANGED announced
      BY <2>8 DEF Crash
    <3> QED
      BY <1>1, <2>8, <3>1, ObjectFields DEF LivesOK
  <2>9. ASSUME Restart
        PROVE  LivesOK'
    <3>1. obexd'.up /\ UNCHANGED <<object, auth, announced>>
      BY <2>9 DEF Restart, RestOK
    <3> QED
      BY <3>1 DEF LivesOK
  <2>10. ASSUME Unheard
         PROVE  LivesOK'
    BY <2>10 DEF LivesOK, Unheard
  <2> QED
    BY <1>1, <2>1, <2>2, <2>3, <2>4, <2>5, <2>6, <2>7, <2>8, <2>9, <2>10 DEF ObexdStep
<1>2. CASE TrackerStep
  BY <1>2, TrackerEffects DEF LivesOK
<1>3. CASE AgentStep
  BY <1>3, AgentEffects, AnswerFields DEF LivesOK
<1>4. CASE PluginStep
  <2>1. UNCHANGED <<object, announced>> /\ obexd'.up = obexd.up
    BY <1>4, PluginEffects DEF Appears, Vanishes, Loads, Unloads
  <2>2. \A t \in Transfers : auth'[t] \in {auth[t], IF auth[t] = "pending" THEN "over" ELSE auth[t]}
    BY <1>4, PluginEffects DEF Appears, Vanishes, Loads, Unloads
  <2> QED
    BY <2>1, <2>2 DEF LivesOK
<1> QED
  BY <1>1, <1>2, <1>3, <1>4, Steps

\* The objects change as their messages say.
HeardOK == \A i \in DOMAIN queue : \A t \in Transfers :
    /\ At(i, "removed", t) => object[t].state \in {"gone", "past"}
    /\ At(i, "status", t) => object[t].state \in {"ended", "gone", "past"}
    /\ At(i, "added", t) => t \in announced
    /\ Is(i, "lost") /\ (t \in tracker.tracked \/ \E j \in 1 .. i - 1 : At(j, "added", t))
         => object[t].state = "past"

LEMMA ObjectsKept ==
    ASSUME QueueOK, RestOK, ObjectsOK, ReportsOK, Next
    PROVE  ObjectsOK'
<1>1. LivesOK /\ HeardOK /\ LivesOK'
  BY LivesKept DEF ObjectsOK, HeardOK
<1>0. ASSUME UNCHANGED object, UNCHANGED announced, QueueDomain, QueueDomain', Shifted(1),
             \A t \in tracker'.tracked : t \in tracker.tracked \/ At(1, "added", t)
      PROVE  HeardOK'
  <2>1. \A i \in DOMAIN queue' : \A t \in Transfers :
          /\ At(i, "removed", t)' => At(i + 1, "removed", t)
          /\ At(i, "status", t)' => At(i + 1, "status", t)
          /\ At(i, "added", t)' => At(i + 1, "added", t)
          /\ Is(i, "lost")' => Is(i + 1, "lost")
          /\ i + 1 \in DOMAIN queue
    BY <1>0 DEF Shifted, At, Is
  <2>2. ASSUME NEW i \in DOMAIN queue', NEW t \in Transfers,
               t \in tracker'.tracked \/ \E j \in 1 .. i - 1 : At(j, "added", t)'
        PROVE  t \in tracker.tracked \/ \E j \in 1 .. (i + 1) - 1 : At(j, "added", t)
    <3>1. CASE t \in tracker'.tracked
      <4>1. 1 \in 1 .. (i + 1) - 1
        BY <1>0 DEF QueueDomain
      <4> QED
        BY <1>0, <3>1, <4>1
    <3>2. ASSUME NEW j \in 1 .. i - 1, At(j, "added", t)'
          PROVE  \E k \in 1 .. (i + 1) - 1 : At(k, "added", t)
      <4>1. j \in DOMAIN queue' /\ j + 1 \in 1 .. (i + 1) - 1
        BY <1>0, <3>2 DEF QueueDomain
      <4> QED
        BY <2>1, <3>2, <4>1
    <3> QED
      BY <2>2, <3>1, <3>2
  <2> QED
    BY <1>0, <1>1, <2>1, <2>2 DEF HeardOK
<1>3. ASSUME UNCHANGED object, UNCHANGED announced, UNCHANGED queue, tracker'.tracked = tracker.tracked
      PROVE  HeardOK'
  BY <1>1, <1>3 DEF HeardOK, At, Is
<1>2. ASSUME ObexdStep
      PROVE  HeardOK'
  <2>1. UNCHANGED tracker /\ QueueDomain /\ QueueDomain'
    BY <1>2, ObexdEffects DEF ObexdSame
  <2>2. ASSUME NEW t \in Transfers, NEW d \in Devices, NEW large \in BOOLEAN, ExportTransfer(t, d, large)
        PROVE  HeardOK'
    <3>1. UNCHANGED <<queue, announced>>
      BY <2>2 DEF ExportTransfer
    <3> QED
      BY <1>1, <1>2, <2>1, <2>2, <3>1, ObjectFields DEF HeardOK, At, Is
  <2>3. ASSUME NEW m, SentOne(m),
               \A t \in Transfers : \/ object'[t] = object[t]
                                    \/ object[t].state = "live" /\ object'[t].state = "ended"
                                    \/ object[t].state \in {"live", "ended"} /\ object'[t].state = "gone"
                                    \/ object[t].state # "unused" /\ object'[t].state = "past",
               announced \subseteq announced',
               \A t \in Transfers :
                  /\ m.kind = "removed" /\ m.t = t => object'[t].state = "gone"
                  /\ m.kind = "status" /\ m.t = t => object'[t].state = "ended"
                  /\ m.kind = "added" /\ m.t = t => t \in announced'
                  /\ m.kind # "lost"
        PROVE  HeardOK'
    <3> SUFFICES ASSUME NEW i \in DOMAIN queue', NEW t \in Transfers
                 PROVE  /\ At(i, "removed", t)' => object'[t].state \in {"gone", "past"}
                        /\ At(i, "status", t)' => object'[t].state \in {"ended", "gone", "past"}
                        /\ At(i, "added", t)' => t \in announced'
                        /\ Is(i, "lost")' /\ (t \in tracker.tracked \/ \E j \in 1 .. i - 1 : At(j, "added", t)')
                             => object'[t].state = "past"
      BY <2>1 DEF HeardOK
    <3>1. CASE i = Len(queue) + 1
      BY <2>3, <3>1 DEF SentOne, At, Is
    <3>2. CASE i \in DOMAIN queue
      <4>1. /\ At(i, "removed", t)' <=> At(i, "removed", t)
            /\ At(i, "status", t)' <=> At(i, "status", t)
            /\ At(i, "added", t)' <=> At(i, "added", t)
            /\ Is(i, "lost")' <=> Is(i, "lost")
            /\ \A j \in 1 .. i - 1 : At(j, "added", t)' <=> At(j, "added", t)
        BY <2>1, <2>3, <3>2 DEF SentOne, Extended, At, Is, QueueDomain
      <4> QED
        BY <1>1, <2>3, <3>2, <4>1 DEF HeardOK
    <3> QED
      BY <2>3, <3>1, <3>2 DEF SentOne
  <2>4. ASSUME NEW t \in Transfers, Announce(t), SentOne([kind |-> "added", t |-> t])
        PROVE  HeardOK'
    <3>1. announced' = announced \cup {t} /\ UNCHANGED object
      BY <2>4 DEF Announce
    <3> QED
      BY <2>3, <2>4, <3>1
  <2>5. ASSUME NEW t \in Transfers, Ask(t), SentOne([kind |-> "authorize", t |-> t])
        PROVE  HeardOK'
    BY <2>3, <2>5 DEF Ask
  <2>6. ASSUME NEW t \in Transfers, GiveUp(t), SentOne([kind |-> "cancel", t |-> t])
        PROVE  HeardOK'
    BY <2>3, <2>6 DEF GiveUp
  <2>7. ASSUME NEW t \in Transfers, RemoveTransfer(t), SentOne([kind |-> "removed", t |-> t])
        PROVE  HeardOK'
    <3>1. UNCHANGED announced
      BY <2>7 DEF RemoveTransfer
    <3>2. /\ object[t].state \in {"live", "ended"} /\ object'[t].state = "gone"
          /\ \A u \in Transfers : u # t => object'[u] = object[u]
      BY <1>2, <2>7, ObjectFields
    <3> QED
      BY <2>3, <2>7, <3>1, <3>2
  <2>8. ASSUME NEW t \in Transfers, NEW b \in BOOLEAN, EndTransfer(t, b),
               SentOne([kind |-> "status", t |-> t, success |-> b])
        PROVE  HeardOK'
    <3>1. UNCHANGED announced
      BY <2>8 DEF EndTransfer
    <3>2. /\ object[t].state = "live" /\ object'[t].state = "ended"
          /\ \A u \in Transfers : u # t => object'[u] = object[u]
      BY <1>2, <2>8, ObjectFields
    <3> QED
      BY <2>3, <2>8, <3>1, <3>2
  <2>9. ASSUME NEW d \in Devices, EndSession(d), SentOne([kind |-> "session"])
        PROVE  HeardOK'
    <3>1. UNCHANGED announced
      BY <2>9 DEF EndSession
    <3>2. \A u \in Transfers : \/ object'[u] = object[u]
                               \/ object[u].state = "gone" /\ object'[u].state = "past"
      BY <1>2, <2>9, ObjectFields
    <3>3. \A u \in Transfers : \/ object'[u] = object[u]
                               \/ object[u].state # "unused" /\ object'[u].state = "past"
      BY <3>2
    <3> QED
      BY <2>3, <2>9, <3>1, <3>3
  <2>10. ASSUME Crash
         PROVE  HeardOK'
    <3>1. UNCHANGED announced
      BY <2>10 DEF Crash
    <3>2. \A u \in Transfers : \/ object[u].state = "unused" /\ object'[u] = object[u]
                               \/ object[u].state # "unused" /\ object'[u].state = "past"
      BY <1>2, <2>10, ObjectFields
    <3>3. \A i \in DOMAIN queue' :
            \/ i \in DOMAIN queue /\ queue'[i] = queue[i]
            \/ i \notin DOMAIN queue /\ queue'[i] \in {[kind |-> "lost"], [kind |-> "vanished"]}
      BY <1>2, <2>1, <2>10, CrashQueue
    <3>4. \A t \in tracker.tracked : object[t].state # "unused"
      BY <1>1, TrackedAnnounced DEF LivesOK, RestOK
    <3>5. \A i \in DOMAIN queue' : \A t \in Transfers :
            /\ At(i, "removed", t)' => At(i, "removed", t)
            /\ At(i, "status", t)' => At(i, "status", t)
            /\ At(i, "added", t)' => At(i, "added", t)
      BY <3>3 DEF At
    <3>6. \A t \in Transfers : (\E i \in DOMAIN queue : At(i, "added", t)) => object[t].state # "unused"
      BY <1>1 DEF HeardOK, LivesOK
    <3> SUFFICES ASSUME NEW i \in DOMAIN queue', NEW t \in Transfers
                 PROVE  /\ At(i, "removed", t)' => object'[t].state \in {"gone", "past"}
                        /\ At(i, "status", t)' => object'[t].state \in {"ended", "gone", "past"}
                        /\ At(i, "added", t)' => t \in announced'
                        /\ Is(i, "lost")' /\ (t \in tracker.tracked \/ \E j \in 1 .. i - 1 : At(j, "added", t)')
                             => object'[t].state = "past"
      BY <2>1 DEF HeardOK
    <3>7. /\ At(i, "removed", t)' => object'[t].state \in {"gone", "past"}
          /\ At(i, "status", t)' => object'[t].state \in {"ended", "gone", "past"}
          /\ At(i, "added", t)' => t \in announced'
      BY <1>1, <3>1, <3>2, <3>5 DEF HeardOK, At
    <3>8. ASSUME Is(i, "lost")', t \in tracker.tracked \/ \E j \in 1 .. i - 1 : At(j, "added", t)'
          PROVE  object'[t].state = "past"
      <4>1. \A j \in 1 .. i - 1 : At(j, "added", t)' => j \in DOMAIN queue /\ At(j, "added", t)
        BY <2>1, <3>5 DEF QueueDomain, At
      <4>2. object[t].state # "unused"
        BY <3>4, <3>6, <3>8, <4>1
      <4> QED
        BY <3>2, <4>2
    <3> QED
      BY <3>7, <3>8
  <2>11. ASSUME Restart
         PROVE  HeardOK'
    <3>1. UNCHANGED <<object, announced>>
      BY <2>11 DEF Restart
    <3>2. CASE SentOne([kind |-> "appeared"])
      BY <2>3, <3>1, <3>2
    <3>3. CASE UNCHANGED queue
      BY <1>1, <2>1, <3>1, <3>3 DEF HeardOK, At, Is
    <3> QED
      BY <1>2, <2>1, <2>11, <3>2, <3>3, RestartQueue
  <2>12. ASSUME Unheard
         PROVE  HeardOK'
    <3>1. UNCHANGED <<object, announced>>
      BY <2>12 DEF Unheard
    <3>2. Shifted(1) /\ \A t \in tracker'.tracked : t \in tracker.tracked \/ At(1, "added", t)
      BY <2>1, <2>12, Shifts DEF Unheard
    <3> QED
      BY <1>0, <2>1, <3>1, <3>2
  <2> QED
    BY <1>2, <2>2, <2>4, <2>5, <2>6, <2>7, <2>8, <2>9, <2>10, <2>11, <2>12, ObexdEffects
<1>4. ASSUME TrackerStep
      PROVE  HeardOK'
  BY <1>0, <1>4, TrackerEffects
<1>5. ASSUME AgentStep
      PROVE  HeardOK'
  <2>1. UNCHANGED <<object, announced, tracker>> /\ QueueDomain /\ QueueDomain' /\ (UNCHANGED queue \/ Shifted(1))
    BY <1>5, AgentEffects DEF Authorizes, Clicks, Cancels, Expires
  <2>2. \A t \in tracker'.tracked : t \in tracker.tracked \/ At(1, "added", t)
    BY <2>1
  <2> QED
    BY <1>0, <1>3, <2>1, <2>2
<1>6. ASSUME PluginStep
      PROVE  HeardOK'
  <2>1. UNCHANGED <<object, announced>> /\ QueueDomain /\ QueueDomain' /\ tracker'.tracked = tracker.tracked
    BY <1>6, PluginEffects DEF Appears, Vanishes, Loads, Unloads
  <2>2. CASE Shifted(1)
    <3>1. \A t \in tracker'.tracked : t \in tracker.tracked \/ At(1, "added", t)
      BY <2>1
    <3> QED
      BY <1>0, <2>1, <2>2, <3>1
  <2>3. CASE Loads
    BY <1>1, <2>1, <2>3 DEF Loads, SentOne, Extended, HeardOK, At, Is, QueueDomain
  <2>4. CASE Muted
    BY <1>1, <2>1, <2>4 DEF Muted, HeardOK, At, Is, QueueDomain
  <2> QED
    BY <1>6, <2>2, <2>3, <2>4, PluginEffects DEF Appears, Vanishes, Unloads
<1>7. HeardOK'
  BY <1>2, <1>4, <1>5, <1>6, Steps
<1> QED
  BY <1>1, <1>7 DEF ObjectsOK, HeardOK

\* The messages of a kind stay where they are, or move up.
Stay(k) == \A i \in DOMAIN queue' : \A t \in Transfers : At(i, k, t)' => At(i, k, t)
MoveUp(k) == \A i \in DOMAIN queue' : \A t \in Transfers : At(i, k, t)' => At(i + 1, k, t)

LEMMA KindKept ==
    ASSUME QueueDomain, QueueDomain', NEW k \in About
    PROVE  /\ UNCHANGED queue => Stay(k)
           /\ Muted => Stay(k)
           /\ \A m : SentOne(m) /\ m.kind # k => Stay(k)
           /\ \A x, y : SentTwo(x, y) /\ k # x /\ k # y => Stay(k)
           /\ Shifted(1) => MoveUp(k)
<1>1. UNCHANGED queue => Stay(k)
  BY DEF Stay, At
<1>2. Muted => Stay(k)
  BY DEF Stay, At, Muted, About
<1>3. ASSUME NEW m, SentOne(m), m.kind # k
      PROVE  Stay(k)
  BY <1>3 DEF SentOne, Extended, Stay, At
<1>4. ASSUME NEW x, NEW y, SentTwo(x, y), k # x, k # y
      PROVE  Stay(k)
  BY <1>4 DEF SentTwo, Extended, Stay, At
<1>5. Shifted(1) => MoveUp(k)
  BY DEF Shifted, MoveUp, At
<1> QED
  BY <1>1, <1>2, <1>3, <1>4, <1>5

LEMMA AuthorizeKept ==
    ASSUME QueueDomain, QueueDomain'
    PROVE  /\ UNCHANGED queue => Stay("authorize")
           /\ Muted => Stay("authorize")
           /\ \A m : SentOne(m) /\ m.kind # "authorize" => Stay("authorize")
           /\ \A x, y : SentTwo(x, y) /\ "authorize" # x /\ "authorize" # y => Stay("authorize")
           /\ Shifted(1) => MoveUp("authorize")
BY KindKept DEF About

LEMMA AnswersKept ==
    ASSUME QueueOK, RestOK, AgentOK, LivesOK, AnswersOK, Next
    PROVE  AnswersOK'
\* Where nothing is answered or asked.
<1>1. ASSUME Stay("authorize") \/ MoveUp("authorize"), QueueDomain, QueueDomain', UNCHANGED answers,
             \A t \in Transfers : auth'[t] = auth[t] \/ (auth[t] = "pending" /\ auth'[t] = "over"),
             agent'.open => agent.open /\ agent'.note = agent.note
      PROVE  AnswersOK'
  <2>1. PICK s \in {0, 1} : \A i \in DOMAIN queue' : \A t \in Transfers : At(i, "authorize", t)' => At(i + s, "authorize", t)
    <3>1. CASE Stay("authorize")
      <4>1. \A i \in DOMAIN queue' : i + 0 = i
        BY <1>1 DEF QueueDomain
      <4>2. \A i \in DOMAIN queue' : \A t \in Transfers : At(i, "authorize", t)' => At(i + 0, "authorize", t)
        BY <3>1, <4>1 DEF Stay
      <4> QED
        BY <4>2
    <3>2. CASE MoveUp("authorize")
      BY <3>2 DEF MoveUp
    <3> QED
      BY <1>1, <3>1, <3>2
  <2>2. \A i \in DOMAIN queue' : \A t \in Transfers : At(i, "authorize", t)' =>
          auth'[t] # "none" /\ answers'[t] = 0
    <3> TAKE i \in DOMAIN queue'
    <3> TAKE t \in Transfers
    <3>1. At(i, "authorize", t)' => At(i + s, "authorize", t) /\ i + s \in DOMAIN queue
      BY <2>1 DEF At
    <3> QED
      BY <1>1, <3>1 DEF AnswersOK
  <2>3. \A i, j \in DOMAIN queue' : \A t \in Transfers :
          At(i, "authorize", t)' /\ At(j, "authorize", t)' => i = j
    <3> SUFFICES ASSUME NEW i \in DOMAIN queue', NEW j \in DOMAIN queue', NEW t \in Transfers,
                        At(i, "authorize", t)', At(j, "authorize", t)'
                 PROVE  i = j
      OBVIOUS
    <3>1. /\ At(i, "authorize", t)' => At(i + s, "authorize", t) /\ i + s \in DOMAIN queue
          /\ At(j, "authorize", t)' => At(j + s, "authorize", t) /\ j + s \in DOMAIN queue
      BY <2>1 DEF At
    <3>2. i + s = j + s
      BY <3>1 DEF AnswersOK
    <3>3. i \in Int /\ j \in Int /\ (s = 0 \/ s = 1)
      BY <1>1, <2>1 DEF QueueDomain
    <3>4. CASE s = 0
      BY <3>2, <3>3, <3>4
    <3>5. CASE s = 1
      BY <3>2, <3>3, <3>5
    <3> QED
      BY <3>3, <3>4, <3>5
  <2>4. agent'.open =>
          /\ auth'[agent'.note] \in {"pending", "over"} /\ answers'[agent'.note] = 0
          /\ \A i \in DOMAIN queue' : ~At(i, "authorize", agent.note)'
    <3> HAVE agent'.open
    <3>1. agent.open /\ agent'.note = agent.note /\ agent.note \in Transfers
      BY <1>1 DEF RestOK
    <3>2. \A i \in DOMAIN queue' : At(i, "authorize", agent.note)' =>
             At(i + s, "authorize", agent.note) /\ i + s \in DOMAIN queue
      BY <2>1, <3>1 DEF At
    <3> QED
      BY <1>1, <3>1, <3>2 DEF AnswersOK
  <2> QED
    BY <1>1, <2>2, <2>3, <2>4 DEF AnswersOK
\* Where t is answered, by a call that no longer waits or by a click.
<1>2. ASSUME NEW t \in Transfers, NEW how \in {"accepted", "refused"}, Reply(t, how),
             Stay("authorize") \/ MoveUp("authorize"), QueueDomain, QueueDomain',
             auth[t] \in {"pending", "over"}, answers[t] = 0,
             \A i \in DOMAIN queue' : ~At(i, "authorize", t)',
             agent'.open => agent.open /\ agent'.note = agent.note /\ agent.note # t
      PROVE  AnswersOK'
  <2>1. \A u \in Transfers :
          /\ answers'[u] = IF u = t THEN answers[u] + 1 ELSE answers[u]
          /\ auth'[u] = IF u = t /\ auth[u] = "pending" THEN how ELSE auth[u]
    BY <1>2, Replies
  <2>2. \A u \in Transfers :
          /\ answers'[u] \in {0, 1}
          /\ auth'[u] \in {"none", "pending"} => answers'[u] = 0
          /\ auth'[u] \in {"accepted", "refused"} => answers'[u] = 1
    BY <1>2, <2>1 DEF AnswersOK
  <2>3. \A i \in DOMAIN queue' : \A u \in Transfers : At(i, "authorize", u)' =>
          auth'[u] # "none" /\ answers'[u] = 0
    <3> TAKE i \in DOMAIN queue'
    <3> TAKE u \in Transfers
    <3>1. At(i, "authorize", u)' => \E j \in DOMAIN queue : At(j, "authorize", u)
      BY <1>2 DEF Stay, MoveUp, At
    <3> QED
      BY <1>2, <2>1, <3>1 DEF AnswersOK
  <2>4. \A i, j \in DOMAIN queue' : \A u \in Transfers :
          At(i, "authorize", u)' /\ At(j, "authorize", u)' => i = j
    <3> SUFFICES ASSUME NEW i \in DOMAIN queue', NEW j \in DOMAIN queue', NEW u \in Transfers
                 PROVE  At(i, "authorize", u)' /\ At(j, "authorize", u)' => i = j
      OBVIOUS
    <3>1. CASE Stay("authorize")
      BY <3>1 DEF Stay, At, AnswersOK
    <3>2. CASE MoveUp("authorize")
      <4>1. At(i, "authorize", u)' /\ At(j, "authorize", u)' => i + 1 = j + 1
        BY <3>2 DEF MoveUp, AnswersOK, At
      <4>2. i \in Int /\ j \in Int
        BY <1>2 DEF QueueDomain
      <4> QED
        BY <4>1, <4>2
    <3> QED
      BY <1>2, <3>1, <3>2
  <2>5. agent'.open =>
          /\ auth'[agent'.note] \in {"pending", "over"} /\ answers'[agent'.note] = 0
          /\ \A i \in DOMAIN queue' : ~At(i, "authorize", agent.note)'
    <3> HAVE agent'.open
    <3>1. agent.open /\ agent'.note = agent.note /\ agent.note # t /\ agent.note \in Transfers
      BY <1>2 DEF RestOK
    <3>2. \A i \in DOMAIN queue' : At(i, "authorize", agent.note)' => \E j \in DOMAIN queue : At(j, "authorize", agent.note)
      BY <1>2, <3>1 DEF Stay, MoveUp, At
    <3> QED
      BY <2>1, <3>1, <3>2 DEF AnswersOK
  <2> QED
    BY <2>2, <2>3, <2>4, <2>5 DEF AnswersOK
<1>3. ASSUME ObexdStep
      PROVE  AnswersOK'
  <2>1. UNCHANGED <<agent, answers>> /\ QueueDomain /\ QueueDomain'
    BY <1>3, ObexdEffects DEF ObexdSame
  <2>2. ASSUME NEW t \in Transfers, Ask(t), SentOne([kind |-> "authorize", t |-> t])
        PROVE  AnswersOK'
    <3>1. auth[t] = "none" /\ \A u \in Transfers : auth'[u] = IF u = t THEN "pending" ELSE auth[u]
      BY <2>2, AuthFields
    <3>2. \A i \in DOMAIN queue' : \A u \in Transfers : At(i, "authorize", u)' =>
            \/ i \in DOMAIN queue /\ At(i, "authorize", u)
            \/ i = Len(queue) + 1 /\ u = t
      BY <2>2 DEF SentOne, Extended, At
    <3>3. \A i \in DOMAIN queue : ~At(i, "authorize", t)
      BY <3>1 DEF AnswersOK
    <3>4. answers[t] = 0
      BY <3>1 DEF AnswersOK
    <3>5. \A i \in DOMAIN queue' : \A u \in Transfers : At(i, "authorize", u)' =>
            auth'[u] # "none" /\ answers'[u] = 0
      BY <2>1, <3>1, <3>2, <3>4 DEF AnswersOK
    <3>6. \A i, j \in DOMAIN queue' : \A u \in Transfers :
            At(i, "authorize", u)' /\ At(j, "authorize", u)' => i = j
      <4> SUFFICES ASSUME NEW i \in DOMAIN queue', NEW j \in DOMAIN queue', NEW u \in Transfers
                   PROVE  At(i, "authorize", u)' /\ At(j, "authorize", u)' => i = j
        OBVIOUS
      <4> QED
        BY <3>2, <3>3 DEF AnswersOK
    <3>7. agent'.open =>
            /\ auth'[agent'.note] \in {"pending", "over"} /\ answers'[agent'.note] = 0
            /\ \A i \in DOMAIN queue' : ~At(i, "authorize", agent.note)'
      <4> HAVE agent'.open
      <4>1. agent.open /\ agent'.note = agent.note /\ agent.note \in Transfers /\ agent.note # t
        BY <2>1, <3>1 DEF RestOK, AnswersOK
      <4> QED
        BY <2>1, <3>1, <3>2, <4>1 DEF AnswersOK
    <3> QED
      BY <2>1, <3>1, <3>5, <3>6, <3>7 DEF AnswersOK
  <2>3. ASSUME NEW t \in Transfers, GiveUp(t), SentOne([kind |-> "cancel", t |-> t])
        PROVE  AnswersOK'
    <3>1. Stay("authorize")
      BY <2>1, <2>3, AuthorizeKept
    <3>2. \A u \in Transfers : auth'[u] = auth[u] \/ (auth[u] = "pending" /\ auth'[u] = "over")
      BY <2>3, AuthFields
    <3> QED
      BY <1>1, <2>1, <3>1, <3>2
  <2>4. ASSUME Crash
        PROVE  AnswersOK'
    <3>1. Stay("authorize")
      <4>1. \/ SentTwo("lost", "vanished") \/ SentTwo("vanished", "lost")
            \/ SentOne([kind |-> "lost"])
        BY <2>4, CrashQueue
      <4> QED
        BY <2>1, <4>1, AuthorizeKept
    <3>2. \A u \in Transfers : auth'[u] = auth[u] \/ (auth[u] = "pending" /\ auth'[u] = "over")
      BY <1>3, <2>4, ObjectFields
    <3> QED
      BY <1>1, <2>1, <3>1, <3>2
  <2>5. ASSUME UNCHANGED auth, Stay("authorize") \/ MoveUp("authorize")
        PROVE  AnswersOK'
    BY <1>1, <2>1, <2>5
  <2>6. ASSUME Restart
        PROVE  Stay("authorize") /\ UNCHANGED auth
    <3>1. SentOne([kind |-> "appeared"]) \/ UNCHANGED queue
      BY <2>6, RestartQueue
    <3> QED
      BY <2>1, <2>6, <3>1, AuthorizeKept DEF Restart
  <2>7. ASSUME NEW t \in Transfers, Announce(t), SentOne([kind |-> "added", t |-> t])
        PROVE  Stay("authorize") /\ UNCHANGED auth
    BY <2>1, <2>7, AuthorizeKept DEF Announce
  <2>8. ASSUME NEW t \in Transfers, RemoveTransfer(t), SentOne([kind |-> "removed", t |-> t])
        PROVE  Stay("authorize") /\ UNCHANGED auth
    BY <2>1, <2>8, AuthorizeKept DEF RemoveTransfer
  <2>9. ASSUME NEW t \in Transfers, NEW b \in BOOLEAN, EndTransfer(t, b),
               SentOne([kind |-> "status", t |-> t, success |-> b])
        PROVE  Stay("authorize") /\ UNCHANGED auth
    BY <2>1, <2>9, AuthorizeKept DEF EndTransfer
  <2>10. ASSUME NEW d \in Devices, EndSession(d), SentOne([kind |-> "session"])
         PROVE  Stay("authorize") /\ UNCHANGED auth
    BY <2>1, <2>10, AuthorizeKept DEF EndSession
  <2>11. ASSUME NEW t \in Transfers, NEW d \in Devices, NEW large \in BOOLEAN, ExportTransfer(t, d, large)
         PROVE  Stay("authorize") /\ UNCHANGED auth
    BY <2>1, <2>11, AuthorizeKept DEF ExportTransfer
  <2>12. ASSUME Unheard, Shifted(1)
         PROVE  MoveUp("authorize") /\ UNCHANGED auth
    BY <2>1, <2>12, AuthorizeKept DEF Unheard
  <2> QED
    BY <1>3, <2>2, <2>3, <2>4, <2>5, <2>6, <2>7, <2>8, <2>9, <2>10, <2>11, <2>12, ObexdEffects
<1>4. ASSUME TrackerStep
      PROVE  AnswersOK'
  <2>1. /\ SameNote /\ Shifted(1) /\ QueueDomain /\ QueueDomain' /\ UNCHANGED <<auth, answers>>
    BY <1>4, TrackerEffects
  <2> QED
    BY <1>1, <2>1, AuthorizeKept DEF SameNote
<1>5. ASSUME AgentStep
      PROVE  AnswersOK'
  <2>1. QueueDomain /\ QueueDomain'
    BY <1>5, AgentEffects
  <2>2. ASSUME NEW t \in Transfers, Authorizes(t)
        PROVE  AnswersOK'
    <3>1. Shifted(1) /\ At(1, "authorize", t) /\ MoveUp("authorize") /\ 1 \in DOMAIN queue
      BY <2>1, <2>2, AuthorizeKept DEF Authorizes, At
    <3>2. auth[t] \in {"pending", "over"} /\ answers[t] = 0
      <4>1. auth[t] # "none" /\ answers[t] = 0
        BY <3>1 DEF AnswersOK
      <4> QED
        BY <4>1 DEF AnswersOK, RestOK
    <3>3. \A i \in DOMAIN queue' : ~At(i, "authorize", t)'
      <4> SUFFICES ASSUME NEW i \in DOMAIN queue', At(i, "authorize", t)'
                   PROVE  FALSE
        OBVIOUS
      <4>1. At(i + 1, "authorize", t) /\ i + 1 \in DOMAIN queue
        BY <3>1 DEF MoveUp, At
      <4>2. i + 1 = 1
        BY <3>1, <4>1 DEF AnswersOK
      <4> QED
        BY <2>1, <4>2 DEF QueueDomain
    <3>4. agent.open => agent.note # t
      BY <3>1 DEF AnswersOK
    <3>5. CASE (Reply(t, "refused") \/ Reply(t, "accepted")) /\ (UNCHANGED agent \/ agent'.open = FALSE)
      <4>1. agent'.open => agent.open /\ agent'.note = agent.note
        BY <3>5
      <4> QED
        BY <1>2, <2>1, <3>1, <3>2, <3>3, <3>4, <3>5, <4>1
    <3>6. CASE NoteIs(t, TRUE) /\ UNCHANGED <<auth, answers>>
      <4>1. \A i \in DOMAIN queue' : \A u \in Transfers : At(i, "authorize", u)' =>
              auth'[u] # "none" /\ answers'[u] = 0
        BY <3>1, <3>6 DEF MoveUp, AnswersOK, At
      <4>2. \A i, j \in DOMAIN queue' : \A u \in Transfers :
              At(i, "authorize", u)' /\ At(j, "authorize", u)' => i = j
        <5> SUFFICES ASSUME NEW i \in DOMAIN queue', NEW j \in DOMAIN queue', NEW u \in Transfers
                     PROVE  At(i, "authorize", u)' /\ At(j, "authorize", u)' => i = j
          OBVIOUS
        <5>1. At(i, "authorize", u)' /\ At(j, "authorize", u)' => i + 1 = j + 1
          BY <3>1 DEF MoveUp, AnswersOK, At
        <5>2. i \in Int /\ j \in Int
          BY <2>1 DEF QueueDomain
        <5> QED
          BY <5>1, <5>2
      <4> QED
        BY <3>2, <3>3, <3>6, <4>1, <4>2 DEF AnswersOK, NoteIs
    <3> QED
      BY <2>2, <3>5, <3>6 DEF Authorizes, NoteIs
  <2>3. ASSUME NEW t \in Transfers, Clicks(t)
        PROVE  AnswersOK'
    <3>1. UNCHANGED queue /\ agent.open /\ agent.note = t /\ agent'.open = FALSE
          /\ (Reply(t, "accepted") \/ Reply(t, "refused"))
      BY <2>3 DEF Clicks, NoteIs
    <3>2. auth[t] \in {"pending", "over"} /\ answers[t] = 0 /\ \A i \in DOMAIN queue : ~At(i, "authorize", t)
      BY <3>1 DEF AnswersOK
    <3>3. Stay("authorize") /\ \A i \in DOMAIN queue' : ~At(i, "authorize", t)'
      BY <2>1, <3>1, <3>2, AuthorizeKept DEF At
    <3> QED
      BY <1>2, <2>1, <3>1, <3>2, <3>3
  <2>4. ASSUME Cancels
        PROVE  AnswersOK'
    <3>1. MoveUp("authorize") /\ UNCHANGED <<auth, answers>> /\ (agent'.open => agent.open /\ agent'.note = agent.note)
      BY <2>1, <2>4, AuthorizeKept DEF Cancels, NoteIs
    <3> QED
      BY <1>1, <2>1, <3>1
  <2>5. ASSUME Expires
        PROVE  AnswersOK'
    <3>1. Stay("authorize") /\ UNCHANGED <<auth, answers>> /\ (agent'.open => agent.open /\ agent'.note = agent.note)
      BY <2>1, <2>5, AuthorizeKept DEF Expires, NoteIs
    <3> QED
      BY <1>1, <2>1, <3>1
  <2> QED
    BY <1>5, <2>2, <2>3, <2>4, <2>5, AgentEffects
<1>6. ASSUME PluginStep
      PROVE  AnswersOK'
  <2>1. UNCHANGED answers /\ QueueDomain /\ QueueDomain'
    BY <1>6, PluginEffects
  <2>2. \A t \in Transfers : auth'[t] = auth[t] \/ (auth[t] = "pending" /\ auth'[t] = "over")
    BY <1>6, PluginEffects DEF Appears, Vanishes, Loads, Unloads
  <2>3. agent'.open => agent.open /\ agent'.note = agent.note
    BY <1>6, PluginEffects, NewAgents DEF Appears, Vanishes, Loads, Unloads, Destroyed
  <2>4. Stay("authorize") \/ MoveUp("authorize")
    <3>1. CASE Loads
      <4>1. (IF obexd.up THEN "appeared" ELSE "vanished") # "authorize"
        OBVIOUS
      <4> QED
        BY <2>1, <3>1, <4>1, AuthorizeKept DEF Loads
    <3> QED
      BY <1>6, <2>1, <3>1, PluginEffects, AuthorizeKept DEF Appears, Vanishes, Unloads
  <2> QED
    BY <1>1, <2>1, <2>2, <2>3, <2>4
<1> QED
  BY <1>3, <1>4, <1>5, <1>6, Steps

\* What the tracker reports.
Quiet == \A u \in Transfers : /\ reports'[u].started = reports[u].started
                              /\ reports'[u].completed = reports[u].completed
                              /\ reports'[u].counted => reports[u].counted
Starts(t) ==
    /\ At(1, "added", t)
    /\ \/ UNCHANGED <<tracker, reports>>
       \/ /\ tracker'.tracked = tracker.tracked \cup {t}
          /\ reports'[t].started = reports[t].started + 1 /\ reports'[t].completed = reports[t].completed
          /\ \A u \in Transfers : u # t => reports'[u] = reports[u]
Completes(t) ==
    /\ At(1, "status", t) \/ At(1, "removed", t)
    /\ \/ t \notin tracker.tracked /\ UNCHANGED <<tracker, reports>>
       \/ /\ t \in tracker.tracked /\ tracker'.tracked = tracker.tracked \ {t}
          /\ \A u \in Transfers :
               /\ reports'[u].started = reports[u].started
               /\ reports'[u].completed = IF u = t THEN reports[u].completed + 1 ELSE reports[u].completed
               /\ reports'[u].counted => reports[u].counted
LosesAll ==
    /\ Is(1, "lost") /\ tracker'.tracked = {}
    /\ \A u \in Transfers :
         /\ reports'[u].started = reports[u].started
         /\ reports'[u].completed = IF u \in tracker.tracked THEN reports[u].completed + 1 ELSE reports[u].completed
         /\ reports'[u].counted => reports[u].counted

LEMMA UncountedIsQuiet ==
    ASSUME RestOK, reports' \in {reports, Uncounted}
    PROVE  Quiet
BY DEF RestOK, Reports, Uncounted, Quiet

LEMMA ReportEffects ==
    ASSUME QueueOK, RestOK, TrackerStep
    PROVE  \/ \E t \in Transfers : Starts(t) \/ Completes(t)
           \/ LosesAll
           \/ Is(1, "session") /\ UNCHANGED tracker /\ Quiet
<1>1. ASSUME OnObjectAdded
      PROVE  \E t \in Transfers : Starts(t)
  <2> DEFINE t == Head(queue).t
  <2>1. At(1, "added", t) /\ t \in Transfers
    BY <1>1, Shifts, Receives, MessageFields DEF OnObjectAdded, About, At, Is
  <2>2. CASE ~tracker.made
    <3>1. UNCHANGED <<tracker, reports>>
      BY <1>1, <2>2 DEF OnObjectAdded
    <3> QED
      BY <2>1, <3>1 DEF Starts
  <2>3. CASE tracker.made
    <3>1. PICK c : /\ tracker' = [tracker EXCEPT !.tracked = @ \cup {t}]
                   /\ reports' = [reports EXCEPT ![t].started = @ + 1, ![t].counted = c]
      BY <1>1, <2>3 DEF OnObjectAdded
    <3> HIDE DEF t
    <3>2. tracker'.tracked = tracker.tracked \cup {t}
      BY <3>1 DEF RestOK
    <3>3. /\ reports'[t].started = reports[t].started + 1 /\ reports'[t].completed = reports[t].completed
          /\ \A u \in Transfers : u # t => reports'[u] = reports[u]
      BY <2>1, <3>1 DEF RestOK, Reports
    <3> QED
      BY <2>1, <3>2, <3>3 DEF Starts
  <2> QED
    BY <2>2, <2>3
<1>2. ASSUME NEW t \in Transfers, NEW b \in BOOLEAN, At(1, "status", t) \/ At(1, "removed", t),
             IF t \in tracker.tracked THEN tracker' = Popped(t) /\ EmitCompleted(t, b)
             ELSE UNCHANGED <<tracker, service, agent, reports>>
      PROVE  \E u \in Transfers : Completes(u)
  <2>1. CASE t \in tracker.tracked
    <3>1. tracker'.tracked = tracker.tracked \ {t}
      BY <1>2, <2>1 DEF Popped, RestOK
    <3> QED
      BY <1>2, <2>1, <3>1, EmitEffects DEF Completes
  <2>2. CASE t \notin tracker.tracked
    BY <1>2, <2>2 DEF Completes
  <2> QED
    BY <2>1, <2>2
<1>3. ASSUME OnTransferStatus
      PROVE  \E u \in Transfers : Completes(u)
  <2>1. /\ Head(queue).t \in Transfers /\ Head(queue).success \in BOOLEAN
        /\ At(1, "status", Head(queue).t)
    BY <1>3, Shifts, Receives, MessageFields DEF OnTransferStatus, About, At, Is
  <2> QED
    BY <1>2, <1>3, <2>1 DEF OnTransferStatus
<1>4. ASSUME OnObjectRemoved
      PROVE  \E u \in Transfers : Completes(u)
  <2>1. Head(queue).t \in Transfers /\ At(1, "removed", Head(queue).t)
    BY <1>4, Shifts, Receives, MessageFields DEF OnObjectRemoved, About, At, Is
  <2> QED
    BY <1>2, <1>4, <2>1 DEF OnObjectRemoved
<1>5. ASSUME OnObjectsLost
      PROVE  LosesAll
  <2>1. Is(1, "lost")
    BY <1>5, Shifts DEF OnObjectsLost
  <2>2. tracker'.tracked = {}
    BY <1>5 DEF OnObjectsLost, RestOK
  <2>3. PICK mine, reset : reports' = LostReports(mine, reset)
    BY <1>5, LostKeeps
  <2>4. \A u \in Transfers :
          /\ reports'[u].started = reports[u].started
          /\ reports'[u].completed = IF u \in tracker.tracked THEN reports[u].completed + 1 ELSE reports[u].completed
          /\ reports'[u].counted => reports[u].counted
    <3> TAKE u \in Transfers
    <3>1. reports[u] \in Reports /\ reports[u].completed + 0 = reports[u].completed
      BY DEF RestOK, Reports
    <3>2. reports'[u] = [reports[u] EXCEPT !.completed = @ + (IF u \in tracker.tracked THEN 1 ELSE 0),
                                           !.counted = @ /\ u \notin mine /\ ~reset]
      BY <2>3 DEF LostReports
    <3> QED
      BY <3>1, <3>2 DEF Reports
  <2> QED
    BY <2>1, <2>2, <2>4 DEF LosesAll
<1>6. ASSUME OnSessionRemoved
      PROVE  Is(1, "session") /\ UNCHANGED tracker /\ Quiet
  <2>1. reports' \in {reports, Uncounted}
    BY <1>6 DEF OnSessionRemoved, Uncounted
  <2>2. Quiet
    BY <2>1, UncountedIsQuiet
  <2> QED
    BY <1>6, <2>2, Shifts DEF OnSessionRemoved
<1> QED
  BY <1>1, <1>3, <1>4, <1>5, <1>6 DEF TrackerStep

LEMMA ReportsKept ==
    ASSUME QueueOK, RestOK, LivesOK, HeardOK, ReportsOK, Next
    PROVE  ReportsOK'
<1> DEFINE Added == \A i, j \in DOMAIN queue : \A t \in Transfers :
               At(i, "added", t) => reports[t].started = 0 /\ (At(j, "added", t) => i = j)
           Rest == \A t \in Transfers :
               /\ t \notin announced => reports[t].started = 0
               /\ reports[t].completed > 0 => object[t].state \in {"ended", "gone", "past"}
               /\ reports[t].counted => reports[t].started = 1
<1>1. ReportedOnce /\ Added /\ Rest
  BY DEF ReportsOK
\* The messages.
<1>2. ASSUME Stay("added") \/ MoveUp("added"), QueueDomain, QueueDomain',
             \A i \in DOMAIN queue' : \A t \in Transfers : At(i, "added", t)' => reports'[t].started = reports[t].started
      PROVE  Added'
  <2> SUFFICES ASSUME NEW i \in DOMAIN queue', NEW j \in DOMAIN queue', NEW t \in Transfers, At(i, "added", t)'
               PROVE  reports'[t].started = 0 /\ (At(j, "added", t)' => i = j)
    OBVIOUS
  <2>1. CASE Stay("added")
    BY <1>1, <1>2, <2>1 DEF Stay, At
  <2>2. CASE MoveUp("added")
    <3>1. At(i + 1, "added", t) /\ i + 1 \in DOMAIN queue
          /\ (At(j, "added", t)' => At(j + 1, "added", t) /\ j + 1 \in DOMAIN queue)
      BY <2>2 DEF MoveUp, At
    <3>2. i \in Int /\ j \in Int
      BY <1>2 DEF QueueDomain
    <3>3. reports[t].started = 0 /\ (At(j, "added", t)' => i + 1 = j + 1)
      BY <1>1, <3>1
    <3> QED
      BY <1>2, <3>2, <3>3
  <2> QED
    BY <1>2, <2>1, <2>2
\* A step that reports nothing.
<1>3. ASSUME Quiet, Stay("added") \/ MoveUp("added"), QueueDomain, QueueDomain',
             tracker'.tracked = tracker.tracked, announced \subseteq announced',
             \A t \in Transfers : object[t].state \in {"ended", "gone", "past"} =>
                                    object'[t].state \in {"ended", "gone", "past"}
      PROVE  ReportsOK'
  <2>1. ReportedOnce'
    BY <1>1, <1>3 DEF Quiet, ReportedOnce
  <2>2. Added'
    BY <1>2, <1>3 DEF Quiet
  <2>3. Rest'
    BY <1>1, <1>3 DEF Quiet
  <2> QED
    BY <2>1, <2>2, <2>3 DEF ReportsOK
<1>4. UNCHANGED reports => Quiet
  BY DEF Quiet
<1>5. ASSUME ObexdStep
      PROVE  ReportsOK'
  <2>1. UNCHANGED <<tracker, reports>> /\ QueueDomain /\ QueueDomain' /\ Quiet
    BY <1>4, <1>5, ObexdEffects DEF ObexdSame
  <2>2. "added" \in About
    BY DEF About
  <2>3. ASSUME NEW t \in Transfers, Announce(t), SentOne([kind |-> "added", t |-> t])
        PROVE  ReportsOK'
    <3>1. announced' = announced \cup {t} /\ t \notin announced /\ UNCHANGED object
      BY <2>3 DEF Announce
    <3>2. reports[t].started = 0 /\ \A i \in DOMAIN queue : ~At(i, "added", t)
      BY <1>1, <3>1 DEF HeardOK
    <3>3. \A i \in DOMAIN queue' : \A u \in Transfers : At(i, "added", u)' =>
            \/ i \in DOMAIN queue /\ At(i, "added", u)
            \/ i = Len(queue) + 1 /\ u = t
      BY <2>3 DEF SentOne, Extended, At
    <3>4. Added'
      <4> SUFFICES ASSUME NEW i \in DOMAIN queue', NEW j \in DOMAIN queue', NEW u \in Transfers, At(i, "added", u)'
                   PROVE  reports'[u].started = 0 /\ (At(j, "added", u)' => i = j)
        OBVIOUS
      <4> QED
        BY <1>1, <2>1, <3>2, <3>3
    <3>5. Rest'
      BY <1>1, <2>1, <3>1
    <3>6. ReportedOnce'
      BY <1>1, <2>1 DEF ReportedOnce
    <3> QED
      BY <3>4, <3>5, <3>6 DEF ReportsOK
  <2>4. ASSUME NEW t \in Transfers, NEW d \in Devices, NEW large \in BOOLEAN, ExportTransfer(t, d, large)
        PROVE  ReportsOK'
    <3>1. UNCHANGED <<queue, announced>>
      BY <2>4 DEF ExportTransfer
    <3>2. /\ object[t].state = "unused" /\ \A u \in Transfers : u # t => object'[u] = object[u]
      BY <1>5, <2>4, ObjectFields
    <3> QED
      BY <1>3, <2>1, <2>2, <3>1, <3>2, KindKept
  <2>5. ASSUME NEW m, SentOne(m), m.kind # "added", UNCHANGED announced,
               \A t \in Transfers : object[t].state \in {"ended", "gone", "past"} =>
                                    object'[t].state \in {"ended", "gone", "past"}
        PROVE  ReportsOK'
    BY <1>3, <2>1, <2>2, <2>5, KindKept
  <2>6. ASSUME NEW t \in Transfers, Ask(t), SentOne([kind |-> "authorize", t |-> t])
        PROVE  ReportsOK'
    BY <2>5, <2>6 DEF Ask
  <2>7. ASSUME NEW t \in Transfers, GiveUp(t), SentOne([kind |-> "cancel", t |-> t])
        PROVE  ReportsOK'
    BY <2>5, <2>7 DEF GiveUp
  <2>8. ASSUME NEW t \in Transfers, RemoveTransfer(t), SentOne([kind |-> "removed", t |-> t])
        PROVE  ReportsOK'
    <3>1. UNCHANGED announced
      BY <2>8 DEF RemoveTransfer
    <3>2. object'[t].state = "gone" /\ \A u \in Transfers : u # t => object'[u] = object[u]
      BY <1>5, <2>8, ObjectFields
    <3> QED
      BY <2>5, <2>8, <3>1, <3>2
  <2>9. ASSUME NEW t \in Transfers, NEW b \in BOOLEAN, EndTransfer(t, b),
               SentOne([kind |-> "status", t |-> t, success |-> b])
        PROVE  ReportsOK'
    <3>1. UNCHANGED announced
      BY <2>9 DEF EndTransfer
    <3>2. object'[t].state = "ended" /\ \A u \in Transfers : u # t => object'[u] = object[u]
      BY <1>5, <2>9, ObjectFields
    <3> QED
      BY <2>5, <2>9, <3>1, <3>2
  <2>10. ASSUME NEW d \in Devices, EndSession(d), SentOne([kind |-> "session"])
         PROVE  ReportsOK'
    <3>1. UNCHANGED announced
      BY <2>10 DEF EndSession
    <3>2. \A u \in Transfers : \/ object'[u] = object[u]
                               \/ object[u].state = "gone" /\ object'[u].state = "past"
      BY <1>5, <2>10, ObjectFields
    <3> QED
      BY <2>5, <2>10, <3>1, <3>2
  <2>11. ASSUME Crash
         PROVE  ReportsOK'
    <3>1. UNCHANGED announced
      BY <2>11 DEF Crash
    <3>2. \A u \in Transfers : \/ object[u].state = "unused" /\ object'[u] = object[u]
                               \/ object[u].state # "unused" /\ object'[u].state = "past"
      BY <1>5, <2>11, ObjectFields
    <3>3. Stay("added")
      BY <2>1, <2>2, <2>11, CrashQueue, KindKept
    <3>4. \A t \in Transfers : object[t].state \in {"ended", "gone", "past"} =>
                                 object'[t].state \in {"ended", "gone", "past"}
      BY <3>2
    <3> QED
      BY <1>3, <2>1, <3>1, <3>3, <3>4
  <2>12. ASSUME Restart
         PROVE  ReportsOK'
    <3>1. UNCHANGED <<object, announced>>
      BY <2>12 DEF Restart
    <3>2. Stay("added")
      BY <2>1, <2>2, <2>12, RestartQueue, KindKept
    <3> QED
      BY <1>3, <2>1, <3>1, <3>2
  <2>13. ASSUME Unheard, Shifted(1)
         PROVE  ReportsOK'
    <3>1. UNCHANGED <<object, announced>>
      BY <2>13 DEF Unheard
    <3>2. MoveUp("added")
      BY <2>1, <2>2, <2>13, KindKept
    <3> QED
      BY <1>3, <2>1, <3>1, <3>2
  <2> QED
    BY <1>5, <2>3, <2>4, <2>6, <2>7, <2>8, <2>9, <2>10, <2>11, <2>12, <2>13, ObexdEffects
<1>6. ASSUME TrackerStep
      PROVE  ReportsOK'
  <2>1. /\ Shifted(1) /\ QueueDomain /\ QueueDomain' /\ UNCHANGED <<object, announced>>
    BY <1>6, TrackerEffects
  <2>2. MoveUp("added")
    BY <2>1, KindKept DEF About
  <2>3. ASSUME NEW t \in Transfers, Starts(t)
        PROVE  ReportsOK'
    <3>1. CASE UNCHANGED <<tracker, reports>>
      BY <1>3, <1>4, <2>1, <2>2, <3>1
    <3>2. CASE /\ tracker'.tracked = tracker.tracked \cup {t}
               /\ reports'[t].started = reports[t].started + 1 /\ reports'[t].completed = reports[t].completed
               /\ \A u \in Transfers : u # t => reports'[u] = reports[u]
      <4>1. 1 \in DOMAIN queue /\ At(1, "added", t)
        BY <2>3 DEF Starts, At
      <4>2. reports[t].started = 0 /\ t \in announced
        BY <1>1, <4>1 DEF HeardOK
      <4>3. reports[t].completed = 0 /\ t \notin tracker.tracked
        BY <1>1, <4>2 DEF ReportedOnce, RestOK, Reports
      <4>4. \A i \in DOMAIN queue' : ~At(i, "added", t)'
        <5> SUFFICES ASSUME NEW i \in DOMAIN queue', At(i, "added", t)'
                     PROVE  FALSE
          OBVIOUS
        <5>1. At(i + 1, "added", t) /\ i + 1 \in DOMAIN queue
          BY <2>2 DEF MoveUp, At
        <5>2. 1 = i + 1
          BY <1>1, <4>1, <5>1
        <5> QED
          BY <2>1, <5>2 DEF QueueDomain
      <4>5. Added'
        BY <1>2, <2>1, <2>2, <3>2, <4>4
      <4>6. Rest'
        BY <1>1, <2>1, <3>2, <4>2, <4>3
      <4>7. ReportedOnce'
        BY <1>1, <3>2, <4>2, <4>3 DEF ReportedOnce
      <4> QED
        BY <4>5, <4>6, <4>7 DEF ReportsOK
    <3> QED
      BY <2>3, <3>1, <3>2 DEF Starts
  <2>4. ASSUME NEW t \in Transfers, Completes(t)
        PROVE  ReportsOK'
    <3>1. CASE UNCHANGED <<tracker, reports>>
      BY <1>3, <1>4, <2>1, <2>2, <3>1
    <3>2. CASE /\ t \in tracker.tracked /\ tracker'.tracked = tracker.tracked \ {t}
               /\ \A u \in Transfers :
                    /\ reports'[u].started = reports[u].started
                    /\ reports'[u].completed = IF u = t THEN reports[u].completed + 1 ELSE reports[u].completed
                    /\ reports'[u].counted => reports[u].counted
      <4>1. object[t].state \in {"ended", "gone", "past"}
        BY <2>4 DEF Completes, HeardOK, At
      <4>2. Added'
        BY <1>2, <2>1, <2>2, <3>2
      <4>3. Rest'
        BY <1>1, <2>1, <3>2, <4>1
      <4>4. ReportedOnce'
        BY <1>1, <3>2 DEF ReportedOnce, RestOK, Reports
      <4> QED
        BY <4>2, <4>3, <4>4 DEF ReportsOK
    <3> QED
      BY <2>4, <3>1, <3>2 DEF Completes
  <2>5. ASSUME LosesAll
        PROVE  ReportsOK'
    <3>1. \A t \in tracker.tracked : object[t].state = "past"
      BY <2>5 DEF LosesAll, HeardOK, Is, RestOK
    <3>2. Added'
      BY <1>2, <2>1, <2>2, <2>5 DEF LosesAll
    <3>3. Rest'
      BY <1>1, <2>1, <2>5, <3>1 DEF LosesAll
    <3>4. ReportedOnce'
      BY <1>1, <2>5 DEF LosesAll, ReportedOnce, RestOK, Reports
    <3> QED
      BY <3>2, <3>3, <3>4 DEF ReportsOK
  <2>6. ASSUME UNCHANGED tracker, Quiet
        PROVE  ReportsOK'
    BY <1>3, <2>1, <2>2, <2>6
  <2> QED
    BY <1>6, <2>3, <2>4, <2>5, <2>6, ReportEffects
<1>7. ASSUME AgentStep
      PROVE  ReportsOK'
  <2>1. UNCHANGED <<object, announced, tracker, reports>> /\ QueueDomain /\ QueueDomain'
        /\ (UNCHANGED queue \/ Shifted(1))
    BY <1>7, AgentEffects DEF Authorizes, Clicks, Cancels, Expires
  <2>2. Stay("added") \/ MoveUp("added")
    BY <2>1, KindKept DEF About
  <2> QED
    BY <1>3, <1>4, <2>1, <2>2
<1>8. ASSUME PluginStep
      PROVE  ReportsOK'
  <2>1. UNCHANGED <<object, announced>> /\ QueueDomain /\ QueueDomain' /\ tracker'.tracked = tracker.tracked
    BY <1>8, PluginEffects DEF Appears, Vanishes, Loads, Unloads
  <2>2. reports' \in {reports, Uncounted}
    BY <1>8, PluginEffects DEF Appears, Vanishes, Loads, Unloads, Reset, SameCounts
  <2>3. Quiet
    BY <2>2, UncountedIsQuiet
  <2>4. Stay("added") \/ MoveUp("added")
    <3>1. CASE Loads
      <4>1. (IF obexd.up THEN "appeared" ELSE "vanished") # "added"
        OBVIOUS
      <4> QED
        BY <2>1, <3>1, <4>1, KindKept DEF Loads, About
    <3> QED
      BY <1>8, <2>1, <3>1, PluginEffects, KindKept DEF Appears, Vanishes, Unloads, About
  <2> QED
    BY <1>3, <2>1, <2>3, <2>4
<1> QED
  BY <1>5, <1>6, <1>7, <1>8, Steps

\* What is on its way stays so, unless it is handled or disturbed.
LEMMA WayKept ==
    ASSUME QueueDomain, QueueDomain', NEW t \in Transfers
    PROVE  /\ UNCHANGED queue => /\ OnItsWay(t) => OnItsWay(t)'
                                 /\ Undisturbed(0) => Undisturbed(0)'
           /\ \A m : SentOne(m) /\ m.kind \notin Disturbs =>
                /\ OnItsWay(t) => OnItsWay(t)'
                /\ Undisturbed(0) => Undisturbed(0)'
           /\ Muted => /\ OnItsWay(t) => OnItsWay(t)'
                       /\ Undisturbed(0) => Undisturbed(0)'
           /\ Shifted(1) => /\ ~At(1, "authorize", t) /\ OnItsWay(t) => OnItsWay(t)'
                            /\ Undisturbed(0) \/ Undisturbed(1) => Undisturbed(0)'
<1>1. UNCHANGED queue => /\ OnItsWay(t) => OnItsWay(t)'
                         /\ Undisturbed(0) => Undisturbed(0)'
  BY DEF OnItsWay, Undisturbed, At
<1>2. ASSUME NEW m, SentOne(m), m.kind \notin Disturbs
      PROVE  /\ \A i \in DOMAIN queue \cup {0} : Undisturbed(i) => Undisturbed(i)'
             /\ \A i \in DOMAIN queue : At(i, "authorize", t) => At(i, "authorize", t)' /\ i \in DOMAIN queue'
  BY <1>2 DEF SentOne, Extended, Undisturbed, At, QueueDomain
<1>3. ASSUME Muted
      PROVE  /\ \A i \in DOMAIN queue \cup {0} : Undisturbed(i) => Undisturbed(i)'
             /\ \A i \in DOMAIN queue : At(i, "authorize", t) => At(i, "authorize", t)' /\ i \in DOMAIN queue'
  <2>1. \A i \in DOMAIN queue : \/ queue'[i] = queue[i]
                                \/ queue'[i].kind = "unheard"
    BY <1>3 DEF Muted
  <2>2. "unheard" \notin Disturbs
    BY DEF Disturbs
  <2> QED
    BY <1>3, <2>1, <2>2 DEF Undisturbed, At, Muted
<1>4. ASSUME Shifted(1)
      PROVE  /\ ~At(1, "authorize", t) /\ OnItsWay(t) => OnItsWay(t)'
             /\ Undisturbed(0) \/ Undisturbed(1) => Undisturbed(0)'
  <2>1. ASSUME ~At(1, "authorize", t), OnItsWay(t)
        PROVE  OnItsWay(t)'
    <3>1. PICK i \in DOMAIN queue : At(i, "authorize", t) /\ Undisturbed(i)
      BY <2>1 DEF OnItsWay
    <3>2. i > 1 /\ i \in Int
      BY <2>1, <3>1 DEF QueueDomain
    <3>3. i - 1 \in DOMAIN queue' /\ queue'[i - 1] = queue[i]
      BY <1>4, <3>2 DEF Shifted
    <3>4. At(i - 1, "authorize", t)'
      BY <3>1, <3>3 DEF At
    <3>5. Undisturbed(i - 1)'
      BY <1>4, <3>1, <3>2 DEF Undisturbed, Shifted, QueueDomain
    <3> QED
      BY <3>3, <3>4, <3>5 DEF OnItsWay
  <2>2. Undisturbed(0) \/ Undisturbed(1) => Undisturbed(0)'
    BY <1>4 DEF Undisturbed, Shifted, QueueDomain
  <2> QED
    BY <2>1, <2>2
<1> QED
  BY <1>1, <1>2, <1>3, <1>4 DEF OnItsWay

LEMMA PendingKept ==
    ASSUME QueueOK, RestOK, AgentOK, LivesOK, AnswersOK, PendingOK, Next
    PROVE  PendingOK'
\* Where the pending calls stay pending and the agent asks as before.
<1>1. ASSUME QueueDomain, QueueDomain', NEW t \in Transfers, auth[t] = "pending",
             IsAsked(t) /\ Undisturbed(0) => IsAsked(t)' \/ OnItsWay(t),
             \/ UNCHANGED queue
             \/ \E m : SentOne(m) /\ m.kind \notin Disturbs
             \/ Muted
             \/ Shifted(1) /\ ~At(1, "authorize", t)
      PROVE  OnItsWay(t)' \/ (IsAsked(t)' /\ Undisturbed(0)')
  <2>1. OnItsWay(t) \/ (IsAsked(t) /\ Undisturbed(0))
    BY <1>1 DEF PendingOK
  <2> QED
    BY <1>1, <2>1, WayKept
<1>2. ASSUME ObexdStep
      PROVE  PendingOK'
  <2>1. ObexdSame /\ QueueDomain /\ QueueDomain' /\ \A t : IsAsked(t) => IsAsked(t)'
    BY <1>2, ObexdEffects DEF ObexdSame, IsAsked
  <2>2. ASSUME UNCHANGED auth,
               \/ UNCHANGED queue
               \/ \E m : SentOne(m) /\ m.kind \notin Disturbs
               \/ Shifted(1) /\ Is(1, "unheard")
        PROVE  PendingOK'
    <3> SUFFICES ASSUME NEW t \in Transfers, auth[t] = "pending"
                 PROVE  OnItsWay(t)' \/ (IsAsked(t)' /\ Undisturbed(0)')
      BY <2>2 DEF PendingOK
    <3>1. Is(1, "unheard") => ~At(1, "authorize", t)
      BY DEF Is, At
    <3> QED
      BY <1>1, <2>1, <2>2, <3>1
  <2>3. ASSUME NEW t \in Transfers, Ask(t), SentOne([kind |-> "authorize", t |-> t])
        PROVE  PendingOK'
    <3>1. \A u \in Transfers : auth'[u] = "pending" => u = t
      BY <2>3, AuthFields
    <3>2. PICK n \in DOMAIN queue' : n = Len(queue) + 1
      BY <2>3 DEF SentOne
    <3>3. At(n, "authorize", t)' /\ Undisturbed(n)'
      BY <2>1, <2>3, <3>2 DEF Undisturbed, SentOne, QueueDomain, At
    <3>4. OnItsWay(t)'
      BY <3>3 DEF OnItsWay
    <3> QED
      BY <3>1, <3>4 DEF PendingOK
  <2>4. ASSUME NEW t \in Transfers, GiveUp(t)
        PROVE  PendingOK'
    <3>1. \A u \in Transfers : auth'[u] # "pending"
      BY <2>4, AuthFields DEF LivesOK
    <3> QED
      BY <3>1 DEF PendingOK
  <2>5. ASSUME Crash
        PROVE  PendingOK'
    <3>1. \A u \in Transfers : auth'[u] # "pending"
      BY <1>2, <2>5, ObjectFields
    <3> QED
      BY <3>1 DEF PendingOK
  <2>6. ASSUME NEW t \in Transfers, Announce(t), SentOne([kind |-> "added", t |-> t])
        PROVE  PendingOK'
    <3>1. [kind |-> "added", t |-> t].kind \notin Disturbs /\ UNCHANGED auth
      BY <2>6 DEF Announce, Disturbs
    <3> QED
      BY <2>2, <2>6, <3>1
  <2>7. ASSUME NEW t \in Transfers, RemoveTransfer(t), SentOne([kind |-> "removed", t |-> t])
        PROVE  PendingOK'
    <3>1. [kind |-> "removed", t |-> t].kind \notin Disturbs /\ UNCHANGED auth
      BY <2>7 DEF RemoveTransfer, Disturbs
    <3> QED
      BY <2>2, <2>7, <3>1
  <2>8. ASSUME NEW t \in Transfers, NEW b \in BOOLEAN, EndTransfer(t, b),
               SentOne([kind |-> "status", t |-> t, success |-> b])
        PROVE  PendingOK'
    <3>1. [kind |-> "status", t |-> t, success |-> b].kind \notin Disturbs /\ UNCHANGED auth
      BY <2>8 DEF EndTransfer, Disturbs
    <3> QED
      BY <2>2, <2>8, <3>1
  <2>9. ASSUME NEW d \in Devices, EndSession(d), SentOne([kind |-> "session"])
        PROVE  PendingOK'
    <3>1. [kind |-> "session"].kind \notin Disturbs /\ UNCHANGED auth
      BY <2>9 DEF EndSession, Disturbs
    <3> QED
      BY <2>2, <2>9, <3>1
  <2>10. ASSUME Restart
         PROVE  PendingOK'
    <3>1. [kind |-> "appeared"].kind \notin Disturbs /\ UNCHANGED auth
      BY <2>10 DEF Restart, Disturbs
    <3>2. SentOne([kind |-> "appeared"]) \/ UNCHANGED queue
      BY <2>10, RestartQueue
    <3> QED
      BY <2>2, <3>1, <3>2
  <2>11. ASSUME Unheard, Shifted(1), Is(1, "unheard")
         PROVE  PendingOK'
    BY <2>2, <2>11 DEF Unheard
  <2>12. ASSUME NEW t \in Transfers, NEW d \in Devices, NEW large \in BOOLEAN, ExportTransfer(t, d, large)
         PROVE  PendingOK'
    BY <2>2, <2>12 DEF ExportTransfer
  <2> QED
    BY <1>2, <2>3, <2>4, <2>5, <2>6, <2>7, <2>8, <2>9, <2>10, <2>11, <2>12, ObexdEffects
<1>3. ASSUME TrackerStep
      PROVE  PendingOK'
  <2>1. /\ SameNote /\ Shifted(1) /\ QueueDomain /\ QueueDomain' /\ UNCHANGED <<auth, bubble>>
        /\ \E k \in {"added", "status", "removed", "lost", "session"} : Is(1, k)
    BY <1>3, TrackerEffects
  <2> SUFFICES ASSUME NEW t \in Transfers, auth[t] = "pending"
               PROVE  OnItsWay(t)' \/ (IsAsked(t)' /\ Undisturbed(0)')
    BY <2>1 DEF PendingOK
  <2>2. ~At(1, "authorize", t)
    BY <2>1 DEF Is, At
  <2>3. IsAsked(t) => IsAsked(t)'
    BY <2>1 DEF IsAsked, SameNote
  <2> QED
    BY <1>1, <2>1, <2>2, <2>3
<1>4. ASSUME AgentStep
      PROVE  PendingOK'
  <2>1. QueueDomain /\ QueueDomain'
    BY <1>4, AgentEffects
  <2>2. \A u \in Transfers : auth'[u] = "pending" => auth[u] = "pending"
    BY <1>4, AnswerFields
  <2>3. ASSUME NEW t \in Transfers, Authorizes(t)
        PROVE  PendingOK'
    <3>1. Shifted(1) /\ At(1, "authorize", t) /\ 1 \in DOMAIN queue
      BY <2>3 DEF Authorizes, At
    <3>2. ~Undisturbed(0)
      BY <3>1 DEF At, Undisturbed, Disturbs
    <3>3. ASSUME NEW u \in Transfers, auth'[u] = "pending", u # t
          PROVE  OnItsWay(u)'
      <4>1. auth[u] = "pending" /\ OnItsWay(u)
        BY <2>2, <3>2, <3>3 DEF PendingOK
      <4>2. ~At(1, "authorize", u)
        BY <3>1, <3>3 DEF At
      <4> QED
        BY <2>1, <3>1, <4>1, <4>2, WayKept
    <3>4. ASSUME auth'[t] = "pending"
          PROVE  IsAsked(t)' /\ Undisturbed(0)'
      <4>1. auth[t] = "pending" /\ OnItsWay(t)
        BY <2>2, <3>2, <3>4 DEF PendingOK
      <4>2. Undisturbed(1)
        BY <3>1, <4>1 DEF OnItsWay, AnswersOK
      <4>3. Undisturbed(0)'
        BY <2>1, <3>1, <4>2, WayKept
      <4>4. ~Reply(t, "refused") /\ ~Reply(t, "accepted")
        BY <3>4, <4>1, Replies
      <4>5. NoteIs(t, TRUE)
        BY <2>3, <4>4 DEF Authorizes
      <4> QED
        BY <4>3, <4>5 DEF IsAsked, NoteIs
    <3> QED
      BY <3>3, <3>4 DEF PendingOK
  <2>4. ASSUME NEW t \in Transfers, Clicks(t)
        PROVE  PendingOK'
    <3> SUFFICES ASSUME NEW u \in Transfers, auth'[u] = "pending"
                 PROVE  OnItsWay(u)'
      BY DEF PendingOK
    <3>1. auth[u] = "pending" /\ u # t
      BY <2>2, <2>4, Replies DEF Clicks
    <3>2. UNCHANGED queue /\ ~IsAsked(u)
      BY <2>4, <3>1 DEF Clicks, IsAsked
    <3> QED
      BY <2>1, <3>1, <3>2, WayKept DEF PendingOK
  <2>5. ASSUME Cancels
        PROVE  PendingOK'
    <3> SUFFICES ASSUME NEW u \in Transfers, auth'[u] = "pending"
                 PROVE  OnItsWay(u)'
      BY DEF PendingOK
    <3>1. Shifted(1) /\ Is(1, "cancel") /\ 1 \in DOMAIN queue
      BY <2>5 DEF Cancels, Is
    <3>2. ~At(1, "authorize", u) /\ ~Undisturbed(0)
      BY <3>1 DEF Is, At, Undisturbed, Disturbs
    <3> QED
      BY <2>1, <2>2, <3>1, <3>2, WayKept DEF PendingOK
  <2>6. ASSUME Expires
        PROVE  PendingOK'
    <3> SUFFICES ASSUME NEW u \in Transfers, auth'[u] = "pending"
                 PROVE  OnItsWay(u)' \/ (IsAsked(u)' /\ Undisturbed(0)')
      BY DEF PendingOK
    <3>1. UNCHANGED queue /\ (IsAsked(u) => IsAsked(u)')
      BY <2>6 DEF Expires, NoteIs, IsAsked
    <3> QED
      BY <1>1, <2>1, <2>2, <3>1
  <2> QED
    BY <1>4, <2>3, <2>4, <2>5, <2>6, AgentEffects
<1>5. ASSUME PluginStep
      PROVE  PendingOK'
  <2>1. QueueDomain /\ QueueDomain' /\ UNCHANGED bubble
    BY <1>5, PluginEffects
  <2>2. ASSUME Appears
        PROVE  PendingOK'
    <3>1. Shifted(1) /\ Is(1, "appeared") /\ UNCHANGED auth
      BY <2>2 DEF Appears
    <3> SUFFICES ASSUME NEW t \in Transfers, auth[t] = "pending"
                 PROVE  OnItsWay(t)' \/ (IsAsked(t)' /\ Undisturbed(0)')
      BY <3>1 DEF PendingOK
    <3>2. ~At(1, "authorize", t)
      BY <3>1 DEF Is, At
    <3>3. IsAsked(t) => agent.exists
      BY NewAgents, Constants DEF IsAsked, AgentOK
    <3>4. IsAsked(t) => IsAsked(t)'
      BY <2>1, <2>2, <3>3 DEF IsAsked, Appears
    <3> QED
      BY <1>1, <2>1, <3>1, <3>2, <3>4
  <2>3. ASSUME Vanishes
        PROVE  PendingOK'
    <3>1. Shifted(1) /\ Is(1, "vanished") /\ UNCHANGED auth /\ 1 \in DOMAIN queue
      BY <2>3 DEF Vanishes, Is
    <3> SUFFICES ASSUME NEW t \in Transfers, auth[t] = "pending"
                 PROVE  OnItsWay(t)' \/ (IsAsked(t)' /\ Undisturbed(0)')
      BY <3>1 DEF PendingOK
    <3>2. ~At(1, "authorize", t) /\ ~Undisturbed(0)
      BY <3>1 DEF Is, At, Undisturbed, Disturbs
    <3> QED
      BY <2>1, <3>1, <3>2, WayKept DEF PendingOK
  <2>4. ASSUME Loads
        PROVE  PendingOK'
    <3>1. UNCHANGED <<auth, agent>> /\ SentOne([kind |-> IF obexd.up THEN "appeared" ELSE "vanished"])
      BY <2>4 DEF Loads
    <3> SUFFICES ASSUME NEW t \in Transfers, auth[t] = "pending"
                 PROVE  OnItsWay(t)' \/ (IsAsked(t)' /\ Undisturbed(0)')
      BY <3>1 DEF PendingOK
    <3>2. obexd.up
      BY DEF LivesOK
    <3>3. [kind |-> IF obexd.up THEN "appeared" ELSE "vanished"].kind \notin Disturbs
      BY <3>2 DEF Disturbs
    <3>4. IsAsked(t) => IsAsked(t)'
      BY <2>1, <3>1 DEF IsAsked
    <3> QED
      BY <1>1, <2>1, <3>1, <3>3, <3>4
  <2>5. ASSUME Unloads
        PROVE  PendingOK'
    <3> SUFFICES ASSUME NEW t \in Transfers, auth'[t] = "pending"
                 PROVE  OnItsWay(t)' \/ (IsAsked(t)' /\ Undisturbed(0)')
      BY DEF PendingOK
    <3>1. Muted /\ auth[t] = "pending"
      BY <2>5 DEF Unloads
    <3>2. IsAsked(t) => IsAsked(t)'
      <4>1. CASE agent.exists /\ CloseRaises
        BY <2>1, <2>5, <4>1 DEF Unloads, Destroyed, IsAsked
      <4>2. CASE agent.exists /\ ~CloseRaises
        BY <2>5, <4>2 DEF Unloads
      <4>3. CASE ~agent.exists
        BY <4>3, NewAgents, Constants DEF IsAsked, AgentOK
      <4> QED
        BY <4>1, <4>2, <4>3
    <3> QED
      BY <1>1, <2>1, <3>1, <3>2
  <2> QED
    BY <1>5, <2>2, <2>3, <2>4, <2>5, PluginEffects
<1> QED
  BY <1>2, <1>3, <1>4, <1>5, Steps

\* A message is handled.
LEMMA SafeShifted ==
    ASSUME QueueDomain, QueueDomain', Shifted(1), NEW t \in Transfers,
           NEW k \in 0 .. Len(queue'), NEW h \in Nat, Safe(t, h),
           h = k + 1 \/ (h = 0 /\ k = 0 /\ queue[1].kind \notin {"cancel", "vanished"}),
           reports'[t].completed = 0 \/ GoesAfter(h),
           auth'[t] = "over" => auth[t] = "over",
           t \in tracker'.tracked => t \in tracker.tracked \/ At(1, "added", t)
    PROVE  Safe(t, k)'
<1>1. \A j \in DOMAIN queue : j > h /\ Closes(j) => j > 1 /\ j - 1 > k
  BY DEF QueueDomain, Closes
<1>2. \A j \in DOMAIN queue : j > 1 => j - 1 \in DOMAIN queue' /\ queue'[j - 1] = queue[j]
  BY DEF Shifted
<1>3. GoesAfter(h) => GoesAfter(k)'
  <2>1. ASSUME NEW j \in DOMAIN queue, j > h, Is(j, "vanished")
        PROVE  j - 1 \in DOMAIN queue' /\ j - 1 > k /\ Is(j - 1, "vanished")'
    <3>1. Closes(j)
      BY <2>1 DEF Is, Closes
    <3>2. j > 1 /\ j - 1 > k
      BY <1>1, <2>1, <3>1
    <3> QED
      BY <1>2, <2>1, <3>2 DEF Is
  <2> QED
    BY <2>1 DEF GoesAfter
<1>4. \A j \in DOMAIN queue : j > h /\ Closes(j) => j - 1 \in DOMAIN queue' /\ j - 1 > k /\ Closes(j - 1)'
  <2> TAKE j \in DOMAIN queue
  <2> HAVE j > h /\ Closes(j)
  <2>1. j > 1 /\ j - 1 > k
    BY <1>1
  <2> QED
    BY <1>2, <2>1 DEF Closes
<1>5. auth'[t] = "over" => \E j \in DOMAIN queue' : j > k /\ Closes(j)'
  BY <1>4 DEF Safe
<1>6. ASSUME NEW i \in DOMAIN queue', Ends(i, t)'
      PROVE  \/ \E j \in DOMAIN queue' : k < j /\ j < i /\ Closes(j)'
             \/ GoesAfter(k)'
             \/ Unheeded(i, t)'
  <2>1. i + 1 \in DOMAIN queue /\ Ends(i + 1, t)
    BY <1>6 DEF Shifted, Ends, At, Is
  <2>2. CASE \E j \in DOMAIN queue : h < j /\ j < i + 1 /\ Closes(j)
    <3>1. PICK j \in DOMAIN queue : h < j /\ j < i + 1 /\ Closes(j)
      BY <2>2
    <3>2. j - 1 \in DOMAIN queue' /\ j - 1 > k /\ Closes(j - 1)'
      BY <1>4, <3>1
    <3>3. j - 1 < i
      BY <3>1 DEF QueueDomain
    <3> QED
      BY <3>2, <3>3
  <2>3. CASE Unheeded(i + 1, t)
    <3>1. Is(i, "lost")'
      BY <1>6, <2>3 DEF Unheeded, Is, Shifted
    <3>2. \A j \in 1 .. i : ~At(j, "added", t)
      BY <2>3 DEF Unheeded, QueueDomain
    <3>3. t \notin tracker'.tracked
      BY <1>6, <2>3, <3>2 DEF Unheeded, QueueDomain
    <3>4. \A j \in 1 .. i - 1 : ~At(j, "added", t)'
      <4> SUFFICES ASSUME NEW j \in 1 .. i - 1, At(j, "added", t)'
                   PROVE  FALSE
        OBVIOUS
      <4>1. j \in DOMAIN queue' /\ j + 1 \in 1 .. i
        BY <1>6 DEF QueueDomain
      <4>2. At(j + 1, "added", t)
        BY <4>1 DEF Shifted, At
      <4> QED
        BY <3>2, <4>1, <4>2
    <3> QED
      BY <3>1, <3>3, <3>4 DEF Unheeded
  <2> QED
    BY <1>3, <2>1, <2>2, <2>3 DEF Safe
<1> QED
  BY <1>3, <1>5, <1>6 DEF Safe

\* Messages are sent, or none.
LEMMA SafeExtended ==
    ASSUME QueueDomain, QueueDomain', Extended, NEW t \in Transfers,
           NEW k \in 0 .. Len(queue), Safe(t, k),
           reports'[t].completed = reports[t].completed, tracker'.tracked = tracker.tracked,
           auth'[t] = "over" => auth[t] = "over" \/ \E j \in DOMAIN queue' : j > k /\ Closes(j)',
           \A i \in DOMAIN queue' : i \notin DOMAIN queue /\ Ends(i, t)' =>
              \/ \E j \in DOMAIN queue : k < j /\ j < i /\ Closes(j)
              \/ GoesAfter(k)'
    PROVE  Safe(t, k)'
<1>1. \A j \in DOMAIN queue : j \in DOMAIN queue' /\ (Closes(j) => Closes(j)')
  BY DEF Extended, Closes
<1>2. GoesAfter(k) => GoesAfter(k)'
  BY DEF GoesAfter, Extended, Is
<1>3. ASSUME NEW i \in DOMAIN queue', Ends(i, t)'
      PROVE  \/ \E j \in DOMAIN queue' : k < j /\ j < i /\ Closes(j)'
             \/ GoesAfter(k)'
             \/ Unheeded(i, t)'
  <2>1. CASE i \notin DOMAIN queue
    BY <1>1, <1>3, <2>1
  <2>2. CASE i \in DOMAIN queue
    <3>1. Ends(i, t)
      BY <1>3, <2>2 DEF Extended, Ends, At, Is
    <3>2. Unheeded(i, t) => Unheeded(i, t)'
      BY <2>2 DEF Unheeded, Extended, Is, At, QueueDomain
    <3> QED
      BY <1>1, <1>2, <2>2, <3>1, <3>2 DEF Safe
  <2> QED
    BY <2>1, <2>2
<1>4. auth'[t] = "over" => \E j \in DOMAIN queue' : j > k /\ Closes(j)'
  BY <1>1 DEF Safe
<1> QED
  BY <1>2, <1>3, <1>4 DEF Safe

\* What is due when a message has been handled that makes no agent was due before.
LEMMA DueShifted ==
    ASSUME QueueDomain, QueueDomain', Shifted(1), NEW t \in Transfers, NEW k \in 0 .. Len(queue'), Due(t, k)',
           agent'.open /\ k = 0 => agent.open /\ agent'.note = agent.note,
           agent'.exists /\ agent'.note # Unshown => Meets(k + 1)
    PROVE  \E h \in 0 .. Len(queue) : (h = k + 1 \/ (h = 0 /\ k = 0)) /\ Due(t, h)
<1>1. CASE k = 0 /\ agent'.open /\ agent'.note = t
  <2>1. Due(t, 0) /\ 0 \in 0 .. Len(queue)
    BY <1>1 DEF Due, QueueDomain
  <2> QED
    BY <1>1, <2>1
<1>2. CASE At(k, "authorize", t)' /\ Meets(k)'
  <2>1. k \in DOMAIN queue' /\ k + 1 \in 0 .. Len(queue)
    BY <1>2 DEF At, QueueDomain, Shifted
  <2>2. At(k + 1, "authorize", t)
    BY <1>2, <2>1 DEF At, Shifted
  <2>3. Meets(k + 1)
    <3>1. CASE \E j \in 1 .. k - 1 : Is(j, "appeared")'
      <4>1. PICK j \in 1 .. k - 1 : Is(j, "appeared")'
        BY <3>1
      <4>2. j \in DOMAIN queue' /\ j + 1 \in 1 .. (k + 1) - 1
        BY <2>1, <4>1 DEF QueueDomain
      <4>3. Is(j + 1, "appeared")
        BY <4>1, <4>2 DEF Is, Shifted
      <4> QED
        BY <4>2, <4>3 DEF Meets
    <3> QED
      BY <1>2, <3>1 DEF Meets
  <2> QED
    BY <2>1, <2>2, <2>3 DEF Due
<1> QED
  BY <1>1, <1>2 DEF Due

\* A call that is or will be asked about waits, or its caller has gone.
LEMMA DueIsOpen ==
    ASSUME RestOK, AgentOK, AnswersOK, NEW t \in Transfers, NEW k, Due(t, k)
    PROVE  auth[t] \in {"pending", "over"} /\ (agent.open => agent.exists /\ agent.note # Unshown)
<1>1. agent.open => agent.exists /\ agent.note # Unshown
  BY NewAgents, Constants DEF AgentOK, RestOK
<1>2. CASE k = 0 /\ agent.open /\ agent.note = t
  BY <1>1, <1>2 DEF AnswersOK
<1>3. CASE At(k, "authorize", t)
  <2>1. auth[t] # "none" /\ answers[t] = 0
    BY <1>3 DEF AnswersOK, At
  <2> QED
    BY <1>1, <2>1 DEF AnswersOK, RestOK
<1> QED
  BY <1>2, <1>3 DEF Due

\* Without a watch of the name nothing will be asked.
LEMMA NothingDue ==
    ASSUME RestOK, AgentOK, ~service.watching, NEW t \in Transfers, NEW k, Due(t, k), AnswersOK
    PROVE  FALSE
<1>1. ~Meets(k)
  BY DEF AgentOK, Meets, Is
<1>2. agent.open => agent.exists /\ agent.note # Unshown
  BY DueIsOpen
<1> QED
  BY <1>1, <1>2 DEF Due, AgentOK

LEMMA QuestionsExtended ==
    ASSUME QueueOK, RestOK, AgentOK, LivesOK, HeardOK, AnswersOK, ReportsOK, QuestionsOK, ObexdStep
    PROVE  QuestionsOK'
<1>1. ObexdSame /\ QueueDomain /\ QueueDomain'
  BY ObexdEffects
<1>2. UNCHANGED <<tracker, reports, agent>>
  BY <1>1 DEF ObexdSame
\* What was due stays so.
<1>3. ASSUME Extended, NEW t \in Transfers, NEW k \in 0 .. Len(queue), Due(t, k)'
      PROVE  Due(t, k) /\ Safe(t, k)
  <2>1. Meets(k)' => Meets(k)
    BY <1>1, <1>2, <1>3 DEF Meets, Is, Extended, QueueDomain
  <2>2. At(k, "authorize", t)' => At(k, "authorize", t)
    BY <1>1, <1>3 DEF At, Extended, QueueDomain
  <2> QED
    BY <1>2, <1>3, <2>1, <2>2 DEF Due, QuestionsOK
\* A message that ends nothing is sent, or none.
<1>4. ASSUME NEW m, SentOne(m), m.kind \notin {"removed", "status", "lost", "authorize"},
             \A t \in Transfers : auth'[t] = "over" => auth[t] = "over" \/ m.kind = "cancel"
      PROVE  QuestionsOK'
  <2> SUFFICES ASSUME NEW t \in Transfers, NEW k \in 0 .. Len(queue'), Due(t, k)'
               PROVE  Safe(t, k)'
    BY DEF QuestionsOK
  <2>1. Extended /\ k \in 0 .. Len(queue)
    BY <1>1, <1>2, <1>4 DEF SentOne, Due, At, QueueDomain
  <2>2. Due(t, k) /\ Safe(t, k)
    BY <1>3, <2>1
  <2>3. \A i \in DOMAIN queue' : i \notin DOMAIN queue => ~Ends(i, t)'
    BY <1>4 DEF SentOne, Ends, At, Is
  <2>4. auth'[t] = "over" => auth[t] = "over" \/ \E j \in DOMAIN queue' : j > k /\ Closes(j)'
    <3>1. CASE m.kind = "cancel"
      <4>1. PICK j \in DOMAIN queue' : j = Len(queue) + 1
        BY <1>4 DEF SentOne
      <4>2. j > k /\ Closes(j)'
        BY <1>1, <1>4, <2>1, <3>1, <4>1 DEF SentOne, Closes, QueueDomain
      <4> QED
        BY <4>2
    <3> QED
      BY <1>4, <3>1
  <2> QED
    BY <1>1, <1>2, <2>1, <2>2, <2>3, <2>4, SafeExtended
<1>5. ASSUME UNCHANGED <<queue, auth>>
      PROVE  QuestionsOK'
  BY <1>2, <1>5 DEF QuestionsOK, Due, Safe, Meets, GoesAfter, Closes, Unheeded, Ends, At, Is
\* An object is removed or ends: nothing is due about it but what has been given up.
<1>6. ASSUME NEW u \in Transfers, auth[u] \notin {"none", "pending"}, UNCHANGED auth, NEW m, SentOne(m),
             m.kind \in {"removed", "status"}, m.t = u
      PROVE  QuestionsOK'
  <2> SUFFICES ASSUME NEW t \in Transfers, NEW k \in 0 .. Len(queue'), Due(t, k)'
               PROVE  Safe(t, k)'
    BY DEF QuestionsOK
  <2>1. Extended /\ k \in 0 .. Len(queue)
    BY <1>1, <1>2, <1>6 DEF SentOne, Due, At, QueueDomain
  <2>2. Due(t, k) /\ Safe(t, k)
    BY <1>3, <2>1
  <2>3. ASSUME NEW i \in DOMAIN queue', i \notin DOMAIN queue, Ends(i, t)'
        PROVE  \E j \in DOMAIN queue : k < j /\ j < i /\ Closes(j)
    <3>1. t = u /\ i = Len(queue) + 1
      BY <1>6, <2>3 DEF SentOne, Ends, At, Is
    <3>2. auth[t] = "over"
      BY <1>6, <2>2, <3>1, DueIsOpen
    <3>3. PICK j \in DOMAIN queue : j > k /\ Closes(j)
      BY <2>2, <3>2 DEF Safe
    <3>4. j < i
      BY <1>1, <3>1 DEF QueueDomain
    <3> QED
      BY <3>3, <3>4 DEF Closes
  <2> QED
    BY <1>1, <1>2, <1>6, <2>1, <2>2, <2>3, SafeExtended
<1>7. ASSUME Crash
      PROVE  QuestionsOK'
  <2> SUFFICES ASSUME NEW t \in Transfers, NEW k \in 0 .. Len(queue'), Due(t, k)'
               PROVE  Safe(t, k)'
    BY DEF QuestionsOK
  <2>1. Extended /\ \A i \in DOMAIN queue' : i \in DOMAIN queue \/ queue'[i].kind # "authorize"
    BY <1>7, CrashQueue DEF SentOne, SentTwo
  <2>2. k \in 0 .. Len(queue)
    BY <1>1, <1>2, <2>1 DEF Due, At, QueueDomain
  <2>3. Due(t, k) /\ Safe(t, k)
    BY <1>3, <2>1, <2>2
  <2>4. service.watching
    BY <2>3, NothingDue
  <2>5. SentTwo("lost", "vanished") \/ SentTwo("vanished", "lost")
    BY <1>7, <2>4, CrashQueue
  <2>6. PICK j \in DOMAIN queue' : j > Len(queue) /\ queue'[j].kind = "vanished"
    <3>1. Len(queue) \in Nat /\ Len(queue) + 1 > Len(queue) /\ Len(queue) + 2 > Len(queue)
      BY <1>1 DEF QueueDomain
    <3>2. CASE SentTwo("lost", "vanished")
      <4>1. Len(queue) + 2 \in DOMAIN queue' /\ queue'[Len(queue) + 2].kind = "vanished"
        BY <3>2 DEF SentTwo
      <4> QED
        BY <3>1, <4>1
    <3>3. CASE SentTwo("vanished", "lost")
      <4>1. Len(queue) + 1 \in DOMAIN queue' /\ queue'[Len(queue) + 1].kind = "vanished"
        BY <3>3 DEF SentTwo
      <4> QED
        BY <3>1, <4>1
    <3> QED
      BY <2>5, <3>2, <3>3
  <2>7. j > k /\ Is(j, "vanished")' /\ Closes(j)'
    BY <1>1, <2>2, <2>6 DEF Is, Closes, QueueDomain
  <2>8. GoesAfter(k)'
    BY <2>7 DEF GoesAfter
  <2> QED
    BY <1>1, <1>2, <2>1, <2>2, <2>3, <2>7, <2>8, SafeExtended
<1>8. ASSUME NEW u \in Transfers, Ask(u), SentOne([kind |-> "authorize", t |-> u])
      PROVE  QuestionsOK'
  <2> SUFFICES ASSUME NEW t \in Transfers, NEW k \in 0 .. Len(queue'), Due(t, k)'
               PROVE  Safe(t, k)'
    BY DEF QuestionsOK
  <2>1. Extended
    BY <1>8 DEF SentOne
  <2>2. /\ object[u].state = "live" /\ \A v \in Transfers : auth'[v] = IF v = u THEN "pending" ELSE auth[v]
        /\ UNCHANGED object
    BY <1>8, AuthFields
  <2>3. CASE k \in 0 .. Len(queue)
    <3>1. Safe(t, k)
      BY <1>3, <2>1, <2>3
    <3>2. \A i \in DOMAIN queue' : i \notin DOMAIN queue => ~Ends(i, t)'
      BY <1>8 DEF SentOne, Ends, At, Is
    <3>3. auth'[t] = "over" => auth[t] = "over"
      BY <2>2
    <3> QED
      BY <1>1, <1>2, <2>1, <2>3, <3>1, <3>2, <3>3, SafeExtended
  <2>4. CASE k \notin 0 .. Len(queue)
    <3>1. k = Len(queue) + 1 /\ t = u
      BY <1>1, <1>8, <2>4 DEF SentOne, Due, At, QueueDomain
    <3>2. reports[u].completed = 0
      <4>1. reports[u].completed \in Nat
        BY DEF RestOK, Reports
      <4>2. ~(reports[u].completed > 0)
        BY <2>2 DEF ReportsOK
      <4> QED
        BY <4>1, <4>2
    <3>3. ASSUME NEW i \in DOMAIN queue', Ends(i, t)'
          PROVE  Unheeded(i, t)'
      <4>1. i \in DOMAIN queue /\ Ends(i, t)
        BY <1>8, <3>3 DEF SentOne, Extended, Ends, At, Is
      <4>2. Is(i, "lost") /\ t \notin tracker.tracked /\ \A j \in 1 .. i - 1 : ~At(j, "added", t)
        BY <2>2, <3>1, <4>1 DEF Ends, HeardOK
      <4> QED
        BY <1>1, <1>2, <2>1, <4>1, <4>2 DEF Unheeded, Extended, Is, At, QueueDomain
    <3>4. auth'[t] # "over"
      BY <2>2, <3>1
    <3>5. reports'[t].completed = 0
      BY <1>2, <3>1, <3>2
    <3> QED
      BY <3>3, <3>4, <3>5 DEF Safe
  <2> QED
    BY <2>3, <2>4
<1>9. ASSUME Unheard, Shifted(1), Is(1, "unheard")
      PROVE  QuestionsOK'
  <2> SUFFICES ASSUME NEW t \in Transfers, NEW k \in 0 .. Len(queue'), Due(t, k)'
               PROVE  Safe(t, k)'
    BY DEF QuestionsOK
  <2>1. UNCHANGED auth /\ queue[1].kind \notin {"cancel", "vanished"}
    BY <1>9 DEF Unheard, Is
  <2>2. PICK h \in 0 .. Len(queue) : (h = k + 1 \/ (h = 0 /\ k = 0)) /\ Due(t, h)
    <3>1. agent'.exists /\ agent'.note # Unshown => Meets(k + 1)
      BY <1>2 DEF Meets
    <3>2. agent'.open /\ k = 0 => agent.open /\ agent'.note = agent.note
      BY <1>2
    <3> QED
      BY <1>1, <1>9, <3>1, <3>2, DueShifted
  <2>3. Safe(t, h) /\ h \in Nat
    BY <1>1, <2>2 DEF QuestionsOK, QueueDomain
  <2>4. reports'[t].completed = 0 \/ GoesAfter(h)
    BY <1>2, <2>3 DEF Safe
  <2> QED
    BY <1>1, <1>2, <1>9, <2>1, <2>2, <2>3, <2>4, SafeShifted
<1>10. ASSUME NEW t \in Transfers, RemoveTransfer(t), SentOne([kind |-> "removed", t |-> t])
       PROVE  QuestionsOK'
  <2>1. auth[t] # "pending" /\ UNCHANGED auth
    BY <1>10 DEF RemoveTransfer
  <2>2. CASE auth[t] = "none"
    <3> SUFFICES ASSUME NEW u \in Transfers, NEW k \in 0 .. Len(queue'), Due(u, k)'
                 PROVE  Safe(u, k)'
      BY DEF QuestionsOK
    <3>1. Extended /\ k \in 0 .. Len(queue)
      BY <1>1, <1>2, <1>10 DEF SentOne, Due, At, QueueDomain
    <3>2. Due(u, k) /\ Safe(u, k)
      BY <1>3, <3>1
    <3>3. u # t
      BY <2>2, <3>2, DueIsOpen
    <3>4. \A i \in DOMAIN queue' : i \notin DOMAIN queue => ~Ends(i, u)'
      BY <1>10, <3>3 DEF SentOne, Ends, At, Is
    <3> QED
      BY <1>1, <1>2, <2>1, <3>1, <3>2, <3>4, SafeExtended
  <2>3. CASE auth[t] # "none"
    <3>1. [kind |-> "removed", t |-> t].kind \in {"removed", "status"} /\ [kind |-> "removed", t |-> t].t = t
      OBVIOUS
    <3> QED
      BY <1>6, <1>10, <2>1, <2>3, <3>1
  <2> QED
    BY <2>2, <2>3
<1>11. ASSUME NEW t \in Transfers, NEW b \in BOOLEAN, EndTransfer(t, b),
              SentOne([kind |-> "status", t |-> t, success |-> b])
       PROVE  QuestionsOK'
  <2>1. auth[t] = "accepted" /\ UNCHANGED auth
    BY <1>11 DEF EndTransfer
  <2>2. /\ [kind |-> "status", t |-> t, success |-> b].kind \in {"removed", "status"}
        /\ [kind |-> "status", t |-> t, success |-> b].t = t
    OBVIOUS
  <2> QED
    BY <1>6, <1>11, <2>1, <2>2
<1>12. ASSUME NEW t \in Transfers, GiveUp(t), SentOne([kind |-> "cancel", t |-> t])
       PROVE  QuestionsOK'
  BY <1>4, <1>12
<1>13. ASSUME NEW t \in Transfers, Announce(t), SentOne([kind |-> "added", t |-> t])
       PROVE  QuestionsOK'
  BY <1>4, <1>13 DEF Announce
<1>14. ASSUME NEW d \in Devices, EndSession(d), SentOne([kind |-> "session"])
       PROVE  QuestionsOK'
  BY <1>4, <1>14 DEF EndSession
<1>15. ASSUME Restart
       PROVE  QuestionsOK'
  <2>1. UNCHANGED auth
    BY <1>15 DEF Restart
  <2>2. SentOne([kind |-> "appeared"]) \/ UNCHANGED queue
    BY <1>15, RestartQueue
  <2> QED
    BY <1>4, <1>5, <2>1, <2>2
<1>16. ASSUME NEW t \in Transfers, NEW d \in Devices, NEW large \in BOOLEAN, ExportTransfer(t, d, large)
       PROVE  QuestionsOK'
  BY <1>5, <1>16 DEF ExportTransfer
<1> QED
  BY <1>7, <1>8, <1>9, <1>10, <1>11, <1>12, <1>13, <1>14, <1>15, <1>16, ObexdEffects

\* The tracker completes no transfer that the user is or will be asked about, but where the agent
\* goes first.
LEMMA QuestionsHeard ==
    ASSUME QueueOK, RestOK, AgentOK, QuestionsOK, TrackerStep
    PROVE  QuestionsOK'
<1>1. /\ SameNote /\ Shifted(1) /\ QueueDomain /\ QueueDomain' /\ UNCHANGED auth
      /\ \E k \in {"added", "status", "removed", "lost", "session"} : Is(1, k)
      /\ \A t \in tracker'.tracked : t \in tracker.tracked \/ At(1, "added", t)
  BY TrackerEffects
<1> SUFFICES ASSUME NEW t \in Transfers, NEW k \in 0 .. Len(queue'), Due(t, k)'
             PROVE  Safe(t, k)'
  BY DEF QuestionsOK
<1>2. PICK h \in 0 .. Len(queue) : (h = k + 1 \/ (h = 0 /\ k = 0)) /\ Due(t, h)
  <2>1. agent'.exists /\ agent'.note # Unshown => Meets(k + 1)
    BY <1>1 DEF SameNote, Meets
  <2>2. agent'.open /\ k = 0 => agent.open /\ agent'.note = agent.note
    BY <1>1 DEF SameNote
  <2> QED
    BY <1>1, <2>1, <2>2, DueShifted
<1>3. Safe(t, h) /\ h \in Nat
  BY <1>1, <1>2 DEF QuestionsOK, QueueDomain
<1>4. Ends(1, t) => GoesAfter(h) \/ Unheeded(1, t)
  <2>1. 1 \in DOMAIN queue
    BY <1>1 DEF Is
  <2>2. \A j \in DOMAIN queue : ~(h < j /\ j < 1)
    BY <1>1, <1>3 DEF QueueDomain
  <2> QED
    BY <1>3, <2>1, <2>2 DEF Safe
<1>5. reports'[t].completed = 0 \/ GoesAfter(h)
  <2>1. reports'[t].completed = reports[t].completed \/ (Ends(1, t) /\ ~Unheeded(1, t))
    <3>1. ASSUME NEW u \in Transfers, Starts(u)
          PROVE  reports'[t].completed = reports[t].completed
      BY <3>1 DEF Starts
    <3>2. ASSUME NEW u \in Transfers, Completes(u)
          PROVE  reports'[t].completed = reports[t].completed \/ (Ends(1, t) /\ ~Unheeded(1, t))
      <4>1. reports'[t].completed = reports[t].completed \/ t = u
        BY <3>2 DEF Completes
      <4>2. Ends(1, u) /\ ~Unheeded(1, u)
        BY <3>2 DEF Completes, Ends, Unheeded, At, Is
      <4> QED
        BY <4>1, <4>2
    <3>3. ASSUME LosesAll
          PROVE  reports'[t].completed = reports[t].completed \/ (Ends(1, t) /\ ~Unheeded(1, t))
      BY <3>3 DEF LosesAll, Ends, Unheeded
    <3>4. ASSUME Quiet
          PROVE  reports'[t].completed = reports[t].completed
      BY <3>4 DEF Quiet
    <3> QED
      BY <3>1, <3>2, <3>3, <3>4, ReportEffects
  <2> QED
    BY <1>3, <1>4, <2>1 DEF Safe
<1>6. queue[1].kind \notin {"cancel", "vanished"}
  BY <1>1 DEF Is
<1> QED
  BY <1>1, <1>2, <1>3, <1>5, <1>6, SafeShifted

\* The agent is asked, and what the user does.
LEMMA QuestionsAsked ==
    ASSUME QueueOK, RestOK, AgentOK, QuestionsOK, AgentStep
    PROVE  QuestionsOK'
<1>1. QueueDomain /\ QueueDomain' /\ UNCHANGED <<tracker, reports>>
  BY AgentEffects
<1>2. /\ agent.open => agent.exists /\ agent.note # Unshown
      /\ agent.exists /\ ~CloseRaises => agent.note # Unshown
      /\ CloseRaises => agent.note = Unshown
  BY NewAgents, Constants DEF AgentOK, RestOK, CloseRaises
<1>3. \A t \in Transfers : auth'[t] = "over" => auth[t] = "over"
  BY AnswerFields
\* The first message is handled.
<1>4. ASSUME Shifted(1), NEW t \in Transfers, NEW k \in 0 .. Len(queue'), Due(t, k)',
             agent'.open /\ k = 0 => agent.open /\ agent'.note = agent.note,
             agent'.exists /\ agent'.note # Unshown => agent.exists /\ agent.note # Unshown,
             k = 0 => queue[1].kind \notin {"cancel", "vanished"}
      PROVE  Safe(t, k)'
  <2>1. PICK h \in 0 .. Len(queue) : (h = k + 1 \/ (h = 0 /\ k = 0)) /\ Due(t, h)
    <3>1. agent'.exists /\ agent'.note # Unshown => Meets(k + 1)
      BY <1>4 DEF Meets
    <3> QED
      BY <1>1, <1>4, <3>1, DueShifted
  <2>2. Safe(t, h) /\ h \in Nat
    BY <1>1, <2>1 DEF QuestionsOK, QueueDomain
  <2>3. reports'[t].completed = 0 \/ GoesAfter(h)
    BY <1>1, <2>2 DEF Safe
  <2> QED
    BY <1>1, <1>3, <1>4, <2>1, <2>2, <2>3, SafeShifted
\* None is.
<1>5. ASSUME UNCHANGED queue, NEW t \in Transfers, NEW k \in 0 .. Len(queue), Due(t, k)
      PROVE  Safe(t, k)'
  <2>1. Safe(t, k) /\ Extended
    BY <1>5, Shifts DEF QuestionsOK
  <2> QED
    BY <1>1, <1>3, <1>5, <2>1, SafeExtended
<1>6. ASSUME NEW u \in Transfers, Authorizes(u)
      PROVE  QuestionsOK'
  <2> SUFFICES ASSUME NEW t \in Transfers, NEW k \in 0 .. Len(queue'), Due(t, k)'
               PROVE  Safe(t, k)'
    BY DEF QuestionsOK
  <2>1. Shifted(1) /\ At(1, "authorize", u) /\ queue[1].kind \notin {"cancel", "vanished"}
    BY <1>6 DEF Authorizes, At
  <2>2. CASE k = 0 /\ agent'.open /\ ~(agent.open /\ agent'.note = agent.note)
    <3>1. NoteIs(u, TRUE) /\ agent.exists /\ ~CloseRaises
      BY <1>6, <2>2 DEF Authorizes, NoteIs
    <3>2. t = u
      BY <1>1, <2>2, <3>1 DEF Due, At, NoteIs, QueueDomain
    <3>3. Due(t, 1)
      BY <1>2, <2>1, <3>1, <3>2 DEF Due, Meets
    <3>4. 1 \in 0 .. Len(queue)
      BY <1>1, <2>1 DEF At, QueueDomain
    <3>5. Safe(t, 1) /\ 1 \in Nat
      BY <3>3, <3>4 DEF QuestionsOK
    <3>6. reports'[t].completed = 0 \/ GoesAfter(1)
      BY <1>1, <3>5 DEF Safe
    <3> QED
      BY <1>1, <1>3, <2>1, <2>2, <3>5, <3>6, SafeShifted
  <2>3. CASE ~(k = 0 /\ agent'.open) \/ (agent.open /\ agent'.note = agent.note)
    <3>1. agent'.exists /\ agent'.note # Unshown => agent.exists /\ agent.note # Unshown
      BY <1>2, <1>6 DEF Authorizes, NoteIs
    <3> QED
      BY <1>4, <2>1, <2>3, <3>1
  <2> QED
    BY <2>2, <2>3
<1>7. ASSUME NEW u \in Transfers, Clicks(u)
      PROVE  QuestionsOK'
  <2> SUFFICES ASSUME NEW t \in Transfers, NEW k \in 0 .. Len(queue'), Due(t, k)'
               PROVE  Safe(t, k)'
    BY DEF QuestionsOK
  <2>1. UNCHANGED queue /\ ~agent'.open /\ agent.open
    BY <1>7 DEF Clicks, NoteIs
  <2>2. Due(t, k)
    BY <1>2, <2>1 DEF Due, Meets, At, Is
  <2> QED
    BY <1>5, <2>1, <2>2
<1>8. ASSUME Cancels
      PROVE  QuestionsOK'
  <2> SUFFICES ASSUME NEW t \in Transfers, NEW k \in 0 .. Len(queue'), Due(t, k)'
               PROVE  Safe(t, k)'
    BY DEF QuestionsOK
  <2>1. Shifted(1) /\ ~agent'.open
    BY <1>2, <1>8 DEF Cancels, NoteIs
  <2>2. k # 0
    BY <1>1, <2>1 DEF Due, At, QueueDomain
  <2>3. agent'.exists /\ agent'.note # Unshown => agent.exists /\ agent.note # Unshown
    BY <1>2, <1>8 DEF Cancels, NoteIs
  <2> QED
    BY <1>4, <2>1, <2>2, <2>3
<1>9. ASSUME Expires
      PROVE  QuestionsOK'
  <2> SUFFICES ASSUME NEW t \in Transfers, NEW k \in 0 .. Len(queue'), Due(t, k)'
               PROVE  Safe(t, k)'
    BY DEF QuestionsOK
  <2>1. /\ UNCHANGED queue /\ agent'.exists = agent.exists /\ agent'.note = agent.note
        /\ agent'.open => agent.open
    BY <1>9 DEF Expires, NoteIs
  <2>2. Due(t, k)
    BY <2>1 DEF Due, Meets, At, Is
  <2> QED
    BY <1>5, <2>1, <2>2
<1> QED
  BY <1>6, <1>7, <1>8, <1>9, AgentEffects

\* The plugin makes the agent, or destroys it.
LEMMA QuestionsLeft ==
    ASSUME QueueOK, RestOK, AgentOK, AnswersOK, QuestionsOK, PluginStep
    PROVE  QuestionsOK'
<1>1. QueueDomain /\ QueueDomain'
  BY PluginEffects
<1>2. Quiet
  BY UncountedIsQuiet, PluginEffects DEF Appears, Vanishes, Loads, Unloads, Reset, SameCounts, Quiet
<1>3. NoAgent.open = FALSE /\ NoAgent.exists = FALSE /\ NewAgent.open = FALSE
  BY NewAgents
<1>4. CloseRaises => ~agent.open
  BY Constants DEF CloseRaises, RestOK
<1>5. ASSUME Shifted(1), NEW t \in Transfers, NEW k \in 0 .. Len(queue'), Due(t, k)', UNCHANGED <<auth, tracker>>,
             agent'.open /\ k = 0 => agent.open /\ agent'.note = agent.note,
             agent'.exists /\ agent'.note # Unshown => Meets(k + 1),
             k = 0 => queue[1].kind \notin {"cancel", "vanished"}
      PROVE  Safe(t, k)'
  <2>1. PICK h \in 0 .. Len(queue) : (h = k + 1 \/ (h = 0 /\ k = 0)) /\ Due(t, h)
    BY <1>1, <1>5, DueShifted
  <2>2. Safe(t, h) /\ h \in Nat
    BY <1>1, <2>1 DEF QuestionsOK, QueueDomain
  <2>3. reports'[t].completed = 0 \/ GoesAfter(h)
    BY <1>2, <2>2 DEF Safe, Quiet
  <2> QED
    BY <1>1, <1>5, <2>1, <2>2, <2>3, SafeShifted
<1>6. ASSUME Appears
      PROVE  QuestionsOK'
  <2> SUFFICES ASSUME NEW t \in Transfers, NEW k \in 0 .. Len(queue'), Due(t, k)'
               PROVE  Safe(t, k)'
    BY DEF QuestionsOK
  <2>1. Shifted(1) /\ Is(1, "appeared") /\ UNCHANGED auth /\ tracker'.tracked = tracker.tracked
    BY <1>6 DEF Appears
  <2>2. agent'.open => agent.open /\ agent'.note = agent.note
    BY <1>3, <1>6 DEF Appears
  <2>3. PICK h \in 0 .. Len(queue) : (h = k + 1 \/ (h = 0 /\ k = 0)) /\ Due(t, h)
    <3>1. CASE k = 0 /\ agent'.open /\ agent'.note = t
      <4>1. Due(t, 0) /\ 0 \in 0 .. Len(queue)
        BY <1>1, <2>2, <3>1 DEF Due, QueueDomain
      <4> QED
        BY <3>1, <4>1
    <3>2. CASE ~(k = 0 /\ agent'.open /\ agent'.note = t)
      <4>1. k \in DOMAIN queue'
        BY <3>2 DEF Due, At
      <4>2. 1 \in 1 .. (k + 1) - 1
        BY <1>1, <4>1 DEF QueueDomain
      <4>3. Meets(k + 1)
        BY <2>1, <4>2 DEF Meets
      <4>4. k = 0 => FALSE
        BY <1>1, <4>1 DEF QueueDomain
      <4> QED
        BY <1>1, <2>1, <4>3, <4>4, DueShifted
    <3> QED
      BY <3>1, <3>2
  <2>4. Safe(t, h) /\ h \in Nat
    BY <1>1, <2>3 DEF QuestionsOK, QueueDomain
  <2>5. reports'[t].completed = 0 \/ GoesAfter(h)
    BY <1>2, <2>4 DEF Safe, Quiet
  <2>6. queue[1].kind \notin {"cancel", "vanished"}
    BY <2>1 DEF Is
  <2> QED
    BY <1>1, <2>1, <2>3, <2>4, <2>5, <2>6, SafeShifted
<1>7. ASSUME Vanishes
      PROVE  QuestionsOK'
  <2> SUFFICES ASSUME NEW t \in Transfers, NEW k \in 0 .. Len(queue'), Due(t, k)'
               PROVE  Safe(t, k)'
    BY DEF QuestionsOK
  <2>1. Shifted(1) /\ UNCHANGED <<auth, tracker>>
    BY <1>7 DEF Vanishes
  <2>2. ~agent'.open
    BY <1>3, <1>4, <1>7 DEF Vanishes, Destroyed
  <2>3. ~(agent'.exists /\ agent'.note # Unshown)
    BY <1>3, <1>7 DEF Vanishes, Destroyed, CloseRaises
  <2>4. k # 0
    BY <1>1, <2>2 DEF Due, At, QueueDomain
  <2> QED
    BY <1>5, <2>1, <2>2, <2>3, <2>4
<1>8. ASSUME Loads
      PROVE  QuestionsOK'
  <2> SUFFICES ASSUME NEW t \in Transfers, NEW k \in 0 .. Len(queue'), Due(t, k)'
               PROVE  FALSE
    BY DEF QuestionsOK
  <2>1. ~service.loaded /\ UNCHANGED agent
    BY <1>8 DEF Loads
  <2>2. ~agent.exists /\ ~service.watching
    BY <2>1 DEF AgentOK
  <2>3. ~agent.open
    BY <1>3, <2>2 DEF AgentOK
  <2>4. PICK j \in 1 .. k - 1 : At(k, "authorize", t)' /\ Is(j, "appeared")'
    BY <2>1, <2>2, <2>3 DEF Due, Meets
  <2>5. /\ \A i \in DOMAIN queue : queue'[i] = queue[i]
        /\ DOMAIN queue' = DOMAIN queue \cup {Len(queue) + 1}
        /\ queue'[Len(queue) + 1].kind \in {"appeared", "vanished"}
    BY <1>8 DEF Loads, SentOne, Extended
  <2>6. k \in DOMAIN queue
    BY <2>4, <2>5 DEF At
  <2>7. j \in DOMAIN queue /\ queue[j].kind = "appeared"
    BY <1>1, <2>4, <2>5, <2>6 DEF Is, QueueDomain
  <2> QED
    BY <2>2, <2>7 DEF AgentOK
<1>9. ASSUME Unloads
      PROVE  QuestionsOK'
  <2> SUFFICES ASSUME NEW t \in Transfers, NEW k \in 0 .. Len(queue'), Due(t, k)'
               PROVE  FALSE
    BY DEF QuestionsOK
  <2>1. ~agent'.open
    BY <1>3, <1>4, <1>9 DEF Unloads, Destroyed
  <2>2. ~(agent'.exists /\ agent'.note # Unshown)
    BY <1>3, <1>9 DEF Unloads, Destroyed, CloseRaises
  <2>3. PICK j : Is(j, "appeared")'
    BY <2>1, <2>2 DEF Due, Meets
  <2>4. /\ DOMAIN queue' = DOMAIN queue
        /\ \A i \in DOMAIN queue : queue[i].kind \notin {"appeared", "vanished"} => queue'[i] = queue[i]
        /\ \A i \in DOMAIN queue : queue[i].kind \in {"appeared", "vanished"} => queue'[i].kind = "unheard"
    BY <1>9 DEF Unloads, Muted
  <2> QED
    BY <2>3, <2>4 DEF Is
<1> QED
  BY <1>6, <1>7, <1>8, <1>9, PluginEffects

\* What the agent keeps of the transfers it authorized has not been completed just now.
LEMMA TransfersDropped ==
    ASSUME QueueOK, RestOK, TrackerStep, agent.exists, service.connected, NEW u \in Transfers, u \in agent'.transfers
    PROVE  u \in agent.transfers /\ reports'[u].completed = reports[u].completed
<1>0. u \in agent.transfers
  BY TrackerEffects
<1>1. ASSUME OnObjectAdded
      PROVE  reports'[u].completed = reports[u].completed
  <2>1. Is(1, "added")
    BY <1>1, Shifts DEF OnObjectAdded
  <2>2. \E t \in Transfers : Starts(t)
    BY <2>1, ReportEffects DEF Is, At, Completes, LosesAll
  <2> QED
    BY <2>2 DEF Starts
<1>2. ASSUME NEW t \in Transfers, NEW b \in BOOLEAN,
             IF t \in tracker.tracked THEN tracker' = Popped(t) /\ EmitCompleted(t, b)
             ELSE UNCHANGED <<tracker, service, agent, reports>>
      PROVE  reports'[u].completed = reports[u].completed
  <2>1. CASE t \in tracker.tracked
    <3>1. u # t
      BY <1>2, <2>1, EmitEffects
    <3> QED
      BY <1>2, <2>1, <3>1, EmitEffects
  <2> QED
    BY <1>2, <2>1
<1>3. ASSUME OnTransferStatus
      PROVE  reports'[u].completed = reports[u].completed
  <2>1. Head(queue).t \in Transfers /\ Head(queue).success \in BOOLEAN
    BY <1>3, Receives, MessageFields DEF OnTransferStatus, About
  <2> QED
    BY <1>2, <1>3, <2>1 DEF OnTransferStatus
<1>4. ASSUME OnObjectRemoved
      PROVE  reports'[u].completed = reports[u].completed
  <2>1. Head(queue).t \in Transfers
    BY <1>4, Receives, MessageFields DEF OnObjectRemoved, About
  <2> QED
    BY <1>2, <1>4, <2>1 DEF OnObjectRemoved
<1>5. ASSUME OnObjectsLost
      PROVE  reports'[u].completed = reports[u].completed
  <2>1. agent' = [agent EXCEPT !.transfers = @ \ {t \in tracker.tracked : Authorized(t)}]
    BY <1>0, <1>5 DEF OnObjectsLost
  <2>2. u \notin {t \in tracker.tracked : Authorized(t)}
    BY <2>1 DEF RestOK, Agents
  <2>3. u \notin tracker.tracked
    BY <1>0, <2>2 DEF Authorized
  <2>4. LosesAll
    <3>1. Is(1, "lost")
      BY <1>5, Shifts DEF OnObjectsLost
    <3> QED
      BY <3>1, ReportEffects DEF Is, At, Starts, Completes
  <2> QED
    BY <2>3, <2>4 DEF LosesAll
<1>6. ASSUME OnSessionRemoved
      PROVE  reports'[u].completed = reports[u].completed
  BY <1>6 DEF OnSessionRemoved, RestOK, Reports
<1> QED
  BY <1>0, <1>1, <1>3, <1>4, <1>5, <1>6 DEF TrackerStep

\* A message that is not handled stays in the queue.
LEMMA QueuedKept ==
    ASSUME QueueDomain, QueueDomain', NEW kind
    PROVE  /\ Extended /\ Queued(kind) => Queued(kind)'
           /\ Shifted(1) /\ Queued(kind) /\ queue[1].kind # kind => Queued(kind)'
           /\ Shifted(1) /\ (\E j \in DOMAIN queue : j > 1 /\ Is(j, kind)) => Queued(kind)'
<1>1. Extended /\ Queued(kind) => Queued(kind)'
  BY DEF Extended, Queued, QueueDomain
<1>2. Shifted(1) /\ (\E j \in DOMAIN queue : j > 1 /\ Is(j, kind)) => Queued(kind)'
  <2> SUFFICES ASSUME Shifted(1), NEW j \in DOMAIN queue, j > 1, Is(j, kind)
               PROVE  Queued(kind)'
    OBVIOUS
  <2>1. j - 1 \in DOMAIN queue' /\ queue'[j - 1].kind = kind
    BY DEF Shifted, Is
  <2> QED
    BY <2>1 DEF Queued, QueueDomain
<1>3. Queued(kind) /\ queue[1].kind # kind => \E j \in DOMAIN queue : j > 1 /\ Is(j, kind)
  BY DEF Queued, QueueDomain, Is
<1> QED
  BY <1>1, <1>2, <1>3

LEMMA OpenKept ==
    ASSUME QueueOK, RestOK, AgentOK, QuestionsOK, AuthorizedIsOpen, Next
    PROVE  AuthorizedIsOpen'
<1>1. CASE ObexdStep
  <2>1. UNCHANGED <<agent, reports>> /\ QueueDomain /\ QueueDomain'
    BY <1>1, ObexdEffects DEF ObexdSame
  <2>2. Extended \/ (Shifted(1) /\ Is(1, "unheard"))
    BY <1>1, ObexdEffects, CrashQueue, RestartQueue, Shifts DEF SentOne, SentTwo
  <2>3. Queued("vanished") => Queued("vanished")'
    BY <2>1, <2>2, QueuedKept DEF Is
  <2> QED
    BY <2>1, <2>3 DEF AuthorizedIsOpen
<1>2. CASE TrackerStep
  <2>1. /\ SameNote /\ Shifted(1) /\ QueueDomain /\ QueueDomain'
        /\ \E k \in {"added", "status", "removed", "lost", "session"} : Is(1, k)
        /\ agent'.transfers \subseteq agent.transfers
    BY <1>2, TrackerEffects
  <2>2. Queued("vanished") => Queued("vanished")'
    BY <2>1, QueuedKept DEF Is
  <2> SUFFICES ASSUME NEW t \in agent'.transfers, agent.note # Unshown
               PROVE  reports'[t].completed = 0 \/ Queued("vanished")'
    BY <2>1 DEF AuthorizedIsOpen, SameNote
  <2>3. t \in agent.transfers /\ t \in Transfers
    BY <2>1 DEF RestOK, Agents
  <2>4. agent.exists /\ service.connected
    BY <2>3, NewAgents DEF AgentOK
  <2>5. reports'[t].completed = reports[t].completed
    BY <1>2, <2>3, <2>4, TransfersDropped
  <2> QED
    BY <2>2, <2>3, <2>5 DEF AuthorizedIsOpen
<1>3. CASE AgentStep
  <2>1. UNCHANGED reports /\ QueueDomain /\ QueueDomain'
    BY <1>3, AgentEffects
  <2>2. /\ agent.exists /\ ~CloseRaises => agent.note # Unshown
        /\ agent.open => agent.exists /\ agent.note # Unshown
    BY NewAgents, Constants DEF AgentOK, RestOK, CloseRaises
  <2>3. ASSUME NEW u \in Transfers, Authorizes(u)
        PROVE  AuthorizedIsOpen'
    <3>1. Shifted(1) /\ At(1, "authorize", u)
      BY <2>3 DEF Authorizes
    <3>2. Queued("vanished") => Queued("vanished")'
      BY <2>1, <3>1, QueuedKept DEF At
    <3>3. CASE agent'.transfers = agent.transfers /\ (agent.note = Unshown => agent'.note = Unshown)
      BY <2>1, <3>2, <3>3 DEF AuthorizedIsOpen
    <3>4. CASE ~(agent'.transfers = agent.transfers /\ (agent.note = Unshown => agent'.note = Unshown))
      <4>1. agent'.transfers = agent.transfers \cup {u} /\ agent.exists /\ agent.note # Unshown
        BY <2>2, <2>3, <3>4 DEF Authorizes, Keeps, Lets, NoteIs
      <4>2. Due(u, 1) /\ 1 \in 0 .. Len(queue)
        BY <2>1, <3>1, <4>1 DEF Due, Meets, At, QueueDomain
      <4>3. reports[u].completed = 0 \/ GoesAfter(1)
        BY <4>2 DEF QuestionsOK, Safe
      <4>4. reports[u].completed = 0 \/ Queued("vanished")'
        BY <2>1, <3>1, <4>3, QueuedKept DEF GoesAfter
      <4> QED
        BY <2>1, <3>2, <4>1, <4>4 DEF AuthorizedIsOpen
    <3> QED
      BY <3>3, <3>4
  <2>4. ASSUME NEW u \in Transfers, Clicks(u)
        PROVE  AuthorizedIsOpen'
    <3>1. UNCHANGED queue /\ agent.open /\ agent.note = u /\ agent.note # Unshown
      BY <2>2, <2>4 DEF Clicks
    <3>2. agent'.transfers \in {agent.transfers, agent.transfers \cup {u}}
      BY <2>4 DEF Clicks, Keeps, Lets
    <3>3. Due(u, 0) /\ 0 \in 0 .. Len(queue)
      BY <2>1, <3>1 DEF Due, QueueDomain
    <3>4. reports[u].completed = 0 \/ GoesAfter(0)
      BY <3>3 DEF QuestionsOK, Safe
    <3>5. reports[u].completed = 0 \/ Queued("vanished")
      BY <2>1, <3>4 DEF GoesAfter, Queued, Is, QueueDomain
    <3> QED
      BY <2>1, <3>1, <3>2, <3>5 DEF AuthorizedIsOpen, Queued
  <2>5. ASSUME Cancels
        PROVE  AuthorizedIsOpen'
    <3>1. Shifted(1) /\ Is(1, "cancel")
      BY <2>5 DEF Cancels
    <3>2. Queued("vanished") => Queued("vanished")'
      BY <2>1, <3>1, QueuedKept DEF Is
    <3>3. agent'.transfers = agent.transfers /\ (agent.note = Unshown => agent'.note = Unshown)
      BY <2>2, <2>5 DEF Cancels, Keeps
    <3> QED
      BY <2>1, <3>2, <3>3 DEF AuthorizedIsOpen
  <2>6. ASSUME Expires
        PROVE  AuthorizedIsOpen'
    BY <2>1, <2>6 DEF Expires, Keeps, NoteIs, AuthorizedIsOpen, Queued
  <2> QED
    BY <1>3, <2>3, <2>4, <2>5, <2>6, AgentEffects
<1>4. CASE PluginStep
  <2>1. QueueDomain /\ QueueDomain'
    BY <1>4, PluginEffects
  <2>2. CASE Appears
    <3>1. Shifted(1) /\ Is(1, "appeared") /\ UNCHANGED reports
      BY <2>2 DEF Appears
    <3>2. Queued("vanished") => Queued("vanished")'
      BY <2>1, <3>1, QueuedKept DEF Is
    <3>3. agent' = agent \/ agent'.transfers = {}
      BY <2>2, NewAgents DEF Appears
    <3> QED
      BY <3>1, <3>2, <3>3 DEF AuthorizedIsOpen
  <2>3. CASE Vanishes \/ Unloads
    <3>1. agent'.note = Unshown \/ agent'.transfers = {}
      BY <2>3, NewAgents DEF Vanishes, Unloads, Destroyed, CloseRaises
    <3> QED
      BY <3>1 DEF AuthorizedIsOpen
  <2>4. CASE Loads
    <3>1. UNCHANGED <<agent, reports>> /\ Extended
      BY <2>4 DEF Loads, SentOne
    <3>2. Queued("vanished") => Queued("vanished")'
      BY <2>1, <3>1, QueuedKept
    <3> QED
      BY <3>1, <3>2 DEF AuthorizedIsOpen
  <2> QED
    BY <1>4, <2>2, <2>3, <2>4, PluginEffects
<1> QED
  BY <1>1, <1>2, <1>3, <1>4, Steps

\* An answer is "accepted" for a device that may push or that the user has just let push.
LEMMA ConsentKept ==
    ASSUME QueueOK, RestOK, LivesOK, ConsentOK, Next
    PROVE  ConsentOK'
<1>1. CASE ObexdStep
  <2>1. UNCHANGED <<agent, consent>>
    BY <1>1, ObexdEffects DEF ObexdSame
  <2>2. ASSUME NEW t \in Transfers, auth'[t] = "accepted"
        PROVE  auth[t] = "accepted" /\ object'[t].from = object[t].from
    <3>1. ASSUME NEW u \in Transfers, NEW d \in Devices, NEW large \in BOOLEAN, ExportTransfer(u, d, large)
          PROVE  auth[t] = "accepted" /\ object'[t].from = object[t].from
      <4>1. UNCHANGED auth
        BY <3>1 DEF ExportTransfer
      <4>2. t # u
        BY <1>1, <2>2, <3>1, <4>1, ObjectFields DEF LivesOK
      <4> QED
        BY <1>1, <2>2, <3>1, <4>1, <4>2, ObjectFields
    <3>2. ASSUME NEW u \in Transfers, Announce(u)
          PROVE  auth[t] = "accepted" /\ object'[t].from = object[t].from
      BY <2>2, <3>2 DEF Announce
    <3>3. ASSUME NEW u \in Transfers, Ask(u) \/ GiveUp(u)
          PROVE  auth[t] = "accepted" /\ object'[t].from = object[t].from
      BY <2>2, <3>3, AuthFields
    <3>4. ASSUME NEW u \in Transfers, RemoveTransfer(u)
          PROVE  auth[t] = "accepted" /\ object'[t].from = object[t].from
      <4>1. UNCHANGED auth
        BY <3>4 DEF RemoveTransfer
      <4> QED
        BY <1>1, <2>2, <3>4, <4>1, ObjectFields
    <3>5. ASSUME NEW u \in Transfers, NEW b \in BOOLEAN, EndTransfer(u, b)
          PROVE  auth[t] = "accepted" /\ object'[t].from = object[t].from
      <4>1. UNCHANGED auth
        BY <3>5 DEF EndTransfer
      <4> QED
        BY <1>1, <2>2, <3>5, <4>1, ObjectFields
    <3>6. ASSUME NEW d \in Devices, EndSession(d)
          PROVE  auth[t] = "accepted" /\ object'[t].from = object[t].from
      <4>1. UNCHANGED auth
        BY <3>6 DEF EndSession
      <4> QED
        BY <1>1, <2>2, <3>6, <4>1, ObjectFields
    <3>7. ASSUME Crash
          PROVE  auth[t] = "accepted" /\ object'[t].from = object[t].from
      BY <1>1, <2>2, <3>7, ObjectFields
    <3>8. ASSUME Restart \/ Unheard
          PROVE  auth[t] = "accepted" /\ object'[t].from = object[t].from
      BY <2>2, <3>8 DEF Restart, Unheard
    <3> QED
      BY <1>1, <3>1, <3>2, <3>3, <3>4, <3>5, <3>6, <3>7, <3>8 DEF ObexdStep
  <2> QED
    BY <2>1, <2>2 DEF ConsentOK, AcceptedWithConsent
<1>2. CASE TrackerStep
  BY <1>2, TrackerEffects DEF SameNote, ConsentOK, AcceptedWithConsent
<1>3. CASE AgentStep
  <2>0. UNCHANGED object /\ agent.allowed \in [Devices -> Nat] /\ \A t \in Transfers : object[t].from \in Devices
    BY <1>3, AgentEffects DEF RestOK, Agents
  <2>1. ASSUME NEW u \in Transfers, object[u].from \in AutoTrusted \cup consent',
               Lets(u) \/ Keeps, Reply(u, "accepted") \/ Reply(u, "refused") \/ UNCHANGED auth,
               consent \subseteq consent'
        PROVE  ConsentOK'
    <3>1. \A d \in Devices : agent'.allowed[d] > 0 => agent.allowed[d] > 0 \/ d = object[u].from
      BY <2>0, <2>1 DEF Lets, Keeps
    <3>2. \A t \in Transfers : auth'[t] = "accepted" => auth[t] = "accepted" \/ t = u
      BY <2>1, Replies
    <3> QED
      BY <2>0, <2>1, <3>1, <3>2 DEF ConsentOK, AcceptedWithConsent
  <2>2. ASSUME UNCHANGED consent,
               \A d \in Devices : agent'.allowed[d] > 0 => agent.allowed[d] > 0,
               \A t \in Transfers : auth'[t] = "accepted" => auth[t] = "accepted"
        PROVE  ConsentOK'
    BY <2>0, <2>2 DEF ConsentOK, AcceptedWithConsent
  <2>3. ASSUME NEW u \in Transfers, Authorizes(u)
        PROVE  ConsentOK'
    <3>1. CASE MayPush(object[u].from) /\ Reply(u, "accepted") /\ Lets(u)
      <4>1. UNCHANGED consent /\ object[u].from \in AutoTrusted \cup consent
        BY <2>0, <2>3, <3>1 DEF Authorizes, MayPush, ConsentOK
      <4> QED
        BY <2>1, <3>1, <4>1
    <3>2. CASE (UNCHANGED agent \/ Keeps) /\ (Reply(u, "refused") \/ UNCHANGED auth)
      <4>1. \A t \in Transfers : auth'[t] = "accepted" => auth[t] = "accepted"
        BY <3>2, Replies
      <4> QED
        BY <2>2, <2>3, <3>2, <4>1 DEF Authorizes, Keeps
    <3> QED
      BY <2>3, <3>1, <3>2 DEF Authorizes
  <2>4. ASSUME NEW u \in Transfers, Clicks(u)
        PROVE  ConsentOK'
    <3>1. CASE Lets(u) /\ Reply(u, "accepted") /\ consent' = consent \cup {object[u].from}
      BY <2>1, <3>1
    <3>2. CASE Keeps /\ Reply(u, "refused") /\ UNCHANGED consent
      <4>1. \A t \in Transfers : auth'[t] = "accepted" => auth[t] = "accepted"
        BY <3>2, Replies
      <4> QED
        BY <2>2, <3>2, <4>1 DEF Keeps
    <3> QED
      BY <2>4, <3>1, <3>2 DEF Clicks
  <2>5. ASSUME Cancels
        PROVE  ConsentOK'
    BY <2>2, <2>5 DEF Cancels, Keeps
  <2>6. ASSUME Expires
        PROVE  ConsentOK'
    <3>1. \A d \in Devices : agent'.allowed[d] > 0 => agent.allowed[d] > 0
      <4>1. ASSUME NEW e \in Devices, agent'.allowed = [agent.allowed EXCEPT ![e] = @ - 1]
            PROVE  \A d \in Devices : agent'.allowed[d] > 0 => agent.allowed[d] > 0
        BY <2>0, <4>1
      <4> QED
        BY <2>6, <4>1 DEF Expires, Keeps
    <3> QED
      BY <2>2, <2>6, <3>1 DEF Expires
  <2> QED
    BY <1>3, <2>3, <2>4, <2>5, <2>6, AgentEffects
<1>4. CASE PluginStep
  <2>1. UNCHANGED <<object, consent>>
    BY <1>4, PluginEffects
  <2>2. \A t \in Transfers : auth'[t] = "accepted" => auth[t] = "accepted"
    BY <1>4, PluginEffects DEF Appears, Vanishes, Loads, Unloads
  <2>3. agent' = agent \/ \A d \in Devices : agent'.allowed[d] = 0
    BY <1>4, PluginEffects, NewAgents DEF Appears, Vanishes, Loads, Unloads, Destroyed
  <2> QED
    BY <2>1, <2>2, <2>3 DEF ConsentOK, AcceptedWithConsent
<1> QED
  BY <1>1, <1>2, <1>3, <1>4, Steps

(***************************************************************************)
(* The counters.                                                           *)
(***************************************************************************)
LargeOnes == {t \in CountedTransfers : object[t].large}
SmallOnes == {t \in CountedTransfers : ~object[t].large}
Bounded == service.silent <= Cardinality(SmallOnes) /\ service.normal <= Cardinality(LargeOnes)

LEMMA Bounds == (NeverOverReported <=> Bounded) /\ (NeverOverReported' <=> Bounded')
<1>1. /\ LargeOnes = {t \in {u \in Transfers : reports[u].counted} : object[t].large}
      /\ SmallOnes = {u \in Transfers : reports[u].counted} \ LargeOnes
  BY DEF LargeOnes, SmallOnes, CountedTransfers
<1>2. /\ LargeOnes' = {t \in {u \in Transfers : reports'[u].counted} : object'[t].large}
      /\ SmallOnes' = {u \in Transfers : reports'[u].counted} \ LargeOnes'
  BY DEF LargeOnes, SmallOnes, CountedTransfers
<1> QED
  BY <1>1, <1>2 DEF NeverOverReported, Bounded

LEMMA Finite ==
    ASSUME IsFiniteSet(CountedTransfers)
    PROVE  /\ IsFiniteSet(LargeOnes) /\ IsFiniteSet(SmallOnes)
           /\ Cardinality(LargeOnes) \in Nat /\ Cardinality(SmallOnes) \in Nat
<1>1. LargeOnes \subseteq CountedTransfers /\ SmallOnes \subseteq CountedTransfers
  BY DEF LargeOnes, SmallOnes
<1> QED
  BY <1>1, FS_Subset, FS_CardinalityType

\* The size of a transfer is known before it is counted.
LEMMA LargeKept ==
    ASSUME RestOK, ObexdStep, NEW t \in Transfers, object[t].state # "unused"
    PROVE  object'[t].large = object[t].large
<1>1. ASSUME NEW u \in Transfers, NEW d \in Devices, NEW large \in BOOLEAN, ExportTransfer(u, d, large)
      PROVE  object'[t].large = object[t].large
  BY <1>1, ObjectFields
<1>2. ASSUME NEW u \in Transfers, RemoveTransfer(u)
      PROVE  object'[t].large = object[t].large
  BY <1>2 DEF RestOK, RemoveTransfer
<1>3. ASSUME NEW u \in Transfers, NEW b \in BOOLEAN, EndTransfer(u, b)
      PROVE  object'[t].large = object[t].large
  BY <1>3 DEF RestOK, EndTransfer
<1>4. ASSUME NEW d \in Devices, EndSession(d)
      PROVE  object'[t].large = object[t].large
  BY <1>4 DEF RestOK, EndSession
<1>5. ASSUME Crash
      PROVE  object'[t].large = object[t].large
  BY <1>5 DEF RestOK, Crash
<1>6. ASSUME NEW u \in Transfers, Announce(u) \/ Ask(u) \/ GiveUp(u) \/ Restart \/ Unheard
      PROVE  object'[t].large = object[t].large
  BY <1>6 DEF Announce, Ask, GiveUp, Restart, Unheard
<1> QED
  BY <1>1, <1>2, <1>3, <1>4, <1>5, <1>6 DEF ObexdStep

\* The same transfers are counted, or the counters start again.
LEMMA CountsSame ==
    ASSUME RestOK, CountsOK, tracker'.tracked = tracker.tracked,
           \/ /\ service'.silent = service.silent /\ service'.normal = service.normal
              /\ \A t \in Transfers : /\ reports'[t].counted = reports[t].counted
                                      /\ reports[t].counted => object'[t].large = object[t].large
           \/ /\ service'.silent = 0 /\ service'.normal = 0
              /\ \A t \in Transfers : reports'[t].counted => reports[t].counted
    PROVE  CountsOK'
<1>1. CountedTransfers' \subseteq CountedTransfers
  BY DEF CountedTransfers
<1>2. IsFiniteSet(CountedTransfers')
  BY <1>1, FS_Subset DEF CountsOK
<1>3. CASE service'.silent = 0 /\ service'.normal = 0
  <2>1. LargeOnes' \subseteq CountedTransfers' /\ SmallOnes' \subseteq CountedTransfers'
    BY DEF LargeOnes, SmallOnes
  <2>2. Cardinality(LargeOnes') \in Nat /\ Cardinality(SmallOnes') \in Nat
    BY <1>2, <2>1, FS_Subset, FS_CardinalityType
  <2>3. Bounded'
    BY <1>3, <2>2 DEF Bounded
  <2> QED
    BY <1>2, <2>3, Bounds DEF CountsOK
<1>4. CASE /\ service'.silent = service.silent /\ service'.normal = service.normal
           /\ \A t \in Transfers : /\ reports'[t].counted = reports[t].counted
                                   /\ reports[t].counted => object'[t].large = object[t].large
  <2>1. LargeOnes' = LargeOnes /\ SmallOnes' = SmallOnes
    BY <1>4 DEF LargeOnes, SmallOnes, CountedTransfers
  <2>2. Bounded'
    BY <1>4, <2>1, Bounds DEF Bounded, CountsOK
  <2> QED
    BY <1>2, <2>2, Bounds DEF CountsOK
<1> QED
  BY <1>3, <1>4

LEMMA CountedFields ==
    ASSUME service \in Services, NEW t \in Transfers, NEW by \in Int
    PROVE  LET s == Counted(service, t, by) IN
           /\ object[t].large => s.normal = service.normal + by /\ s.silent = service.silent
           /\ ~object[t].large => s.normal = service.normal /\ s.silent = service.silent + by
BY DEF Services, Counted, is_large_transfer

\* A transfer is counted that was not.
LEMMA CountsMore ==
    ASSUME RestOK, CountsOK, UNCHANGED object, NEW t \in Transfers, t \notin CountedTransfers,
           service' = Counted(service, t, 1), CountedTransfers' = CountedTransfers \cup {t}
    PROVE  IsFiniteSet(CountedTransfers') /\ Bounded'
<1>1. IsFiniteSet(CountedTransfers') /\ t \notin LargeOnes /\ t \notin SmallOnes
  BY FS_AddElement DEF CountsOK, LargeOnes, SmallOnes
<1>2. /\ IsFiniteSet(LargeOnes) /\ IsFiniteSet(SmallOnes)
      /\ Cardinality(LargeOnes) \in Nat /\ Cardinality(SmallOnes) \in Nat
  BY Finite DEF CountsOK
<1>3. /\ Cardinality(LargeOnes \cup {t}) = Cardinality(LargeOnes) + 1
      /\ Cardinality(SmallOnes \cup {t}) = Cardinality(SmallOnes) + 1
  BY <1>1, <1>2, FS_AddElement
<1>4. service.silent \in Int /\ service.normal \in Int /\ service \in Services
  BY DEF RestOK, Services
<1>5. Bounded
  BY Bounds DEF CountsOK
<1>6. CASE object[t].large
  <2>1. LargeOnes' = LargeOnes \cup {t} /\ SmallOnes' = SmallOnes
    BY <1>6 DEF LargeOnes, SmallOnes
  <2>2. service'.normal = service.normal + 1 /\ service'.silent = service.silent
    BY <1>4, <1>6, CountedFields
  <2> QED
    BY <1>1, <1>2, <1>3, <1>4, <1>5, <2>1, <2>2 DEF Bounded
<1>7. CASE ~object[t].large
  <2>1. LargeOnes' = LargeOnes /\ SmallOnes' = SmallOnes \cup {t}
    BY <1>7 DEF LargeOnes, SmallOnes
  <2>2. service'.normal = service.normal /\ service'.silent = service.silent + 1
    BY <1>4, <1>7, CountedFields
  <2> QED
    BY <1>1, <1>2, <1>3, <1>4, <1>5, <2>1, <2>2 DEF Bounded
<1> QED
  BY <1>6, <1>7

\* A transfer, counted or not, is taken off its counter.
LEMMA CountsLess ==
    ASSUME RestOK, CountsOK, UNCHANGED object, NEW t \in Transfers,
           service' = Counted(service, t, -1), CountedTransfers' = CountedTransfers \ {t}
    PROVE  IsFiniteSet(CountedTransfers') /\ Bounded'
<1>1. IsFiniteSet(CountedTransfers')
  BY FS_Subset DEF CountsOK
<1>2. /\ IsFiniteSet(LargeOnes) /\ IsFiniteSet(SmallOnes)
      /\ Cardinality(LargeOnes) \in Nat /\ Cardinality(SmallOnes) \in Nat
  BY Finite DEF CountsOK
<1>3. IsFiniteSet({t}) /\ Cardinality({t}) = 1
  BY FS_Singleton
<1>4. /\ Cardinality(LargeOnes \ {t}) >= Cardinality(LargeOnes) - 1
      /\ Cardinality(SmallOnes \ {t}) >= Cardinality(SmallOnes) - 1
      /\ Cardinality(LargeOnes \ {t}) \in Nat /\ Cardinality(SmallOnes \ {t}) \in Nat
  BY <1>2, <1>3, Smaller
<1>5. service.silent \in Int /\ service.normal \in Int /\ service \in Services /\ -1 \in Int
  BY DEF RestOK, Services
<1>6. Bounded
  BY Bounds DEF CountsOK
<1>7. CASE object[t].large
  <2>1. LargeOnes' = LargeOnes \ {t} /\ SmallOnes' = SmallOnes
    BY <1>7 DEF LargeOnes, SmallOnes
  <2>2. service'.normal = service.normal - 1 /\ service'.silent = service.silent
    BY <1>5, <1>7, CountedFields
  <2> QED
    BY <1>1, <1>2, <1>4, <1>5, <1>6, <2>1, <2>2 DEF Bounded
<1>8. CASE ~object[t].large
  <2>1. LargeOnes' = LargeOnes /\ SmallOnes' = SmallOnes \ {t}
    BY <1>8 DEF LargeOnes, SmallOnes
  <2>2. service'.normal = service.normal /\ service'.silent = service.silent - 1
    BY <1>5, <1>8, CountedFields
  <2> QED
    BY <1>1, <1>2, <1>4, <1>5, <1>6, <2>1, <2>2 DEF Bounded
<1> QED
  BY <1>7, <1>8

LEMMA CountsHeard ==
    ASSUME QueueOK, RestOK, ReportsOK, CountsOK, TrackerStep
    PROVE  CountsOK'
<1>0. UNCHANGED object
  BY TrackerEffects
<1>1. ASSUME OnObjectAdded
      PROVE  CountsOK'
  <2> DEFINE t == Head(queue).t
  <2>1. At(1, "added", t) /\ t \in Transfers /\ 1 \in DOMAIN queue
    BY <1>1, Shifts, Receives, MessageFields DEF OnObjectAdded, About, At, Is
  <2>2. ~reports[t].counted
    BY <2>1 DEF ReportsOK
  <2>3. CASE ~tracker.made
    BY <1>0, <1>1, <2>3, CountsSame DEF OnObjectAdded
  <2>4. CASE tracker.made
    <3>1. PICK c \in BOOLEAN : c = (service.connected /\ Authorized(t))
      OBVIOUS
    <3>2. /\ tracker' = [tracker EXCEPT !.tracked = @ \cup {t}]
          /\ service' = IF c THEN Counted(service, t, 1) ELSE service
          /\ reports' = [reports EXCEPT ![t].started = @ + 1, ![t].counted = c]
      BY <1>1, <2>4, <3>1 DEF OnObjectAdded
    <3> HIDE DEF t
    <3>3. /\ reports'[t].counted = c
          /\ \A u \in Transfers : u # t => reports'[u].counted = reports[u].counted
      BY <2>1, <3>1, <3>2 DEF RestOK, Reports
    <3>4. IsFiniteSet(tracker'.tracked)
      <4>1. tracker'.tracked = tracker.tracked \cup {t}
        BY <3>2 DEF RestOK
      <4> QED
        BY <4>1, FS_AddElement DEF CountsOK
    <3>5. CASE c
      <4>1. CountedTransfers' = CountedTransfers \cup {t} /\ t \notin CountedTransfers
        BY <2>1, <2>2, <3>3, <3>5 DEF CountedTransfers
      <4> QED
        BY <1>0, <2>1, <3>2, <3>4, <3>5, <4>1, CountsMore, Bounds DEF CountsOK
    <3>6. CASE ~c
      <4>1. CountedTransfers' = CountedTransfers
        BY <2>1, <2>2, <3>3, <3>6 DEF CountedTransfers
      <4>2. service' = service
        BY <3>2, <3>6
      <4>3. LargeOnes' = LargeOnes /\ SmallOnes' = SmallOnes
        BY <1>0, <4>1 DEF LargeOnes, SmallOnes
      <4> QED
        BY <3>4, <4>1, <4>2, <4>3, Bounds DEF CountsOK, Bounded
    <3> QED
      BY <3>5, <3>6
  <2> QED
    BY <2>3, <2>4
<1>2. ASSUME NEW t \in Transfers, NEW b \in BOOLEAN, t \in tracker.tracked, tracker' = Popped(t), EmitCompleted(t, b)
      PROVE  CountsOK'
  <2>1. IsFiniteSet(tracker'.tracked)
    <3>1. tracker'.tracked \subseteq tracker.tracked
      BY <1>2 DEF Popped, RestOK
    <3> QED
      BY <3>1, FS_Subset DEF CountsOK
  <2>2. ASSUME UNCHANGED service, \A u \in Transfers : reports'[u].counted = reports[u].counted
        PROVE  CountsOK'
    <3>1. CountedTransfers' = CountedTransfers
      BY <2>2 DEF CountedTransfers
    <3>2. LargeOnes' = LargeOnes /\ SmallOnes' = SmallOnes
      BY <1>0, <3>1 DEF LargeOnes, SmallOnes
    <3> QED
      BY <2>1, <2>2, <3>1, <3>2, Bounds DEF CountsOK, Bounded
  <2>3. CASE service.connected /\ Authorized(t)
    <3>1. PICK moved \in BOOLEAN :
             /\ service' = Completed(service, t, b /\ moved)
             /\ reports' = [reports EXCEPT ![t].completed = @ + 1, ![t].counted = @ /\ b /\ moved]
      BY <1>2, <2>3 DEF EmitCompleted
    <3>2. PICK r \in BOOLEAN : r = (b /\ moved)
      OBVIOUS
    <3>3. /\ reports'[t].counted = (reports[t].counted /\ r)
          /\ \A u \in Transfers : u # t => reports'[u].counted = reports[u].counted
      BY <1>2, <3>1, <3>2 DEF RestOK, Reports
    <3>4. CASE r
      <4>1. UNCHANGED service
        BY <3>1, <3>2, <3>4 DEF Completed
      <4>2. reports'[t].counted = reports[t].counted
        BY <3>3, <3>4 DEF RestOK, Reports
      <4> QED
        BY <2>2, <3>3, <4>1, <4>2
    <3>5. CASE ~r
      <4>1. service' = Counted(service, t, -1)
        BY <3>1, <3>2, <3>5 DEF Completed
      <4>2. CountedTransfers' = CountedTransfers \ {t}
        BY <3>3, <3>5 DEF CountedTransfers
      <4> QED
        BY <1>0, <2>1, <4>1, <4>2, CountsLess, Bounds DEF CountsOK
    <3> QED
      BY <3>4, <3>5
  <2>4. CASE ~(service.connected /\ Authorized(t))
    <3>1. UNCHANGED service /\ reports' = [reports EXCEPT ![t].completed = @ + 1]
      BY <1>2, <2>4 DEF EmitCompleted
    <3>2. \A u \in Transfers : reports'[u].counted = reports[u].counted
      BY <3>1 DEF RestOK, Reports
    <3> QED
      BY <2>2, <3>1, <3>2
  <2> QED
    BY <2>3, <2>4
<1>3. ASSUME UNCHANGED <<tracker, service, reports>>
      PROVE  CountsOK'
  BY <1>0, <1>3, CountsSame
<1>4. ASSUME OnTransferStatus
      PROVE  CountsOK'
  <2>1. Head(queue).t \in Transfers /\ Head(queue).success \in BOOLEAN
    BY <1>4, Receives, MessageFields DEF OnTransferStatus, About
  <2> QED
    BY <1>2, <1>3, <1>4, <2>1 DEF OnTransferStatus
<1>5. ASSUME OnObjectRemoved
      PROVE  CountsOK'
  <2>1. Head(queue).t \in Transfers
    BY <1>5, Receives, MessageFields DEF OnObjectRemoved, About
  <2> QED
    BY <1>2, <1>3, <1>5, <2>1 DEF OnObjectRemoved
<1>6. ASSUME OnObjectsLost
      PROVE  CountsOK'
  <2>1. PICK mine \in SUBSET tracker.tracked, reset \in BOOLEAN :
           /\ reports' = LostReports(mine, reset)
           /\ \A C : IsFiniteSet(C) /\ Within(service, C)
                      => Within(service', IF reset THEN {} ELSE C \ mine)
    BY <1>6, LostEffects DEF CountsOK
  <2>2. \A t \in Transfers : reports'[t].counted <=> reports[t].counted /\ t \notin mine /\ ~reset
    BY <2>1 DEF LostReports, RestOK, Reports
  <2>3. CountedTransfers' = IF reset THEN {} ELSE CountedTransfers \ mine
    BY <2>2 DEF CountedTransfers
  <2>4. IsFiniteSet(CountedTransfers) /\ Within(service, CountedTransfers)
    <3>1. Large(CountedTransfers) = LargeOnes /\ CountedTransfers \ Large(CountedTransfers) = SmallOnes
      BY DEF Large, LargeOnes, SmallOnes
    <3> QED
      BY <3>1, Bounds DEF CountsOK, Bounded, Within
  <2>5. Within(service', CountedTransfers')
    BY <2>1, <2>3, <2>4
  <2>6. Bounded'
    <3>1. Large(CountedTransfers') = LargeOnes' /\ CountedTransfers' \ Large(CountedTransfers') = SmallOnes'
      BY <1>0 DEF Large, LargeOnes, SmallOnes
    <3> QED
      BY <2>5, <3>1 DEF Bounded, Within
  <2>7. IsFiniteSet(CountedTransfers') /\ IsFiniteSet(tracker'.tracked)
    <3>1. tracker'.tracked = {}
      BY <1>6 DEF RestOK, OnObjectsLost
    <3>2. CountedTransfers' \subseteq CountedTransfers
      BY <2>3
    <3> QED
      BY <2>4, <3>1, <3>2, FS_Subset, FS_EmptySet
  <2> QED
    BY <2>6, <2>7, Bounds DEF CountsOK
<1>7. ASSUME OnSessionRemoved
      PROVE  CountsOK'
  <2>1. UNCHANGED tracker
    BY <1>7 DEF OnSessionRemoved
  <2>2. CASE UNCHANGED <<service, reports>>
    BY <1>3, <2>1, <2>2
  <2>3. CASE /\ service' = SessionRemoved(service) /\ SessionRemoved(service) # service
             /\ reports' = [t \in Transfers |-> [reports[t] EXCEPT !.counted = FALSE]]
    <3>1. service'.silent = 0 /\ service'.normal = 0
      BY <2>3, SessionFields DEF RestOK
    <3>2. \A t \in Transfers : reports'[t].counted => reports[t].counted
      BY <2>3 DEF RestOK, Reports
    <3> QED
      BY <2>1, <3>1, <3>2, CountsSame
  <2> QED
    BY <1>7, <2>2, <2>3 DEF OnSessionRemoved
<1> QED
  BY <1>1, <1>4, <1>5, <1>6, <1>7 DEF TrackerStep

LEMMA CountsKept ==
    ASSUME QueueOK, RestOK, LivesOK, ReportsOK, CountsOK, Next
    PROVE  CountsOK'
<1>1. CASE ObexdStep
  <2>1. UNCHANGED <<tracker, service, reports>>
    BY <1>1, ObexdEffects DEF ObexdSame
  <2>2. ASSUME NEW t \in Transfers, reports[t].counted
        PROVE  object'[t].large = object[t].large
    <3>1. t \in announced
      BY <2>2 DEF ReportsOK
    <3> QED
      BY <1>1, <3>1, LargeKept DEF LivesOK
  <2> QED
    BY <2>1, <2>2, CountsSame
<1>2. CASE TrackerStep
  BY <1>2, CountsHeard
<1>3. CASE AgentStep
  <2>1. UNCHANGED <<object, tracker, service, reports>>
    BY <1>3, AgentEffects
  <2> QED
    BY <2>1, CountsSame
<1>4. CASE PluginStep
  <2>1. UNCHANGED object /\ tracker'.tracked = tracker.tracked
    BY <1>4, PluginEffects DEF Appears, Vanishes, Loads, Unloads
  <2>2. SameCounts \/ (service'.silent = 0 /\ service'.normal = 0 /\ reports' \in {reports, Uncounted})
    BY <1>4, PluginEffects DEF Appears, Vanishes, Loads, Unloads, Reset
  <2>3. CASE SameCounts
    BY <2>1, <2>3, CountsSame DEF SameCounts
  <2>4. CASE service'.silent = 0 /\ service'.normal = 0 /\ reports' \in {reports, Uncounted}
    <3>1. Quiet
      BY <2>4, UncountedIsQuiet
    <3> QED
      BY <2>1, <2>4, <3>1, CountsSame DEF Quiet
  <2> QED
    BY <2>2, <2>3, <2>4
<1> QED
  BY <1>1, <1>2, <1>3, <1>4, Steps

(***************************************************************************)
(* The theorems.                                                           *)
(***************************************************************************)
LEMMA InitOK == Init => IInv
<1> SUFFICES ASSUME Init
             PROVE  IInv
  OBVIOUS
<1>1. /\ queue = <<>> /\ Len(queue) = 0 /\ DOMAIN queue = {} /\ tracker.tracked = {} /\ agent = NoAgent
      /\ announced = {} /\ consent = {} /\ service.connected = FALSE /\ service.watching = FALSE
      /\ \A t \in Transfers : auth[t] = "none" /\ answers[t] = 0 /\ object[t].state = "unused"
      /\ \A t \in Transfers : reports[t].started = 0 /\ reports[t].completed = 0 /\ ~reports[t].counted
  BY DEF Init, Unexported
<1>2. TypeOK
  <2>1. /\ obexd \in [up : BOOLEAN, registered : BOOLEAN, crashes : 0 .. MaxCrashes] /\ bubble \in BOOLEAN
    <3>1. 0 \in 0 .. MaxCrashes
      BY Constants
    <3>2. {0} \subseteq 0 .. MaxCrashes /\ {FALSE} \subseteq BOOLEAN
      BY <3>1
    <3> QED
      BY <3>2 DEF Init
  <2>2. Unexported \in [state : {"unused", "live", "ended", "gone", "past"}, from : Devices, large : BOOLEAN]
    BY Constants DEF Unexported
  <2>3. object \in [Transfers -> [state : {"unused", "live", "ended", "gone", "past"}, from : Devices, large : BOOLEAN]]
    BY <2>2 DEF Init
  <2>4. /\ auth \in [Transfers -> {"none", "pending", "accepted", "refused", "over"}]
        /\ answers \in [Transfers -> Nat] /\ queue \in Seq(Messages) /\ Len(queue) <= MaxQueue
        /\ announced \subseteq Transfers /\ consent \subseteq Devices
    BY Constants DEF Init
  <2>5. /\ tracker \in [made : BOOLEAN, tracked : SUBSET Transfers]
        /\ service \in [loaded : BOOLEAN, watching : BOOLEAN, connected : BOOLEAN, silent : Int, normal : Int]
        /\ reports \in [Transfers -> [started : Nat, completed : Nat, counted : BOOLEAN]]
    BY DEF Init
  <2>6. /\ agent \in [exists : BOOLEAN, note : Transfers \cup {NoNote, Unshown}, open : BOOLEAN,
                      transfers : SUBSET Transfers, allowed : [Devices -> Nat], timers : [Devices -> Nat]]
        /\ ~agent.open
    BY NewAgents DEF Init, Agents
  <2> QED
    BY <2>1, <2>3, <2>4, <2>5, <2>6 DEF TypeOK
<1>3. AgentOK
  BY <1>1, NewAgents, Constants DEF AgentOK
<1>4. ObjectsOK
  BY <1>1 DEF ObjectsOK, LivesOK
<1>5. AnswersOK
  BY <1>1, NewAgents DEF AnswersOK
<1>6. ReportsOK
  BY <1>1 DEF ReportsOK, ReportedOnce
<1>7. PendingOK
  BY <1>1 DEF PendingOK
<1>8. QuestionsOK
  BY <1>1, NewAgents DEF QuestionsOK, Due, At
<1>9. AuthorizedIsOpen
  BY <1>1, NewAgents DEF AuthorizedIsOpen
<1>10. ConsentOK
  BY <1>1, NewAgents DEF ConsentOK, AcceptedWithConsent
<1>11. CountsOK
  <2>1. CountedTransfers = {} /\ SmallOnes = {} /\ LargeOnes = {}
    BY <1>1 DEF CountedTransfers, SmallOnes, LargeOnes
  <2>2. service.silent = 0 /\ service.normal = 0
    BY DEF Init
  <2>3. Bounded
    BY <2>1, <2>2, FS_EmptySet DEF Bounded
  <2> QED
    BY <1>1, <2>1, <2>3, FS_EmptySet, Bounds DEF CountsOK
<1> QED
  BY <1>2, <1>3, <1>4, <1>5, <1>6, <1>7, <1>8, <1>9, <1>10, <1>11 DEF IInv

LEMMA NextOK == IInv /\ [Next]_vars => IInv'
<1>1. ASSUME IInv, UNCHANGED vars
      PROVE  IInv'
  BY <1>1 DEF IInv, vars, TypeOK, AgentOK, ObjectsOK, LivesOK, AnswersOK, ReportsOK, ReportedOnce, PendingOK,
              QuestionsOK, AuthorizedIsOpen, ConsentOK, AcceptedWithConsent, CountsOK, CountedTransfers,
              NeverOverReported, OnItsWay, IsAsked, Undisturbed, Due, Safe, Meets, GoesAfter, Closes, Ends,
              Unheeded, At, Is, Queued
<1>2. ASSUME IInv, Next
      PROVE  IInv'
  <2>1. /\ TypeOK /\ QueueOK /\ RestOK /\ AgentOK /\ ObjectsOK /\ LivesOK /\ HeardOK /\ AnswersOK /\ ReportsOK
        /\ PendingOK /\ QuestionsOK /\ AuthorizedIsOpen /\ ConsentOK /\ CountsOK
    BY <1>2, TypeParts DEF IInv, ObjectsOK, HeardOK
  <2>2. TypeOK'
    BY <1>2, <2>1, Typed DEF CountsOK
  <2>3. AgentOK' /\ ObjectsOK' /\ AnswersOK' /\ ReportsOK' /\ PendingOK'
    BY <1>2, <2>1, AgentKept, ObjectsKept, AnswersKept, ReportsKept, PendingKept
  <2>4. QuestionsOK'
    BY <1>2, <2>1, Steps, QuestionsExtended, QuestionsHeard, QuestionsAsked, QuestionsLeft
  <2>5. AuthorizedIsOpen' /\ ConsentOK' /\ CountsOK'
    BY <1>2, <2>1, OpenKept, ConsentKept, CountsKept
  <2> QED
    BY <2>2, <2>3, <2>4, <2>5 DEF IInv
<1> QED
  BY <1>1, <1>2

\* Through clicks, expired notifications, cancellations, crashes of obexd, loading and unloading, the
\* inductive invariant holds (Agent, TransferService and obex.Manager).
THEOREM InductiveInvariant == Spec => []IInv
<1>1. Init => IInv
  BY InitOK
<1>2. IInv /\ [Next]_vars => IInv'
  BY NextOK
<1> QED
  BY <1>1, <1>2, PTL DEF Spec

\* A call that obexd waits for and that the agent has handled is what its notification asks about
\* (_pending_transfer, _on_action), and what the agent authorized is still to be completed.
THEOREM PushesTracked == Spec => []PushesAreTracked
<1>1. IInv => PushesAreTracked
  <2> SUFFICES ASSUME IInv
               PROVE  PendingIsAsked
    BY DEF IInv, PushesAreTracked
  <2> SUFFICES ASSUME NEW t \in Transfers, auth[t] = "pending", ~Queued("authorize")
               PROVE  IsAsked(t)
    BY DEF PendingIsAsked, IsAsked
  <2>1. DOMAIN queue = 1 .. Len(queue)
    BY DEF IInv, TypeOK
  <2>2. ~OnItsWay(t)
    BY <2>1 DEF Queued, OnItsWay, At
  <2> QED
    BY <2>2 DEF IInv, PendingOK
<1> QED
  BY <1>1, InductiveInvariant, PTL

\* No file is taken from a device that is not trusted and that the user did not accept
\* (_on_action, _authorize_push: _allowed_devices).
THEOREM ConsentIsAsked == Spec => []AcceptedWithConsent
<1>1. IInv => AcceptedWithConsent
  BY DEF IInv, ConsentOK
<1> QED
  BY <1>1, InductiveInvariant, PTL

\* Each transfer is reported once as started and once as completed, and the counts of received
\* files are not too large (_on_transfer_started, _on_transfer_completed, _on_session_removed).
THEOREM ReportedRightly == Spec => []Reported
<1>1. IInv => Reported
  BY DEF IInv, ReportsOK, CountsOK, Reported
<1> QED
  BY <1>1, InductiveInvariant, PTL

\* Whoever may push is accepted from and whoever may not is asked for: only a bubble that was not
\* shown, this push's or an earlier one's, has a push refused that can be read.
THEOREM AllPushesAreHeard == Spec => AllAreHeard
<1> DEFINE Heard == \A t \in Transfers, allowed \in BOOLEAN :
                       RefusedUnasked(t, allowed) => agent'.note = Unshown
<1>1. ASSUME IInv, [Next]_vars
      PROVE  [Heard]_vars
  <2> SUFFICES ASSUME Next, NEW t \in Transfers, Refused(t), agent.exists, object[t].state = "live",
                      agent.note # t, agent'.note # Unshown
               PROVE  FALSE
    BY <1>1 DEF RefusedUnasked
  <2>1. QueueOK /\ RestOK
    BY <1>1, TypeParts DEF IInv
  <2>2. AgentStep
    <3>1. ASSUME ObexdStep
          PROVE  FALSE
      BY <2>1, <3>1, AuthFields, ObjectFields
         DEF Refused, ObexdStep, Announce, RemoveTransfer, ExportTransfer, EndTransfer, EndSession, Restart, Unheard
    <3>2. ASSUME TrackerStep
          PROVE  FALSE
      BY <2>1, <3>2, TrackerEffects DEF Refused
    <3>3. ASSUME PluginStep
          PROVE  FALSE
      BY <2>1, <3>3, PluginEffects DEF Refused, Appears, Vanishes, Loads, Unloads
    <3> QED
      BY <3>1, <3>2, <3>3, Steps
  <2>3. ASSUME NEW u \in Transfers, Authorizes(u)
        PROVE  FALSE
    <3>1. Reply(u, "refused") \/ Reply(u, "accepted") \/ UNCHANGED auth
      BY <2>3 DEF Authorizes
    <3>2. u = t /\ auth'[t] = "refused" /\ auth[t] = "pending"
      BY <2>1, <3>1, Replies DEF Refused
    <3>3. Readable(t)
      BY DEF Readable
    <3>4. Reply(t, "accepted") \/ UNCHANGED auth
      BY <2>3, <3>2, <3>3 DEF Authorizes, CloseRaises, NoteIs
    <3> QED
      BY <2>1, <3>2, <3>4, Replies
  <2>4. ASSUME NEW u \in Transfers, Clicks(u)
        PROVE  FALSE
    BY <2>1, <2>4, Replies DEF Clicks, Refused
  <2>5. ASSUME Cancels \/ Expires
        PROVE  FALSE
    BY <2>5 DEF Cancels, Expires, Refused
  <2> QED
    BY <2>1, <2>2, <2>3, <2>4, <2>5, AgentEffects
<1>2. AllAreHeard <=> [][Heard]_vars
  BY DEF AllAreHeard
<1> HIDE DEF Heard
<1>3. Spec => [][Heard]_vars
  BY <1>1, InductiveInvariant, PTL DEF Spec
<1> QED
  BY <1>2, <1>3

\* A step answers, opens or ends a call, or leaves it as it is.
CallStays(t) == auth'[t] = auth[t] /\ answers'[t] = answers[t]
CallAsked(t) == auth[t] = "none" /\ auth'[t] = "pending" /\ answers[t] = 0 /\ answers'[t] = 0
CallEnds(t) == auth[t] = "pending" /\ auth'[t] = "over" /\ answers'[t] = answers[t]
CallAnswered(t) ==
    /\ answers[t] = 0 /\ answers'[t] = 1
    /\ \/ auth[t] = "pending" /\ auth'[t] \in {"accepted", "refused"}
       \/ auth[t] = "over" /\ auth'[t] = "over"

LEMMA CallSteps ==
    ASSUME IInv, Next, NEW t \in Transfers
    PROVE  CallStays(t) \/ CallAsked(t) \/ CallEnds(t) \/ CallAnswered(t)
<1>1. QueueOK /\ RestOK /\ AnswersOK /\ AgentOK
  BY TypeParts DEF IInv
<1>2. CASE ObexdStep
  <2>1. UNCHANGED answers
    BY <1>1, <1>2, ObexdEffects DEF ObexdSame
  <2>2. ASSUME NEW u \in Transfers, Ask(u) \/ GiveUp(u)
        PROVE  CallStays(t) \/ CallAsked(t) \/ CallEnds(t)
    <3>1. auth[t] = "none" => answers[t] = 0
      BY <1>1 DEF AnswersOK
    <3> QED
      BY <1>1, <2>1, <2>2, <3>1, AuthFields DEF CallStays, CallAsked, CallEnds
  <2>3. ASSUME Crash
        PROVE  CallStays(t) \/ CallEnds(t)
    BY <1>1, <1>2, <2>1, <2>3, ObjectFields DEF CallStays, CallEnds
  <2> QED
    BY <1>2, <2>1, <2>2, <2>3 DEF ObexdStep, Announce, RemoveTransfer, ExportTransfer, EndTransfer, EndSession,
                                  Restart, Unheard, CallStays
<1>3. CASE TrackerStep
  BY <1>1, <1>3, TrackerEffects DEF CallStays
<1>4. CASE AgentStep
  <2>1. ASSUME NEW u \in Transfers, NEW how \in {"accepted", "refused"}, Reply(u, how), answers[u] = 0, auth[u] # "none"
        PROVE  CallStays(t) \/ CallAnswered(t)
    <3>1. auth[u] \in {"pending", "over"}
      BY <1>1, <2>1 DEF AnswersOK, RestOK
    <3>2. /\ answers'[t] = IF t = u THEN answers[t] + 1 ELSE answers[t]
          /\ auth'[t] = IF t = u /\ auth[t] = "pending" THEN how ELSE auth[t]
      BY <1>1, <2>1, Replies
    <3> QED
      BY <2>1, <3>1, <3>2 DEF CallStays, CallAnswered
  <2>2. ASSUME NEW u \in Transfers, Authorizes(u)
        PROVE  CallStays(t) \/ CallAnswered(t)
    <3>1. auth[u] # "none" /\ answers[u] = 0
      BY <1>1, <2>2 DEF Authorizes, AnswersOK, At
    <3>2. Reply(u, "accepted") \/ Reply(u, "refused") \/ UNCHANGED <<auth, answers>>
      BY <2>2 DEF Authorizes
    <3> QED
      BY <2>1, <3>1, <3>2 DEF CallStays
  <2>3. ASSUME NEW u \in Transfers, Clicks(u)
        PROVE  CallStays(t) \/ CallAnswered(t)
    <3>1. auth[u] # "none" /\ answers[u] = 0
      BY <1>1, <2>3 DEF Clicks, AnswersOK
    <3>2. Reply(u, "accepted") \/ Reply(u, "refused")
      BY <2>3 DEF Clicks
    <3> QED
      BY <2>1, <3>1, <3>2
  <2>4. ASSUME Cancels \/ Expires
        PROVE  CallStays(t)
    BY <2>4 DEF Cancels, Expires, CallStays
  <2> QED
    BY <1>1, <1>4, <2>2, <2>3, <2>4, AgentEffects
<1>5. CASE PluginStep
  <2>1. UNCHANGED answers
    BY <1>1, <1>5, PluginEffects
  <2>2. auth'[t] = auth[t] \/ (auth[t] = "pending" /\ auth'[t] = "over")
    BY <1>1, <1>5, PluginEffects DEF Appears, Vanishes, Loads, Unloads
  <2> QED
    BY <2>1, <2>2 DEF CallStays, CallEnds
<1> QED
  BY <1>2, <1>3, <1>4, <1>5, Steps

\* The calls as obexd sees them are those of an exported method: every step opens, answers or ends
\* calls as DbusService does, and answers none twice.
THEOREM PushesAnsweredOnce == Spec => AnsweredOnce
<1>1. Init => Method!Init
  BY DEF Init, Method!Init
<1>2. ASSUME IInv, IInv', [Next]_vars
      PROVE  [Method!Next]_Method!callVars
  <2>1. CASE UNCHANGED vars
    BY <2>1 DEF vars, Method!callVars
  <2>2. CASE Next
    <3>1. RestOK /\ RestOK'
      BY <1>2, TypeParts DEF IInv
    <3>2. ASSUME NEW t \in Transfers
          PROVE  \/ Method!Asked(t) \/ Method!Answered(t) \/ Method!AnsweredAtOnce(t)
                 \/ Method!GivenUp(t) \/ Method!Stays(t)
      <4>1. CallStays(t) \/ CallAsked(t) \/ CallEnds(t) \/ CallAnswered(t)
        BY <1>2, <2>2, CallSteps
      <4>2. auth[t] \in {"none", "pending", "accepted", "refused", "over"}
        BY <3>1 DEF RestOK
      <4>3. CASE CallStays(t)
        BY <4>2, <4>3 DEF CallStays, Method!Stays, Method!Becomes
      <4>4. CASE CallAsked(t)
        BY <4>4 DEF CallAsked, Method!Asked, Method!Becomes
      <4>5. CASE CallEnds(t)
        BY <4>5 DEF CallEnds, Method!GivenUp, Method!Becomes
      <4>6. CASE CallAnswered(t)
        BY <4>6 DEF CallAnswered, Method!Answered, Method!Becomes
      <4> QED
        BY <4>1, <4>3, <4>4, <4>5, <4>6
    <3>3. answers' \in [Transfers -> {0, 1}]
      BY <1>2, <3>1 DEF IInv, AnswersOK, RestOK
    <3>4. [t \in Transfers |->
                 CASE auth'[t] = "none" -> "unused"
                   [] auth'[t] = "pending" -> "open"
                   [] auth'[t] \in {"accepted", "refused"} -> "answered"
                   [] auth'[t] = "over" -> "over"] \in [Transfers -> {"unused", "open", "answered", "over"}]
      BY <3>1 DEF RestOK
    <3>5. Method!Next
      BY <3>2, <3>3, <3>4 DEF Method!Next
    <3> QED
      BY <3>5
  <2> QED
    BY <1>2, <2>1, <2>2
<1>3. Spec => Method!Spec
  BY <1>1, <1>2, InductiveInvariant, PTL DEF Spec, Method!Spec
<1> QED
  BY <1>3 DEF AnsweredOnce

\* obexd is told of each push once at most, and only what the agent decided (ok and err of
\* DbusService._handle_method_call).
THEOREM OneAnswerEach == Spec => []Method!AnsweredOnce
<1>1. IInv => Method!AnsweredOnce
  <2> SUFFICES ASSUME IInv, NEW t \in Transfers
               PROVE  LET s == [u \in Transfers |-> CASE auth[u] = "none" -> "unused"
                                                     [] auth[u] = "pending" -> "open"
                                                     [] auth[u] \in {"accepted", "refused"} -> "answered"
                                                     [] auth[u] = "over" -> "over"][t]
                      IN  /\ answers[t] \in {0, 1}
                          /\ s = "answered" => answers[t] = 1
                          /\ s \in {"unused", "open"} => answers[t] = 0
    BY DEF Method!AnsweredOnce
  <2>1. RestOK /\ AnswersOK
    BY TypeParts DEF IInv
  <2>2. auth[t] \in {"none", "pending", "accepted", "refused", "over"}
    BY <2>1 DEF RestOK
  <2> QED
    BY <2>1, <2>2 DEF AnswersOK
<1> QED
  BY <1>1, InductiveInvariant, PTL
================================================================================
