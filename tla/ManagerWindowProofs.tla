------------------------- MODULE ManagerWindowProofs -------------------------
(***************************************************************************)
(* Proofs about the manager's progress bars and operations, for any number *)
(* of bars, devices and messages under way.                                *)
(***************************************************************************)
EXTENDS ManagerWindow, TLAPS, FiniteSetTheorems, WellFoundedInduction

\* What the proofs need of the constants.
LEMMA Constants == MaxPending \in Nat \ {0} /\ NoDevice \notin Devices
BY WindowAssumption

(***************************************************************************)
(* The stack of bars.                                                      *)
(***************************************************************************)
\* A set of natural numbers that is not empty has a least one.
LEMMA Least ==
    ASSUME NEW S, S \subseteq Nat, S # {}
    PROVE  \E m \in S : \A k \in S : m <= k
<1>1. PICK m \in S : \A k \in S : <<k, m>> \notin OpToRel(<, Nat)
  BY WFMin, NatLessThanWellFounded, Zenon
<1>2. \A k \in S : ~(k \in Nat /\ m \in Nat /\ k < m)
  BY <1>1, Zenon DEF OpToRel
<1> QED
  BY <1>2

\* A set of positions in a sequence that is not empty has a last one.
LEMMA LastPosition ==
    ASSUME NEW n \in Nat, NEW S, S \subseteq 1 .. n, S # {}
    PROVE  \E m \in S : \A k \in S : k <= m
<1> DEFINE T == {n - k : k \in S}
<1>1. T \subseteq Nat /\ T # {}
  <2>1. \A k \in S : n - k \in Nat
    OBVIOUS
  <2> QED
    BY <2>1
<1>2. PICK t \in T : \A u \in T : t <= u
  BY <1>1, Least
<1>3. PICK m \in S : t = n - m
  BY <1>2
<1>4. \A k \in S : n - m <= n - k
  BY <1>2, <1>3
<1>5. \A k \in S : k <= m
  BY <1>4
<1> QED
  BY <1>5

\* Trimming keeps the beginning of the stack, drops what is finalized only, and leaves a bar
\* at the end that is not.
LEMMA Trimmed ==
    ASSUME NEW s \in Seq(Bars), NEW D
    PROVE  \E n \in 0 .. Len(s) :
             /\ Trim(s, D) = SubSeq(s, 1, n)
             /\ n > 0 => s[n] \notin D
             /\ \A i \in n + 1 .. Len(s) : s[i] \in D
<1> DEFINE live == {i \in DOMAIN s : s[i] \notin D}
<1>1. CASE live = {}
  <2>1. Trim(s, D) = SubSeq(s, 1, 0)
    BY <1>1 DEF Trim
  <2>2. \A i \in 0 + 1 .. Len(s) : s[i] \in D
    BY <1>1
  <2> QED
    BY <2>1, <2>2
<1>2. CASE live # {}
  <2> DEFINE n == CHOOSE i \in live : \A j \in live : j <= i
  <2>1. Trim(s, D) = SubSeq(s, 1, n)
    BY <1>2 DEF Trim
  <2>2. \E i \in live : \A j \in live : j <= i
    <3>1. Len(s) \in Nat /\ live \subseteq 1 .. Len(s)
      OBVIOUS
    <3> HIDE DEF live
    <3> QED
      BY <1>2, <3>1, LastPosition
  <2>3. n \in live /\ \A j \in live : j <= n
    BY <2>2
  <2> HIDE DEF n
  <2>4. n \in 1 .. Len(s) /\ s[n] \notin D
    BY <2>3
  <2>5. \A i \in n + 1 .. Len(s) : s[i] \in D
    BY <2>3, <2>4
  <2> QED
    BY <2>1, <2>4, <2>5
<1> QED
  BY <1>1, <1>2

\* Each bar is in the stack once, and what is finalized is in it.
StackOK ==
    /\ instances \in Seq(Bars)
    /\ \A i, j \in DOMAIN instances : instances[i] = instances[j] => i = j
    /\ finalized \subseteq InStack /\ visible \subseteq Bars
    /\ {show_statusbar, statusbar} \subseteq BOOLEAN

\* A new bar.
LEMMA BarAdded ==
    ASSUME StackOK, BarsShown, NEW b \in Bars, NewBar(b)
    PROVE  StackOK' /\ BarsShown' /\ Active' = Active \cup {b} /\ InStack' = InStack \cup {b}
<1>1. instances \in Seq(Bars) /\ instances' = Append(instances, b) /\ b \notin InStack
  BY DEF StackOK, NewBar
<1>2. /\ instances' \in Seq(Bars) /\ Len(instances') = Len(instances) + 1 /\ instances' # <<>>
      /\ instances'[Len(instances')] = b
      /\ \A i \in DOMAIN instances : i \in DOMAIN instances' /\ instances'[i] = instances[i]
      /\ DOMAIN instances' = DOMAIN instances \cup {Len(instances')}
  BY <1>1
<1>3. InStack' = InStack \cup {b}
  BY <1>2 DEF InStack
<1>4. \A i, j \in DOMAIN instances' : instances'[i] = instances'[j] => i = j
  BY <1>1, <1>2 DEF StackOK, InStack
<1>5. finalized' = finalized /\ b \notin finalized
  BY <1>1 DEF NewBar, StackOK
<1>6. Active' = Active \cup {b}
  BY <1>3, <1>5 DEF Active
<1>7. Top(instances)' = {b} /\ visible' = {b}
  BY <1>2 DEF Top, NewBar, BarsShown
<1>8. /\ show_statusbar' = show_statusbar /\ statusbar' = (statusbar \/ ~show_statusbar)
  BY DEF NewBar
<1>9. StackOK'
  BY <1>2, <1>3, <1>4, <1>5, <1>7, <1>8 DEF StackOK
<1>10. BarsShown'
  BY <1>2, <1>5, <1>7, <1>8 DEF BarsShown, StackOK
<1> QED
  BY <1>3, <1>6, <1>9, <1>10

\* Some bars are finalized: what remains is shown as it must be.
LEMMA BarsFinalized ==
    ASSUME StackOK, BarsShown, NEW B \in SUBSET Bars, Finalize(B)
    PROVE  StackOK' /\ BarsShown' /\ Active' = Active \ B /\ InStack' \subseteq InStack
<1>1. CASE B \cap Active = {}
  <2>1. UNCHANGED barVars
    BY <1>1 DEF Finalize
  <2> QED
    BY <1>1, <2>1 DEF barVars, StackOK, BarsShown, Active, InStack, Top
<1>2. CASE B \cap Active # {}
  <2> DEFINE F == finalized \cup B
  <2>1. /\ instances' = Left(B)
        /\ finalized' = F \cap {instances'[i] : i \in DOMAIN instances'}
        /\ visible' = (visible \ B) \cup (IF instances' = instances THEN {} ELSE Top(instances'))
        /\ statusbar' = IF instances' = <<>> THEN statusbar /\ show_statusbar
                        ELSE statusbar \/ (~show_statusbar /\ instances' # instances)
        /\ show_statusbar' = show_statusbar
    BY <1>2 DEF Finalize
  <2>2. instances \in Seq(Bars) /\ instances # <<>>
    BY <1>2 DEF StackOK, Active, InStack
  <2>3. PICK n \in 0 .. Len(instances) :
          /\ instances' = SubSeq(instances, 1, n)
          /\ n > 0 => instances[n] \notin F
          /\ \A i \in n + 1 .. Len(instances) : instances[i] \in F
          /\ n = Len(instances) \/ Top(instances) \subseteq B
    <3>1. CASE Top(instances) \subseteq B
      <4>1. instances' = Trim(instances, F)
        BY <2>1, <3>1 DEF Left
      <4> HIDE DEF F
      <4> QED
        BY <2>2, <3>1, <4>1, Trimmed
    <3>2. CASE ~(Top(instances) \subseteq B)
      <4>1. instances' = instances
        BY <2>1, <3>2 DEF Left
      <4>2. instances = SubSeq(instances, 1, Len(instances)) /\ Len(instances) > 0
        BY <2>2
      <4>3. instances[Len(instances)] \notin F
        BY <2>2, <3>2 DEF Top, BarsShown
      <4>4. /\ Len(instances) \in 0 .. Len(instances)
            /\ instances' = SubSeq(instances, 1, Len(instances))
            /\ \A i \in Len(instances) + 1 .. Len(instances) : instances[i] \in F
        BY <2>2, <4>1, <4>2
      <4> QED
        BY <4>3, <4>4
    <3> QED
      BY <3>1, <3>2
  <2>4. /\ instances' \in Seq(Bars) /\ Len(instances') = n /\ DOMAIN instances' = 1 .. n
        /\ \A i \in 1 .. n : i \in DOMAIN instances /\ instances'[i] = instances[i]
    BY <2>2, <2>3
  <2>5. InStack' = {instances[i] : i \in 1 .. n} /\ InStack' \subseteq InStack
    BY <2>4 DEF InStack
  <2>6. finalized' = F \cap InStack'
    BY <2>1 DEF InStack
  <2>7. Active' = Active \ B
    <3>1. Active' = InStack' \ F
      BY <2>6 DEF Active
    <3>2. \A e \in InStack \ InStack' : e \in F
      <4> SUFFICES ASSUME NEW i \in DOMAIN instances, instances[i] \notin InStack'
                   PROVE  instances[i] \in F
        BY DEF InStack
      <4>1. i \in n + 1 .. Len(instances)
        BY <2>2, <2>3, <2>5
      <4> QED
        BY <2>3, <4>1
    <3> QED
      BY <2>5, <3>1, <3>2 DEF Active
  <2>8. \A i, j \in DOMAIN instances' : instances'[i] = instances'[j] => i = j
    BY <2>4 DEF StackOK
  <2>9. Top(instances)' \cap finalized' = {}
    BY <2>3, <2>4, <2>6 DEF Top
  <2>10. visible' = Top(instances)'
    <3>1. CASE Top(instances) \subseteq B
      <4>1. visible \ B = {}
        BY <3>1 DEF BarsShown
      <4>2. instances' # instances
        <5>1. instances[Len(instances)] \in F
          BY <2>2, <3>1 DEF Top
        <5>2. n # Len(instances)
          BY <2>2, <2>3, <5>1
        <5> QED
          BY <2>4, <5>2
      <4> QED
        BY <2>1, <4>1, <4>2 DEF Top
    <3>2. CASE ~(Top(instances) \subseteq B)
      <4>1. instances' = instances
        BY <2>1, <3>2 DEF Left
      <4>2. visible \ B = visible
        BY <2>2, <3>2 DEF BarsShown, Top
      <4> QED
        BY <2>1, <4>1, <4>2 DEF BarsShown, Top
    <3> QED
      BY <3>1, <3>2
  <2>11. BarsShown'
    BY <2>1, <2>9, <2>10 DEF BarsShown, StackOK
  <2>12. visible' \subseteq Bars
    BY <2>4, <2>10 DEF Top
  <2>13. StackOK'
    BY <2>1, <2>4, <2>6, <2>8, <2>12 DEF StackOK
  <2> QED
    BY <2>5, <2>7, <2>11, <2>13
<1> QED
  BY <1>1, <1>2

(***************************************************************************)
(* The invariant.                                                          *)
(***************************************************************************)
Sent == Elements(calls) \cup Elements(inbox)

JobType == job \in [Bars -> [phase : {"none", "waiting", "message", "cancelled"},
                             dev : Devices \cup {NoDevice}]]

\* A bar is in use exactly while it has a job.
JobsHaveBars == \A b \in Bars : job[b].phase # "none" <=> b \in Active

\* The bars of searches, which their handlers and the calls of BlueZ know, are not those of
\* connections, so that the end of a search ends no connection.
SearchesApart ==
    /\ \A b \in hooked : job[b].dev = NoDevice
    /\ \A m \in Sent : \A b \in m.bars : job[b].dev = NoDevice

\* A search that is to start, or has failed to, has a bar.
SearchesHaveBars == \A m \in Sent : m.kind \in {"start", "error"} => m.bars # {}

OtherTypes ==
    /\ hooked \subseteq Bars /\ stuck \subseteq ops /\ ops \subseteq Devices
    /\ {discovering, seen, told, bluez} \subseteq BOOLEAN
    /\ Len(calls) <= MaxPending /\ calls \in Seq(Calls) /\ inbox \in Seq(Messages)

BarsInv == StackOK /\ BarsShown
JobsInv == JobType /\ JobsHaveBars /\ OpHasCall
SearchInv == OtherTypes /\ SearchesApart /\ SearchesHaveBars

WindowInv == BarsInv /\ JobsInv /\ SearchInv

\* A bar that nothing refers to gets a job.
LEMMA JobBegins ==
    ASSUME WindowInv, NEW b \in Bars, Unused(b), NewBar(b),
           NEW p \in {"waiting", "message"}, NEW d \in Devices \cup {NoDevice},
           job' = [job EXCEPT ![b] = [phase |-> p, dev |-> d]],
           \A e \in ops' \ stuck' : e \in ops \ stuck \/ (e = d /\ p = "waiting")
    PROVE  BarsInv' /\ JobsInv' /\ \A c \in Bars \ {b} : job'[c] = job[c]
<1>1. BarsInv' /\ Active' = Active \cup {b}
  BY BarAdded DEF WindowInv, BarsInv
<1>2. JobType' /\ job'[b] = [phase |-> p, dev |-> d] /\ \A c \in Bars \ {b} : job'[c] = job[c]
  BY DEF WindowInv, JobsInv, JobType
<1>3. JobsHaveBars'
  BY <1>1, <1>2 DEF WindowInv, JobsInv, JobsHaveBars
<1>4. b \notin Active /\ job[b].phase = "none"
  BY DEF Unused, Active, WindowInv, JobsInv, JobsHaveBars
<1>5. OpHasCall'
  <2> SUFFICES ASSUME NEW e \in ops' \ stuck' PROVE \E c \in Bars : job'[c] = Waiting(e)
    BY DEF OpHasCall, Waiting
  <2>1. CASE e \in ops \ stuck
    <3>1. PICK c \in Bars : job[c] = Waiting(e)
      BY <2>1 DEF WindowInv, JobsInv, OpHasCall
    <3>2. c # b
      BY <1>4, <3>1 DEF Waiting
    <3> QED
      BY <1>2, <3>1, <3>2
  <2>2. CASE e = d /\ p = "waiting"
    BY <1>2, <2>2 DEF Waiting
  <2> QED
    BY <2>1, <2>2
<1> QED
  BY <1>1, <1>2, <1>3, <1>5 DEF JobsInv

\* The jobs of some bars end, and of what is being connected no call ends with them.
LEMMA JobsEnd ==
    ASSUME WindowInv, NEW B \in SUBSET Bars, Finalize(B), job' = Ended(B),
           ops' \ stuck' \subseteq ops \ stuck,
           \A b \in B : job[b].phase = "waiting" => job[b].dev \notin ops' \ stuck'
    PROVE  /\ BarsInv' /\ JobsInv'
           /\ \A c \in Bars : job'[c] = Idle \/ job'[c] = job[c]
<1>1. BarsInv' /\ Active' = Active \ B
  BY BarsFinalized DEF WindowInv, BarsInv
<1>2. /\ JobType'
      /\ \A c \in B : job'[c] = Idle
      /\ \A c \in Bars \ B : job'[c] = job[c]
  BY DEF WindowInv, JobsInv, JobType, Ended, Idle
<1>3. JobsHaveBars'
  BY <1>1, <1>2 DEF WindowInv, JobsInv, JobsHaveBars, Idle
<1>4. OpHasCall'
  <2> SUFFICES ASSUME NEW e \in ops' \ stuck' PROVE \E c \in Bars : job'[c] = Waiting(e)
    BY DEF OpHasCall, Waiting
  <2>1. PICK c \in Bars : job[c] = Waiting(e)
    BY DEF WindowInv, JobsInv, OpHasCall
  <2>2. c \notin B
    BY <2>1 DEF Waiting
  <2> QED
    BY <1>2, <2>1, <2>2
<1> QED
  BY <1>1, <1>2, <1>3, <1>4 DEF JobsInv

\* What is sent are calls and messages.
LEMMA SentTypes ==
    ASSUME OtherTypes
    PROVE  Elements(calls) \subseteq Calls /\ Elements(inbox) \subseteq Messages
<1>1. calls \in Seq(Calls) /\ inbox \in Seq(Messages)
  BY DEF OtherTypes
<1>2. \A i \in DOMAIN calls : calls[i] \in Calls
  BY <1>1
<1>3. \A i \in DOMAIN inbox : inbox[i] \in Messages
  BY <1>1
<1> QED
  BY <1>2, <1>3 DEF Elements

\* What a queue holds.
LEMMA Queues ==
    ASSUME NEW S, NEW s \in Seq(S)
    PROVE  /\ \A e \in S : Append(s, e) \in Seq(S) /\ Len(Append(s, e)) = Len(s) + 1
                          /\ Elements(Append(s, e)) = Elements(s) \cup {e}
           /\ s # <<>> => /\ Tail(s) \in Seq(S) /\ Len(Tail(s)) < Len(s)
                          /\ Elements(Tail(s)) \subseteq Elements(s)
                          /\ Head(s) \in Elements(s)
<1>1. ASSUME NEW e \in S
      PROVE  /\ Append(s, e) \in Seq(S) /\ Len(Append(s, e)) = Len(s) + 1
             /\ Elements(Append(s, e)) = Elements(s) \cup {e}
  <2> DEFINE t == Append(s, e)
  <2>1. t \in Seq(S) /\ Len(t) = Len(s) + 1 /\ DOMAIN t = DOMAIN s \cup {Len(s) + 1}
    OBVIOUS
  <2>2. t[Len(s) + 1] = e /\ \A i \in DOMAIN s : t[i] = s[i]
    OBVIOUS
  <2> QED
    BY <2>1, <2>2 DEF Elements
<1>2. ASSUME s # <<>>
      PROVE  /\ Tail(s) \in Seq(S) /\ Len(Tail(s)) < Len(s)
             /\ Elements(Tail(s)) \subseteq Elements(s)
             /\ Head(s) \in Elements(s)
  <2>1. Tail(s) \in Seq(S) /\ Len(Tail(s)) = Len(s) - 1
    BY <1>2
  <2>2. \A i \in DOMAIN Tail(s) : i + 1 \in DOMAIN s /\ Tail(s)[i] = s[i + 1]
    BY <1>2
  <2>3. 1 \in DOMAIN s /\ Head(s) = s[1]
    BY <1>2
  <2> QED
    BY <2>1, <2>2, <2>3 DEF Elements
<1> QED
  BY <1>1, <1>2

\* A search stays apart from the connections when bars end, or others begin.
LEMMA SearchesStay ==
    ASSUME SearchInv, NEW S, S \subseteq Sent, NEW H, H \subseteq hooked, JobType,
           \A c \in Bars : job'[c].dev \in {NoDevice, job[c].dev}
                           \/ (c \notin hooked /\ \A m \in Sent : c \notin m.bars)
    PROVE  /\ \A b \in H : job'[b].dev = NoDevice
           /\ \A m \in S : \A b \in m.bars : job'[b].dev = NoDevice
<1>1. hooked \subseteq Bars
  BY DEF SearchInv, OtherTypes
<1>2. \A m \in Sent : m.bars \subseteq Bars
  BY SentTypes DEF SearchInv, Sent, Calls, Messages
<1> QED
  BY <1>1, <1>2 DEF SearchInv, SearchesApart

(***************************************************************************)
(* The steps.                                                              *)
(***************************************************************************)
\* The steps of a connection.
LEMMA ConnectionStep ==
    ASSUME WindowInv,
           \/ \E d \in Devices, b \in Bars : connect_service(d, b)
           \/ \E d \in Devices : SetOpRaises(d)
           \/ \E b \in Bars : Answer(b) \/ Cancelled(b) \/ MessageOver(b)
    PROVE  WindowInv'
<1>1. UNCHANGED searchVars
  BY DEF connect_service, SetOpRaises, Answer, Cancelled, MessageOver
<1>2. Sent' = Sent /\ hooked' = hooked
  BY <1>1 DEF searchVars, Sent, Elements
<1>3. JobType /\ SearchInv
  BY DEF WindowInv, JobsInv
<1>4. ASSUME \A c \in Bars : job'[c].dev \in {NoDevice, job[c].dev}
                             \/ (c \notin hooked /\ \A m \in Sent : c \notin m.bars),
             stuck' \subseteq ops' /\ ops' \subseteq Devices
      PROVE  SearchInv'
  <2>1. SearchesApart'
    BY <1>2, <1>3, <1>4, SearchesStay DEF SearchesApart
  <2>2. SearchesHaveBars'
    BY <1>2, <1>3 DEF SearchInv, SearchesHaveBars
  <2>3. OtherTypes'
    BY <1>1, <1>3, <1>4 DEF searchVars, SearchInv, OtherTypes
  <2> QED
    BY <2>1, <2>2, <2>3 DEF SearchInv
<1>5. stuck \subseteq ops /\ ops \subseteq Devices
  BY <1>3 DEF SearchInv, OtherTypes
<1>6. ASSUME NEW d \in Devices, NEW b \in Bars, connect_service(d, b)
      PROVE  WindowInv'
  <2>1. PICK p \in {"waiting", "message"} :
          /\ job' = [job EXCEPT ![b] = [phase |-> p, dev |-> d]]
          /\ stuck' \subseteq ops' /\ ops' \subseteq Devices
          /\ \A e \in ops' \ stuck' : e \in ops \ stuck \/ (e = d /\ p = "waiting")
    BY <1>5, <1>6 DEF connect_service, Waiting
  <2>2. Unused(b) /\ NewBar(b)
    BY <1>6 DEF connect_service
  <2>3. BarsInv' /\ JobsInv' /\ \A c \in Bars \ {b} : job'[c] = job[c]
    <3>1. d \in Devices \cup {NoDevice}
      OBVIOUS
    <3> QED
      BY <2>1, <2>2, <3>1, JobBegins
  <2>4. b \notin hooked /\ \A m \in Sent : b \notin m.bars
    BY <2>2 DEF Unused, Sent
  <2> QED
    BY <1>4, <2>1, <2>3, <2>4 DEF WindowInv
<1>7. ASSUME NEW b \in Bars, Answer(b)
      PROVE  WindowInv'
  <2>1. /\ job[b].phase = "waiting" /\ job[b].dev # NoDevice
        /\ ops' = ops \ {job[b].dev} /\ stuck' = stuck \ {job[b].dev}
        /\ job' = [job EXCEPT ![b].phase = "message"]
        /\ UNCHANGED barVars
    BY <1>7 DEF Answer
  <2>2. /\ JobType' /\ \A c \in Bars \ {b} : job'[c] = job[c]
        /\ job'[b].phase = "message" /\ job'[b].dev = job[b].dev
    BY <1>3, <2>1 DEF JobType
  <2>3. BarsInv' /\ Active' = Active
    BY <2>1 DEF barVars, WindowInv, BarsInv, StackOK, BarsShown, Active, InStack, Top
  <2>4. JobsHaveBars'
    BY <2>1, <2>2, <2>3 DEF WindowInv, JobsInv, JobsHaveBars
  <2>5. OpHasCall'
    <3> SUFFICES ASSUME NEW e \in ops' \ stuck' PROVE \E c \in Bars : job'[c] = Waiting(e)
      BY DEF OpHasCall, Waiting
    <3>1. PICK c \in Bars : job[c] = Waiting(e)
      BY <2>1 DEF WindowInv, JobsInv, OpHasCall
    <3>2. c # b
      BY <2>1, <3>1 DEF Waiting
    <3> QED
      BY <2>2, <3>1, <3>2
  <2>6. SearchInv'
    BY <1>4, <1>5, <2>1, <2>2
  <2> QED
    BY <2>2, <2>3, <2>4, <2>5, <2>6 DEF WindowInv, JobsInv
<1>8. ASSUME NEW b \in Bars, Cancelled(b) \/ MessageOver(b)
      PROVE  WindowInv'
  <2>1. /\ Finalize({b}) /\ job' = Ended({b})
        /\ stuck' \subseteq ops' /\ ops' \subseteq ops /\ ops' \ stuck' \subseteq ops \ stuck
        /\ job[b].phase = "waiting" => job[b].dev \notin ops' \ stuck'
    BY <1>5, <1>8 DEF Cancelled, MessageOver
  <2>2. BarsInv' /\ JobsInv' /\ \A c \in Bars : job'[c] = Idle \/ job'[c] = job[c]
    BY <2>1, JobsEnd
  <2>3. SearchInv'
    BY <1>4, <1>5, <2>1, <2>2 DEF Idle
  <2> QED
    BY <2>2, <2>3 DEF WindowInv
<1>9. ASSUME NEW d \in Devices, SetOpRaises(d)
      PROVE  WindowInv'
  <2>1. /\ ops' = ops \cup {d} /\ stuck' = stuck \cup ({d} \ ops)
        /\ UNCHANGED job /\ UNCHANGED barVars
    BY <1>9 DEF SetOpRaises
  <2>2. BarsInv' /\ Active' = Active
    BY <2>1 DEF barVars, WindowInv, BarsInv, StackOK, BarsShown, Active, InStack, Top
  <2>3. ops' \ stuck' \subseteq ops \ stuck
    BY <2>1
  <2>4. JobsInv'
    BY <2>1, <2>2, <2>3 DEF WindowInv, JobsInv, JobType, JobsHaveBars, OpHasCall
  <2>5. SearchInv'
    BY <1>4, <1>5, <2>1
  <2> QED
    BY <2>2, <2>4, <2>5 DEF WindowInv
<1> QED
  BY <1>6, <1>7, <1>8, <1>9

\* A search begins, with its bar, its handlers and its call.
LEMMA InquiryStep ==
    ASSUME WindowInv, NEW b \in Bars, inquiry(b)
    PROVE  WindowInv'
<1>1. JobType /\ SearchInv /\ OtherTypes
  BY DEF WindowInv, JobsInv, SearchInv
<1>2. /\ Unused(b) /\ NewBar(b) /\ hooked' = hooked \cup {b}
      /\ job' = [job EXCEPT ![b] = [phase |-> "waiting", dev |-> NoDevice]]
      /\ UNCHANGED <<ops, stuck, seen, told, bluez, inbox>>
  BY DEF inquiry, Waiting
<1>3. BarsInv' /\ JobsInv' /\ \A c \in Bars \ {b} : job'[c] = job[c]
  <2>1. \A e \in ops' \ stuck' : e \in ops \ stuck
    BY <1>2
  <2> QED
    BY <1>2, <2>1, JobBegins
<1>4. job'[b].dev = NoDevice
  BY <1>1, <1>2 DEF JobType
<1>5. /\ calls' \in Seq(Calls) /\ Len(calls') <= MaxPending /\ discovering' \in BOOLEAN
      /\ Elements(calls') \subseteq Elements(calls) \cup {Start(b)}
  <2>1. CASE discovering
    BY <1>1, <2>1 DEF inquiry, discover_devices, OtherTypes
  <2>2. CASE ~discovering
    <3>1. Len(calls) < MaxPending /\ discovering' = TRUE /\ calls' = Append(calls, Start(b))
      BY <2>2 DEF inquiry, discover_devices
    <3>2. calls \in Seq(Calls) /\ Start(b) \in Calls
      BY <1>1 DEF OtherTypes, Start, Calls
    <3> HIDE DEF Calls, Start
    <3>3. calls' \in Seq(Calls) /\ Len(calls') = Len(calls) + 1
          /\ Elements(calls') = Elements(calls) \cup {Start(b)}
      BY <3>1, <3>2, Queues
    <3> QED
      BY <3>1, <3>2, <3>3, Constants
  <2> QED
    BY <2>1, <2>2
<1>6. Sent' \subseteq Sent \cup {Start(b)}
  BY <1>2, <1>5 DEF Sent
<1>7. SearchesApart'
  <2>1. \A c \in Bars : job'[c].dev \in {NoDevice, job[c].dev}
    BY <1>3, <1>4
  <2>2. /\ \A c \in hooked : job'[c].dev = NoDevice
        /\ \A m \in Sent : \A c \in m.bars : job'[c].dev = NoDevice
    BY <1>1, <2>1, SearchesStay
  <2> QED
    BY <1>2, <1>4, <1>6, <2>2 DEF SearchesApart, Start
<1>8. SearchesHaveBars'
  BY <1>1, <1>6 DEF SearchInv, SearchesHaveBars, Start
<1>9. OtherTypes'
  BY <1>1, <1>2, <1>5 DEF OtherTypes
<1> QED
  BY <1>3, <1>7, <1>8, <1>9 DEF WindowInv, SearchInv

\* StopDiscovery is called.
LEMMA StopCalled ==
    ASSUME WindowInv, stop_discovery
    PROVE  /\ OtherTypes' /\ SearchesHaveBars' /\ BarsInv' /\ Active' = Active
           /\ ops' = ops /\ stuck' = stuck /\ hooked' = hooked
           /\ \A m \in Sent' : m \in Sent \/ m.bars = {}
<1>1. OtherTypes
  BY DEF WindowInv, SearchInv
<1>2. /\ Len(calls) < MaxPending /\ discovering' = FALSE /\ calls' = Append(calls, Stop)
      /\ UNCHANGED <<ops, stuck, hooked, seen, told, bluez, inbox>> /\ UNCHANGED barVars
  BY DEF stop_discovery
<1>3. calls \in Seq(Calls) /\ Stop \in Calls
  BY <1>1 DEF OtherTypes, Stop, Calls
<1>4. calls' \in Seq(Calls) /\ Len(calls') = Len(calls) + 1
      /\ Elements(calls') = Elements(calls) \cup {Stop}
  <2> HIDE DEF Calls, Stop
  <2> QED
    BY <1>2, <1>3, Queues
<1>5. Len(calls') <= MaxPending
  BY <1>2, <1>3, <1>4, Constants
<1>6. OtherTypes'
  BY <1>1, <1>2, <1>4, <1>5 DEF OtherTypes
<1>7. \A m \in Sent' : m \in Sent \/ (m.bars = {} /\ m.kind = "stop")
  BY <1>2, <1>4 DEF Sent, Stop
<1>8. SearchesHaveBars'
  BY <1>7 DEF WindowInv, SearchInv, SearchesHaveBars
<1>9. BarsInv' /\ Active' = Active
  BY <1>2 DEF barVars, WindowInv, BarsInv, StackOK, BarsShown, Active, InStack, Top
<1> QED
  BY <1>2, <1>6, <1>7, <1>8, <1>9

\* A search is stopped, by the minute that is over or by the user.
LEMMA StopStep ==
    ASSUME WindowInv, TimeUp \/ \E b \in Bars : Cancel(b)
    PROVE  WindowInv'
<1>1. stop_discovery
  BY DEF TimeUp, Cancel
<1>2. /\ OtherTypes' /\ SearchesHaveBars' /\ BarsInv' /\ Active' = Active
      /\ ops' = ops /\ stuck' = stuck /\ hooked' = hooked
      /\ \A m \in Sent' : m \in Sent \/ m.bars = {}
  BY <1>1, StopCalled
<1>3. SearchInv /\ JobType
  BY DEF WindowInv, JobsInv
<1>4. /\ JobType'
      /\ \A c \in Bars : job'[c].dev = job[c].dev /\ (job'[c].phase = "none" <=> job[c].phase = "none")
      /\ \A c \in Bars : job[c].dev # NoDevice => job'[c] = job[c]
  <2>1. CASE TimeUp
    <3>1. job' = job
      BY <2>1 DEF TimeUp
    <3> QED
      BY <1>3, <3>1 DEF JobType
  <2>2. ASSUME NEW b \in Bars, Cancel(b)
        PROVE  /\ JobType'
               /\ \A c \in Bars : /\ job'[c].dev = job[c].dev
                                  /\ job'[c].phase = "none" <=> job[c].phase = "none"
               /\ \A c \in Bars : job[c].dev # NoDevice => job'[c] = job[c]
    <3>1. job[b] = Waiting(NoDevice) /\ job' = [job EXCEPT ![b].phase = "cancelled"]
      BY <2>2 DEF Cancel
    <3> QED
      BY <1>3, <3>1 DEF JobType, Waiting
  <2> QED
    BY <2>1, <2>2
<1>5. JobsHaveBars'
  BY <1>2, <1>4 DEF WindowInv, JobsInv, JobsHaveBars
<1>6. OpHasCall'
  <2> SUFFICES ASSUME NEW e \in ops' \ stuck' PROVE \E c \in Bars : job'[c] = Waiting(e)
    BY DEF OpHasCall, Waiting
  <2>1. PICK c \in Bars : job[c] = Waiting(e)
    BY <1>2 DEF WindowInv, JobsInv, OpHasCall
  <2>2. job[c].dev # NoDevice
    BY <1>2, <1>3, <2>1, Constants DEF Waiting, SearchInv, OtherTypes
  <2> QED
    BY <1>4, <2>1, <2>2
<1>7. SearchesApart'
  <2>1. \A c \in Bars : job'[c].dev \in {NoDevice, job[c].dev}
    BY <1>4
  <2>2. /\ \A c \in hooked : job'[c].dev = NoDevice
        /\ \A m \in Sent : \A c \in m.bars : job'[c].dev = NoDevice
    BY <1>3, <2>1, SearchesStay
  <2> QED
    BY <1>2, <2>2 DEF SearchesApart
<1> QED
  BY <1>2, <1>4, <1>5, <1>6, <1>7 DEF WindowInv, JobsInv, SearchInv

\* What has been sent stays apart, and so does what is sent for it, when bars end.
LEMMA SearchesLast ==
    ASSUME SearchInv, JobType, OtherTypes', hooked' \subseteq hooked,
           \A c \in Bars : job'[c] = Idle \/ job'[c] = job[c],
           \A m \in Sent' :
              /\ m.kind \in {"start", "error"} => m.bars # {}
              /\ \A b \in m.bars : \E n \in Sent : b \in n.bars
    PROVE  SearchInv'
<1>1. \A c \in Bars : job'[c].dev \in {NoDevice, job[c].dev}
  BY DEF Idle
<1>2. /\ \A b \in hooked' : job'[b].dev = NoDevice
      /\ \A m \in Sent : \A b \in m.bars : job'[b].dev = NoDevice
  BY <1>1, SearchesStay
<1>3. SearchesApart'
  BY <1>2 DEF SearchesApart
<1>4. SearchesHaveBars'
  BY DEF SearchesHaveBars
<1> QED
  BY <1>3, <1>4 DEF SearchInv

\* Bars of searches end: no connection ends with them.
LEMMA SearchesEnd ==
    ASSUME WindowInv, NEW B \in SUBSET Bars, \A b \in B : job[b].dev = NoDevice,
           Finalize(B), job' = Ended(B), UNCHANGED <<ops, stuck>>
    PROVE  BarsInv' /\ JobsInv' /\ \A c \in Bars : job'[c] = Idle \/ job'[c] = job[c]
<1>1. NoDevice \notin ops'
  BY Constants DEF WindowInv, SearchInv, OtherTypes
<1>2. /\ ops' \ stuck' \subseteq ops \ stuck
      /\ \A b \in B : job[b].phase = "waiting" => job[b].dev \notin ops' \ stuck'
  BY <1>1
<1> QED
  BY <1>2, JobsEnd

\* Bars and jobs stay as they are.
LEMMA JobsStay ==
    ASSUME WindowInv, UNCHANGED barVars, UNCHANGED <<job, ops, stuck>>
    PROVE  BarsInv' /\ JobsInv' /\ \A c \in Bars : job'[c] = Idle \/ job'[c] = job[c]
<1>1. BarsInv' /\ Active' = Active
  BY DEF barVars, WindowInv, BarsInv, StackOK, BarsShown, Active, InStack, Top
<1>2. JobsInv'
  BY <1>1 DEF WindowInv, JobsInv, JobType, JobsHaveBars, OpHasCall
<1> QED
  BY <1>1, <1>2

\* What is said of a search that is over is for its bars.
LEMMA AllEndJobs ==
    ASSUME WindowInv, AllEnd, UNCHANGED <<ops, stuck>>
    PROVE  /\ BarsInv' /\ JobsInv' /\ \A c \in Bars : job'[c] = Idle \/ job'[c] = job[c]
           /\ hooked' = {} /\ discovering' = FALSE
<1>1. hooked \subseteq Bars /\ \A b \in hooked : job[b].dev = NoDevice
  BY DEF WindowInv, SearchInv, OtherTypes, SearchesApart
<1> QED
  BY <1>1, SearchesEnd DEF AllEnd, DiscoveryOver

\* What BlueZ sends is received: an error ends its bars, and a discovery that is over all.
LEMMA ReceiveStep ==
    ASSUME WindowInv, StartFails \/ DiscoveringChanges
    PROVE  WindowInv'
<1>1. SearchInv /\ OtherTypes /\ JobType
  BY DEF WindowInv, JobsInv, SearchInv
<1>2. inbox # <<>> /\ inbox' = Tail(inbox) /\ UNCHANGED <<ops, stuck, bluez, calls>>
  BY DEF StartFails, DiscoveringChanges
<1>3. /\ inbox' \in Seq(Messages) /\ Elements(inbox)' \subseteq Elements(inbox)
      /\ Head(inbox) \in Messages /\ Head(inbox) \in Sent
  <2>1. inbox \in Seq(Messages)
    BY <1>1 DEF OtherTypes
  <2>2. /\ Tail(inbox) \in Seq(Messages) /\ Elements(Tail(inbox)) \subseteq Elements(inbox)
        /\ Head(inbox) \in Elements(inbox)
    <3> HIDE DEF Messages
    <3> QED
      BY <1>2, <2>1, Queues
  <2>3. Elements(inbox)' = Elements(Tail(inbox))
    BY <1>2 DEF Elements
  <2> QED
    BY <1>1, <1>2, <2>2, <2>3, SentTypes DEF Sent
<1>4. Sent' \subseteq Sent
  BY <1>2, <1>3 DEF Sent, Elements
<1>5. ASSUME StartFails
      PROVE  /\ BarsInv' /\ JobsInv' /\ \A c \in Bars : job'[c] = Idle \/ job'[c] = job[c]
             /\ UNCHANGED <<hooked, discovering, seen, told>>
  <2>1. Head(inbox).bars \in SUBSET Bars
    BY <1>3 DEF Messages
  <2>2. \A b \in Head(inbox).bars : job[b].dev = NoDevice
    BY <1>1, <1>3 DEF SearchInv, SearchesApart
  <2>3. /\ Finalize(Head(inbox).bars) /\ job' = Ended(Head(inbox).bars)
        /\ UNCHANGED <<ops, stuck, hooked, discovering, seen, told>>
    BY <1>5 DEF StartFails
  <2> QED
    BY <2>1, <2>2, <2>3, SearchesEnd
<1>6. ASSUME DiscoveringChanges
      PROVE  /\ BarsInv' /\ JobsInv' /\ \A c \in Bars : job'[c] = Idle \/ job'[c] = job[c]
             /\ hooked' \subseteq hooked /\ {discovering', seen', told'} \subseteq BOOLEAN
  <2>1. told' = Head(inbox).on /\ seen' = bluez
    BY <1>6 DEF DiscoveringChanges
  <2>2. {told', seen'} \subseteq BOOLEAN
    BY <1>1, <1>3, <2>1 DEF Messages, OtherTypes
  <2>3. CASE Head(inbox).on
    <3>1. UNCHANGED <<job, hooked, discovering, ops, stuck>> /\ UNCHANGED barVars
      BY <1>6, <2>3 DEF DiscoveringChanges
    <3>2. hooked' \subseteq hooked /\ discovering' \in BOOLEAN
      BY <1>1, <3>1 DEF OtherTypes
    <3> QED
      BY <2>2, <3>1, <3>2, JobsStay
  <2>4. CASE ~Head(inbox).on
    <3>1. AllEnd /\ UNCHANGED <<ops, stuck>>
      BY <1>6, <2>4 DEF DiscoveringChanges
    <3> QED
      BY <2>2, <3>1, AllEndJobs
  <2> QED
    BY <2>3, <2>4
<1>7. /\ BarsInv' /\ JobsInv' /\ \A c \in Bars : job'[c] = Idle \/ job'[c] = job[c]
      /\ hooked' \subseteq hooked /\ {discovering', seen', told'} \subseteq BOOLEAN
  BY <1>1, <1>5, <1>6 DEF OtherTypes
<1>8. OtherTypes'
  BY <1>1, <1>2, <1>3, <1>7 DEF OtherTypes
<1>9. \A m \in Sent' : /\ m.kind \in {"start", "error"} => m.bars # {}
                       /\ \A b \in m.bars : \E n \in Sent : b \in n.bars
  BY <1>1, <1>4 DEF SearchInv, SearchesHaveBars
<1>10. SearchInv'
  BY <1>1, <1>7, <1>8, <1>9, SearchesLast
<1> QED
  BY <1>7, <1>10 DEF WindowInv

\* An error of BlueZ is a message about one bar.
LEMMA ErrorMessage == \A b \in Bars : Failed(b) \in Messages /\ Failed(b).bars = {b}
BY DEF Failed, Messages

\* The bar of a search that is to start, for the error that says it has not.
LEMMA ErrorOfStart ==
    ASSUME SearchInv, NEW c \in Elements(calls), c.kind = "start",
           NEW m, m = Failed(CHOOSE b \in Bars : b \in c.bars)
    PROVE  /\ m \in Messages /\ m.bars # {}
           /\ \A b \in m.bars : b \in c.bars
<1>1. c \in Calls /\ c \in Sent
  BY SentTypes DEF SearchInv, Sent
<1>2. \E b \in Bars : b \in c.bars
  BY <1>1 DEF SearchInv, SearchesHaveBars, Calls
<1> DEFINE x == CHOOSE b \in Bars : b \in c.bars
<1>3. x \in Bars /\ x \in c.bars
  BY <1>2
<1> HIDE DEF x
<1>4. m = Failed(x)
  BY DEF x
<1>5. m \in Messages /\ m.bars = {x}
  BY <1>3, <1>4, ErrorMessage, Zenon
<1>6. {x} # {} /\ \A b \in {x} : b \in c.bars
  BY <1>3, Zenon
<1> QED
  BY <1>5, <1>6, Zenon

\* BlueZ handles a call, or its discovery ends.
LEMMA BluezStep ==
    ASSUME WindowInv, HandleStart \/ HandleStop \/ DiscoveryAborted
    PROVE  WindowInv'
<1>1. SearchInv /\ OtherTypes /\ JobType
  BY DEF WindowInv, JobsInv, SearchInv
<1>2. UNCHANGED <<job, ops, stuck, hooked, discovering, seen, told>> /\ UNCHANGED barVars
  BY DEF HandleStart, HandleStop, DiscoveryAborted
<1>3. BarsInv' /\ JobsInv' /\ \A c \in Bars : job'[c] = Idle \/ job'[c] = job[c]
  BY <1>2, JobsStay
<1>4. calls \in Seq(Calls) /\ inbox \in Seq(Messages) /\ Len(calls) <= MaxPending
  BY <1>1 DEF OtherTypes
<1>5. \A on \in BOOLEAN : Changed(on) \in Messages
  BY DEF Changed, Messages
<1>6. /\ calls' \in Seq(Calls) /\ Len(calls') <= MaxPending
      /\ Elements(calls)' \subseteq Elements(calls)
      /\ calls # <<>> => Head(calls) \in Elements(calls)
  <2> DEFINE t == Tail(calls)
  <2>1. calls # <<>> => /\ t \in Seq(Calls) /\ Len(t) < Len(calls)
                        /\ Elements(t) \subseteq Elements(calls)
                        /\ Head(calls) \in Elements(calls)
    <3> HIDE DEF Calls
    <3> QED
      BY <1>4, Queues
  <2>2. calls' = calls \/ (calls # <<>> /\ calls' = t)
    BY DEF HandleStart, HandleStop, DiscoveryAborted
  <2>3. CASE calls' = calls
    BY <1>4, <2>1, <2>3 DEF Elements
  <2>4. CASE calls # <<>> /\ calls' = t
    <3>1. Elements(calls)' = Elements(t)
      BY <2>4 DEF Elements
    <3>2. Len(t) \in Nat /\ Len(calls) \in Nat
      BY <1>4, <2>1, <2>4
    <3> HIDE DEF t
    <3> QED
      BY <1>4, <2>1, <2>4, <3>1, <3>2, Constants
  <2> QED
    BY <2>2, <2>3, <2>4
<1>7. bluez' \in BOOLEAN
  BY <1>1 DEF OtherTypes, HandleStart, HandleStop, DiscoveryAborted
<1>8. inbox' = inbox \/ \E m \in Messages :
         /\ inbox' = Append(inbox, m)
         /\ m.kind \in {"start", "error"} => m.bars # {}
         /\ \A b \in m.bars : \E n \in Sent : b \in n.bars
  <2>1. ASSUME NEW on \in BOOLEAN, inbox' = Append(inbox, Changed(on))
        PROVE  \E m \in Messages :
                 /\ inbox' = Append(inbox, m)
                 /\ m.kind \in {"start", "error"} => m.bars # {}
                 /\ \A b \in m.bars : \E n \in Sent : b \in n.bars
    <3>1. Changed(on).kind = "Discovering" /\ Changed(on).bars = {}
      BY DEF Changed
    <3> QED
      BY <1>5, <2>1, <3>1
  <2>2. CASE HandleStart
    <3> DEFINE m == Failed(CHOOSE b \in Bars : b \in Head(calls).bars)
    <3>1. inbox' = Append(inbox, Changed(TRUE)) \/ inbox' = Append(inbox, m)
      BY <2>2 DEF HandleStart
    <3>2. Head(calls) \in Elements(calls) /\ Head(calls).kind = "start"
      BY <1>6, <2>2 DEF HandleStart
    <3>3. m \in Messages /\ m.bars # {} /\ \A b \in m.bars : b \in Head(calls).bars
      BY <1>1, <3>2, ErrorOfStart
    <3>4. Head(calls) \in Sent
      BY <3>2 DEF Sent
    <3> HIDE DEF m
    <3> QED
      BY <2>1, <3>1, <3>3, <3>4
  <2>3. CASE HandleStop \/ DiscoveryAborted
    <3>1. inbox' = inbox \/ inbox' = Append(inbox, Changed(FALSE))
      BY <2>3 DEF HandleStop, DiscoveryAborted
    <3> QED
      BY <2>1, <3>1
  <2> QED
    BY <2>2, <2>3
<1>9. /\ inbox' \in Seq(Messages)
      /\ \A m \in Elements(inbox)' :
            /\ m.kind \in {"start", "error"} => m.bars # {}
            /\ \A b \in m.bars : \E n \in Sent : b \in n.bars
  <2>1. \A m \in Elements(inbox) :
            /\ m.kind \in {"start", "error"} => m.bars # {}
            /\ \A b \in m.bars : \E n \in Sent : b \in n.bars
    BY <1>1 DEF SearchInv, SearchesHaveBars, Sent
  <2>2. CASE inbox' = inbox
    BY <1>4, <2>1, <2>2 DEF Elements
  <2>3. ASSUME NEW m \in Messages, inbox' = Append(inbox, m),
               m.kind \in {"start", "error"} => m.bars # {},
               \A b \in m.bars : \E n \in Sent : b \in n.bars
        PROVE  <1>9!1 /\ <1>9!2
    <3>1. Append(inbox, m) \in Seq(Messages) /\ Elements(Append(inbox, m)) = Elements(inbox) \cup {m}
      <4> HIDE DEF Messages
      <4> QED
        BY <1>4, Queues
    <3>2. Elements(inbox)' = Elements(Append(inbox, m))
      BY <2>3 DEF Elements
    <3> QED
      BY <2>1, <2>3, <3>1, <3>2
  <2> QED
    BY <1>8, <2>2, <2>3
<1>10. \A m \in Sent' : /\ m.kind \in {"start", "error"} => m.bars # {}
                        /\ \A b \in m.bars : \E n \in Sent : b \in n.bars
  BY <1>1, <1>6, <1>9 DEF SearchInv, SearchesHaveBars, Sent
<1>11. OtherTypes'
  BY <1>1, <1>2, <1>6, <1>7, <1>9 DEF OtherTypes
<1>12. SearchInv'
  BY <1>1, <1>2, <1>3, <1>10, <1>11, SearchesLast
<1> QED
  BY <1>3, <1>12 DEF WindowInv

\* There are finitely many elements in a sequence, and each yields one error at most.
LEMMA ErrorsAreFinite ==
    ASSUME NEW S, NEW s \in Seq(S), NEW f \in [DOMAIN s -> Messages],
           NEW E \in SUBSET {f[i] : i \in DOMAIN s}
    PROVE  IsFiniteSet(E)
<1> DEFINE R == {f[i] : i \in DOMAIN s}
<1>1. IsFiniteSet(DOMAIN s)
  <2>1. DOMAIN s = 1 .. Len(s) /\ Len(s) \in Int
    OBVIOUS
  <2> QED
    BY <2>1, FS_Interval
<1>2. f \in Surjection(DOMAIN s, R)
  BY DEF Surjection
<1>3. IsFiniteSet(R)
  <2> HIDE DEF R
  <2> QED
    BY <1>1, <1>2, FS_Surjection
<1> QED
  BY <1>3, FS_Subset

\* The window goes over to another adapter.
LEMMA AdapterStep ==
    ASSUME WindowInv, set_adapter
    PROVE  WindowInv'
<1>1. SearchInv /\ OtherTypes /\ JobType
  BY DEF WindowInv, JobsInv, SearchInv
<1> DEFINE errors == {m \in Elements(inbox) : m.kind = "error"}
           starting == {c \in Elements(calls) : c.kind = "start"}
           errorOf(c) == Failed(CHOOSE b \in Bars : b \in c.bars)
           starts == {errorOf(c) : c \in starting}
<1>2. /\ calls' = <<>> /\ bluez' = FALSE /\ seen' = FALSE /\ told' \in BOOLEAN /\ UNCHANGED <<ops, stuck>>
      /\ discovering => AllEnd
      /\ ~discovering => UNCHANGED <<job, hooked, discovering>> /\ UNCHANGED barVars
  BY DEF set_adapter
<1>3. PICK E \in SUBSET starts :
        inbox' \in {s \in [1 .. Cardinality(errors \cup E) -> errors \cup E] :
                      Elements(s) = errors \cup E}
  BY Zenon DEF set_adapter
<1>4. ASSUME NEW c \in starting
      PROVE  /\ errorOf(c) \in Messages /\ errorOf(c).bars # {}
             /\ \A b \in errorOf(c).bars : \E n \in Sent : b \in n.bars
  <2> HIDE DEF errorOf
  <2>1. errorOf(c) = Failed(CHOOSE b \in Bars : b \in c.bars)
    BY DEF errorOf
  <2>2. /\ errorOf(c) \in Messages /\ errorOf(c).bars # {}
        /\ \A b \in errorOf(c).bars : b \in c.bars
    BY <1>1, <2>1, ErrorOfStart
  <2> QED
    BY <2>2 DEF Sent
<1>5. \A m \in errors \cup E : /\ m \in Messages /\ m.bars # {}
                              /\ \A b \in m.bars : \E n \in Sent : b \in n.bars
  <2>1. \A m \in errors : /\ m \in Messages /\ m.bars # {}
                          /\ \A b \in m.bars : \E n \in Sent : b \in n.bars
    BY <1>1, SentTypes DEF SearchInv, SearchesHaveBars, Sent
  <2>2. \A m \in E : \E c \in starting : m = errorOf(c)
    OBVIOUS
  <2> HIDE DEF errors, starting, errorOf
  <2> QED
    BY <1>4, <2>1, <2>2
<1>6. IsFiniteSet(errors \cup E)
  <2> DEFINE e == [i \in DOMAIN inbox |-> inbox[i]]
             x == [i \in DOMAIN calls |->
                     IF calls[i] \in starting THEN errorOf(calls[i]) ELSE Changed(FALSE)]
  <2>1. inbox \in Seq(Messages) /\ calls \in Seq(Calls)
    BY <1>1 DEF OtherTypes
  <2>2. IsFiniteSet(errors)
    <3>1. e \in [DOMAIN inbox -> Messages]
      <4> HIDE DEF Messages
      <4> QED
        BY <2>1
    <3>2. errors \subseteq {e[i] : i \in DOMAIN inbox}
      BY DEF Elements
    <3> HIDE DEF e, errors
    <3> QED
      BY <2>1, <3>1, <3>2, ErrorsAreFinite
  <2>3. IsFiniteSet(E)
    <3>1. Changed(FALSE) \in Messages
      BY DEF Changed, Messages
    <3>2. x \in [DOMAIN calls -> Messages]
      <4> HIDE DEF starting, errorOf
      <4> QED
        BY <1>4, <3>1
    <3>3. starts \subseteq {x[i] : i \in DOMAIN calls}
      <4> SUFFICES ASSUME NEW c \in starting PROVE errorOf(c) \in {x[i] : i \in DOMAIN calls}
        OBVIOUS
      <4>1. PICK i \in DOMAIN calls : c = calls[i]
        BY DEF Elements
      <4> HIDE DEF starting, errorOf
      <4>2. x[i] = errorOf(c)
        BY <4>1
      <4> HIDE DEF x
      <4> QED
        BY <4>1, <4>2
    <3>4. E \subseteq {x[i] : i \in DOMAIN calls}
      <4> HIDE DEF x, starts
      <4> QED
        BY <3>3
    <3> HIDE DEF x, starts
    <3> QED
      BY <2>1, <3>2, <3>4, ErrorsAreFinite
  <2> QED
    <3> HIDE DEF errors
    <3> QED
      BY <2>2, <2>3, FS_Union
<1>7. inbox' \in Seq(Messages) /\ Elements(inbox)' = errors \cup E
  <2> DEFINE X == errors \cup E
  <2>1. Cardinality(X) \in Nat
    BY <1>6, FS_CardinalityType
  <2>2. inbox' \in [1 .. Cardinality(X) -> X] /\ Elements(inbox') = X
    BY <1>3
  <2>3. X \subseteq Messages
    BY <1>5
  <2>4. inbox' \in Seq(X)
    <3> HIDE DEF X
    <3> QED
      BY <2>1, <2>2
  <2>5. inbox' \in Seq(Messages)
    <3> HIDE DEF X, Messages
    <3> QED
      BY <2>3, <2>4
  <2>6. Elements(inbox)' = Elements(inbox')
    BY DEF Elements
  <2> QED
    BY <2>2, <2>5, <2>6
<1>8. Elements(calls)' = {}
  BY <1>2 DEF Elements
<1>9. \A m \in Sent' : /\ m.kind \in {"start", "error"} => m.bars # {}
                       /\ \A b \in m.bars : \E n \in Sent : b \in n.bars
  <2>1. Sent' = errors \cup E
    BY <1>7, <1>8 DEF Sent
  <2> HIDE DEF errors
  <2> QED
    BY <1>5, <2>1
<1>10. /\ BarsInv' /\ JobsInv' /\ \A c \in Bars : job'[c] = Idle \/ job'[c] = job[c]
       /\ hooked' \subseteq hooked /\ discovering' \in BOOLEAN
  <2>1. CASE discovering
    BY <1>2, <2>1, AllEndJobs
  <2>2. CASE ~discovering
    <3>1. UNCHANGED barVars /\ UNCHANGED <<job, ops, stuck, hooked, discovering>>
      BY <1>2, <2>2
    <3> QED
      BY <1>1, <3>1, JobsStay DEF OtherTypes
  <2> QED
    BY <2>1, <2>2
<1>11. OtherTypes'
  <2>1. calls' \in Seq(Calls) /\ Len(calls') <= MaxPending
    <3> HIDE DEF Calls
    <3>1. <<>> \in Seq(Calls) /\ Len(<<>>) = 0
      OBVIOUS
    <3> QED
      BY <1>2, <3>1, Constants
  <2> QED
    BY <1>1, <1>2, <1>7, <1>10, <2>1 DEF OtherTypes
<1>12. SearchInv'
  BY <1>1, <1>9, <1>10, <1>11, SearchesLast
<1> QED
  BY <1>10, <1>12 DEF WindowInv

\* The buttons and the setting of the status bar.
LEMMA OtherStep ==
    ASSUME WindowInv, ButtonsUpdated \/ (\E v \in BOOLEAN : SetStatusbar(v)) \/ UNCHANGED vars
    PROVE  WindowInv'
<1>1. SearchInv /\ OtherTypes /\ JobType
  BY DEF WindowInv, JobsInv, SearchInv
<1>2. UNCHANGED <<job, ops, stuck, hooked, discovering, told, bluez, calls, inbox>> /\ seen' \in {seen, bluez}
  BY DEF ButtonsUpdated, SetStatusbar, searchVars, vars
<1>3. BarsInv' /\ JobsInv'
  <2>1. CASE UNCHANGED barVars
    BY <1>2, <2>1, JobsStay
  <2>2. ASSUME NEW v \in BOOLEAN, SetStatusbar(v)
        PROVE  BarsInv' /\ JobsInv'
    <3>1. UNCHANGED <<instances, finalized, visible>> /\ show_statusbar' = v /\ statusbar' = v
      BY <2>2 DEF SetStatusbar, SetShowStatusbar
    <3>2. BarsInv' /\ Active' = Active
      BY <3>1 DEF WindowInv, BarsInv, StackOK, BarsShown, Active, InStack, Top
    <3> QED
      BY <1>2, <3>2 DEF WindowInv, JobsInv, JobType, JobsHaveBars, OpHasCall
  <2> QED
    BY <2>1, <2>2 DEF ButtonsUpdated, vars
<1>4. Sent' = Sent
  BY <1>2 DEF Sent, Elements
<1>5. SearchInv'
  BY <1>1, <1>2, <1>4 DEF SearchInv, OtherTypes, SearchesApart, SearchesHaveBars
<1> QED
  BY <1>3, <1>5 DEF WindowInv

(***************************************************************************)
(* The theorems.                                                           *)
(***************************************************************************)
\* WindowInv holds at all times.
THEOREM WindowInvariant == Spec => []WindowInv
<1>1. Init => WindowInv
  <2> SUFFICES ASSUME Init PROVE WindowInv
    OBVIOUS
  <2>1. /\ instances = <<>> /\ finalized = {} /\ visible = {}
        /\ show_statusbar \in BOOLEAN /\ statusbar = show_statusbar
        /\ job = [b \in Bars |-> Idle] /\ hooked = {} /\ ops = {} /\ stuck = {}
        /\ discovering = FALSE /\ seen = FALSE /\ told = FALSE /\ bluez = FALSE
        /\ calls = <<>> /\ inbox = <<>>
    BY DEF Init, BarsInit
  <2>2. InStack = {} /\ Active = {} /\ Sent = {} /\ Top(instances) = {}
    BY <2>1 DEF InStack, Active, Sent, Elements, Top
  <2>3. BarsInv
    BY <2>1, <2>2 DEF BarsInv, StackOK, BarsShown
  <2>4. JobsInv
    BY <2>1, <2>2 DEF JobsInv, JobType, JobsHaveBars, OpHasCall, Idle
  <2>5. OtherTypes
    <3>1. calls \in Seq(Calls) /\ inbox \in Seq(Messages) /\ Len(calls) = 0
      <4>1. \A S : <<>> \in Seq(S)
        OBVIOUS
      <4>2. Len(<<>>) = 0
        OBVIOUS
      <4> QED
        BY <2>1, <4>1, <4>2, Zenon
    <3>2. {discovering, seen, told, bluez} \subseteq BOOLEAN
      BY <2>1
    <3>3. hooked \subseteq Bars /\ stuck \subseteq ops /\ ops \subseteq Devices /\ Len(calls) <= MaxPending
      BY <2>1, <3>1, Constants
    <3> QED
      BY <3>1, <3>2, <3>3 DEF OtherTypes
  <2>6. SearchInv
    BY <2>1, <2>2, <2>5 DEF SearchInv, SearchesApart, SearchesHaveBars
  <2> QED
    BY <2>3, <2>4, <2>6 DEF WindowInv
<1>2. WindowInv /\ [Next]_vars => WindowInv'
  <2> SUFFICES ASSUME WindowInv, [Next]_vars PROVE WindowInv'
    OBVIOUS
  <2>1. CASE \/ \E d \in Devices, b \in Bars : connect_service(d, b)
             \/ \E d \in Devices : SetOpRaises(d)
             \/ \E b \in Bars : Answer(b) \/ Cancelled(b) \/ MessageOver(b)
    BY <2>1, ConnectionStep
  <2>2. CASE \E b \in Bars : inquiry(b)
    BY <2>2, InquiryStep
  <2>3. CASE TimeUp \/ \E b \in Bars : Cancel(b)
    BY <2>3, StopStep
  <2>4. CASE StartFails \/ DiscoveringChanges
    BY <2>4, ReceiveStep
  <2>5. CASE set_adapter
    BY <2>5, AdapterStep
  <2>6. CASE HandleStart \/ HandleStop \/ DiscoveryAborted
    BY <2>6, BluezStep
  <2>7. CASE ButtonsUpdated \/ (\E v \in BOOLEAN : SetStatusbar(v)) \/ UNCHANGED vars
    BY <2>7, OtherStep
  <2> QED
    BY <2>1, <2>2, <2>3, <2>4, <2>5, <2>6, <2>7, Zenon DEF Next
<1> QED
  BY <1>1, <1>2, PTL DEF Spec

\* Each operation has its bar, and the right one is shown, whatever the order in which
\* connections, searches and late errors end.
THEOREM BarsAreRight == Spec => []BarPerJob
<1>1. WindowInv => BarPerJob
  <2> SUFFICES ASSUME WindowInv PROVE BarPerJob
    OBVIOUS
  <2>1. InStack \subseteq Bars
    BY DEF WindowInv, BarsInv, StackOK, InStack
  <2> QED
    BY <2>1 DEF WindowInv, BarsInv, StackOK, JobsInv, JobType, JobsHaveBars, SearchInv,
                OtherTypes, BarPerJob, TypeOK
<1> QED
  BY <1>1, WindowInvariant, PTL

\* A device that is said to be being connected has a call under way, unless a menu without
\* a device has said so.
THEOREM OpsHaveCalls == Spec => []OpHasCall
<1>1. WindowInv => OpHasCall
  BY DEF WindowInv, JobsInv
<1> QED
  BY <1>1, WindowInvariant, PTL
==============================================================================
