------------------------- MODULE AppletPluginsProofs -------------------------
(***************************************************************************)
(* Proofs about the plugins of blueman-applet that follow BlueZ, each      *)
(* group by itself: for any devices, adapters, names of interfaces and     *)
(* messages on their way.                                                  *)
(***************************************************************************)
EXTENDS AppletPlugins, TLAPS, FiniteSetTheorems

(***************************************************************************)
(* Sequences of messages.                                                  *)
(***************************************************************************)
LEMMA Appending ==
    ASSUME NEW S, NEW q \in Seq(S), NEW m \in S
    PROVE  /\ Append(q, m) \in Seq(S) /\ Len(q) \in Nat
           /\ DOMAIN Append(q, m) = DOMAIN q \cup {Len(q) + 1} /\ DOMAIN q = 1 .. Len(q)
           /\ Append(q, m)[Len(q) + 1] = m /\ \A i \in DOMAIN q : Append(q, m)[i] = q[i]
OBVIOUS

LEMMA Taking ==
    ASSUME NEW S, NEW q \in Seq(S), q # <<>>
    PROVE  /\ Tail(q) \in Seq(S) /\ Head(q) \in S /\ Head(q) = q[1] /\ 1 \in DOMAIN q
           /\ Len(q) \in Nat /\ DOMAIN q = 1 .. Len(q) /\ Len(Tail(q)) = Len(q) - 1
           /\ \A i \in DOMAIN Tail(q) : i + 1 \in DOMAIN q /\ Tail(q)[i] = q[i + 1]
           /\ \A i \in DOMAIN q : i > 1 => i - 1 \in DOMAIN Tail(q) /\ Tail(q)[i - 1] = q[i]
OBVIOUS

(***************************************************************************)
(* Visibility.                                                             *)
(***************************************************************************)
Assignments == ({"Discoverable"} \X BOOLEAN) \cup ({"DiscoverableTimeout"} \X Timeouts)
Said == ({"there", "Powered"} \X BOOLEAN) \cup Assignments

\* A message after which update_menuitems is called
Updates(m) == m[1] # "DiscoverableTimeout" \/ m[2] = 0

SetsOK == sets \in [{"applet", "tab"} -> Seq(Assignments)] /\ scale \in Timeouts

AdapterOK ==
    /\ adapter \in [there : BOOLEAN, Powered : BOOLEAN, Discoverable : BOOLEAN, DiscoverableTimeout : Timeouts]
    /\ heard \in Seq(Said)
    /\ known \in BOOLEAN /\ item \in [visible : BOOLEAN, sensitive : BOOLEAN]

\* The plugin knows, or is told in the end, whether the adapter is there.
ThereOK ==
    \/ /\ known = adapter.there
       /\ \A j \in DOMAIN heard : heard[j][1] # "there"
    \/ \E i \in DOMAIN heard : /\ heard[i] = <<"there", adapter.there>>
                               /\ \A j \in DOMAIN heard : j > i => heard[j][1] # "there"

\* The item is offered rightly, or will be updated.
ItemOK ==
    item.visible =>
        /\ known
        /\ (adapter.there /\ Offered) \/ \E i \in DOMAIN heard : Updates(heard[i])

VisibilityInv == SetsOK /\ AdapterOK /\ ThereOK /\ ItemOK

LEMMA TimeoutValues == 0 \in Timeouts /\ Option \in Timeouts /\ Minutes \in Timeouts /\ Timeouts \subseteq Nat
                       /\ Option = 1
BY VisibilityAssumption DEF Timeouts, Option

\* What a process sends are assignments.
LEMMA Sendings ==
    ASSUME SetsOK, NEW who \in {"applet", "tab"}, NEW s \in Seq(Assignments), Set(who, s)
    PROVE  sets' \in [{"applet", "tab"} -> Seq(Assignments)]
BY DEF SetsOK, Set

LEMMA AssignmentsSent ==
    /\ <<>> \in Seq(Assignments)
    /\ Hide \in Seq(Assignments) /\ Show \in Seq(Assignments)
    /\ <<<<"Discoverable", TRUE>>, <<"DiscoverableTimeout", Option>>>> \in Seq(Assignments)
    /\ <<<<"Discoverable", TRUE>>>> \in Seq(Assignments)
    /\ \A v \in Timeouts : /\ <<<<"DiscoverableTimeout", v>>>> \in Seq(Assignments)
                           /\ Show \o <<<<"DiscoverableTimeout", v>>>> \in Seq(Assignments)
                           /\ <<<<"Discoverable", TRUE>>>> \o <<<<"DiscoverableTimeout", v>>>> \in Seq(Assignments)
                           /\ <<<<"Discoverable", TRUE>>>> \o <<>> \in Seq(Assignments)
<1>1. /\ <<"Discoverable", TRUE>> \in Assignments /\ <<"Discoverable", FALSE>> \in Assignments
      /\ \A v \in Timeouts : <<"DiscoverableTimeout", v>> \in Assignments
  BY DEF Assignments
<1>2. Hide \in Seq(Assignments) /\ Show \in Seq(Assignments)
  BY <1>1, TimeoutValues DEF Hide, Show
<1>3. /\ <<<<"Discoverable", TRUE>>>> \in Seq(Assignments)
      /\ \A v \in Timeouts : <<<<"DiscoverableTimeout", v>>>> \in Seq(Assignments)
  BY <1>1
<1>4. \A p, q \in Seq(Assignments) : p \o q \in Seq(Assignments)
  OBVIOUS
<1>5. <<>> \in Seq(Assignments)
  OBVIOUS
<1>6. <<<<"Discoverable", TRUE>>, <<"DiscoverableTimeout", Option>>>> \in Seq(Assignments)
  BY <1>1, TimeoutValues
<1> QED
  BY <1>2, <1>3, <1>4, <1>5, <1>6

LEMMA TogglesAssign ==
    ASSUME SetsOK, NEW r \in {"hidden", "always", "temporary"}, Toggle(r)
    PROVE  SetsOK'
<1>1. scale' \in Timeouts
  BY TimeoutValues DEF Toggle, SetsOK
<1>2. CASE r = "hidden"
  BY <1>1, <1>2, AssignmentsSent, Sendings DEF Toggle, SetsOK
<1>3. CASE r = "always"
  BY <1>1, <1>3, AssignmentsSent, Sendings DEF Toggle, SetsOK
<1>4. CASE r = "temporary"
  <2>1. PICK s : s \in {<<>>, <<<<"DiscoverableTimeout", Minutes>>>>} /\ Set("tab", <<<<"Discoverable", TRUE>>>> \o s)
    BY <1>4 DEF Toggle
  <2>2. <<<<"Discoverable", TRUE>>>> \o s \in Seq(Assignments)
    BY <2>1, AssignmentsSent, TimeoutValues
  <2> QED
    BY <1>1, <2>1, <2>2, Sendings DEF SetsOK
<1> QED
  BY <1>2, <1>3, <1>4

\* The assignments in the steps of each process
LEMMA SetsStep ==
    ASSUME SetsOK, AdapterOK, [VisibilityNext]_visibilityVars
    PROVE  SetsOK'
<1>1. CASE UNCHANGED visibilityVars
  BY <1>1 DEF SetsOK, visibilityVars
<1>2. CASE Hears \/ on_update
  BY <1>2 DEF SetsOK, Hears, on_update
<1>3. CASE on_set_discoverable
  BY <1>3, Sendings, AssignmentsSent DEF SetsOK, on_set_discoverable
<1>4. CASE OpenWindow
  <2>1. scale' \in Timeouts
    BY <1>4, TimeoutValues DEF OpenWindow, AdapterOK
  <2> QED
    BY <1>4, <2>1, Sendings, AssignmentsSent DEF SetsOK, OpenWindow
<1>5. CASE CloseWindow
  BY <1>5, TimeoutValues DEF SetsOK, CloseWindow
<1>6. CASE TabHears
  BY <1>6, TogglesAssign DEF SetsOK, TabHears
<1>7. CASE \E r \in {"hidden", "always", "temporary"} : PickRadio(r)
  BY <1>7, TogglesAssign DEF PickRadio
<1>8. CASE \E v \in Timeouts : MoveScale(v)
  <2>1. PICK v \in Timeouts : MoveScale(v)
    BY <1>8
  <2>2. PICK s \in Seq(Assignments) : Set("tab", s)
    BY <2>1, AssignmentsSent, TimeoutValues DEF MoveScale
  <2> QED
    BY <2>1, <2>2, Sendings DEF SetsOK, MoveScale
<1>9. CASE \E who \in {"applet", "tab"} : HandleSet(who)
  <2>1. PICK who \in {"applet", "tab"} : HandleSet(who)
    BY <1>9
  <2>2. Tail(sets[who]) \in Seq(Assignments)
    BY <2>1, Taking DEF HandleSet, SetsOK
  <2> QED
    BY <2>1, <2>2 DEF SetsOK, HandleSet, bluezRest
<1>10. CASE Expire \/ PowerOn \/ PowerOff \/ AdapterComes
  BY <1>10 DEF SetsOK, Expire, PowerOn, PowerOff, AdapterComes, bluezRest
<1>11. CASE \E all \in BOOLEAN : AdapterGoes(all)
  BY <1>11, AssignmentsSent, TimeoutValues DEF SetsOK, AdapterGoes
<1> QED
  BY <1>1, <1>2, <1>3, <1>4, <1>5, <1>6, <1>7, <1>8, <1>9, <1>10, <1>11 DEF VisibilityNext

\* The steps of BlueZ, as the messages that they add
Speaks(m) ==
    /\ heard' = Append(heard, m) /\ m \in Said
    /\ adapter' \in [there : BOOLEAN, Powered : BOOLEAN, Discoverable : BOOLEAN, DiscoverableTimeout : Timeouts]
    /\ IF m[1] = "there" THEN m[2] = adapter'.there ELSE adapter'.there = adapter.there
    /\ ~Updates(m) => adapter' = [adapter EXCEPT !.DiscoverableTimeout = m[2]]
    /\ UNCHANGED <<known, item>>

LEMMA BecomesSpeaks ==
    ASSUME AdapterOK, UNCHANGED <<known, item>>,
           NEW property \in {"Powered", "Discoverable", "DiscoverableTimeout"}, NEW value,
           <<property, value>> \in Said, Becomes(property, value)
    PROVE  Speaks(<<property, value>>)
<1> DEFINE Adapters == [there : BOOLEAN, Powered : BOOLEAN, Discoverable : BOOLEAN, DiscoverableTimeout : Timeouts]
<1>1. CASE property = "Powered"
  <2>1. value \in BOOLEAN
    BY <1>1 DEF Said, Assignments
  <2>2. adapter' = [adapter EXCEPT !.Powered = value]
    BY <1>1 DEF Becomes
  <2>3. adapter' \in Adapters /\ adapter'.there = adapter.there
    BY <2>1, <2>2 DEF AdapterOK
  <2> QED
    BY <1>1, <2>3 DEF Becomes, Speaks, Updates
<1>2. CASE property = "Discoverable"
  <2>1. value \in BOOLEAN
    BY <1>2 DEF Said, Assignments
  <2>2. adapter' = [adapter EXCEPT !.Discoverable = value]
    BY <1>2 DEF Becomes
  <2>3. adapter' \in Adapters /\ adapter'.there = adapter.there
    BY <2>1, <2>2 DEF AdapterOK
  <2> QED
    BY <1>2, <2>3 DEF Becomes, Speaks, Updates
<1>3. CASE property = "DiscoverableTimeout"
  <2>1. value \in Timeouts
    BY <1>3 DEF Said, Assignments
  <2>2. adapter' = [adapter EXCEPT !.DiscoverableTimeout = value]
    BY <1>3 DEF Becomes
  <2>3. adapter' \in Adapters /\ adapter'.there = adapter.there
    BY <2>1, <2>2 DEF AdapterOK
  <2> QED
    BY <1>3, <2>2, <2>3 DEF Becomes, Speaks, Updates
<1> QED
  BY <1>1, <1>2, <1>3

\* What a message keeps of the invariant
LEMMA SpeakingKeeps ==
    ASSUME AdapterOK, ThereOK, ItemOK, NEW m, Speaks(m)
    PROVE  AdapterOK' /\ ThereOK' /\ ItemOK'
<1>0. heard \in Seq(Said) /\ m \in Said
  BY DEF AdapterOK, Speaks
<1>1. AdapterOK'
  BY <1>0, Appending DEF AdapterOK, Speaks
<1>2. /\ DOMAIN heard' = DOMAIN heard \cup {Len(heard) + 1} /\ DOMAIN heard = 1 .. Len(heard) /\ Len(heard) \in Nat
      /\ heard'[Len(heard) + 1] = m /\ \A i \in DOMAIN heard : heard'[i] = heard[i]
  BY <1>0, Appending DEF Speaks
<1>3. ThereOK'
  <2>1. CASE m[1] = "there"
    <3>1. m = <<"there", adapter'.there>>
      BY <1>0, <2>1 DEF Speaks, Said, Assignments
    <3>2. \A j \in DOMAIN heard' : ~(j > Len(heard) + 1)
      BY <1>2
    <3> QED
      BY <1>2, <3>1, <3>2 DEF ThereOK
  <2>2. CASE m[1] # "there"
    <3>1. adapter'.there = adapter.there /\ known' = known
      BY <2>2 DEF Speaks
    <3> QED
      BY <1>2, <2>2, <3>1 DEF ThereOK
  <2> QED
    BY <2>1, <2>2
<1>4. ItemOK'
  <2>1. CASE Updates(m)
    BY <1>2, <2>1 DEF ItemOK, Speaks
  <2>2. CASE ~Updates(m)
    <3>1. m[2] \in Timeouts /\ m[2] # 0 /\ adapter' = [adapter EXCEPT !.DiscoverableTimeout = m[2]]
      BY <1>0, <2>2 DEF Speaks, Updates, Said, Assignments
    <3>2. adapter.there /\ Offered => adapter'.there /\ Offered'
      BY <3>1, TimeoutValues DEF Offered, AdapterOK
    <3> QED
      BY <1>2, <3>2 DEF ItemOK, Speaks
  <2> QED
    BY <2>1, <2>2
<1> QED
  BY <1>1, <1>3, <1>4

LEMMA PowerOffKeeps ==
    ASSUME AdapterOK, ThereOK, ItemOK, PowerOff
    PROVE  AdapterOK' /\ ThereOK' /\ ItemOK'
<1> DEFINE off == IF adapter.Discoverable THEN <<<<"Discoverable", FALSE>>>> ELSE <<>>
<1>1. heard' = heard \o off \o <<<<"Powered", FALSE>>>>
  BY DEF PowerOff
<1>2. <<"Discoverable", FALSE>> \in Said /\ <<"Powered", FALSE>> \in Said /\ heard \in Seq(Said)
  BY DEF Said, Assignments, AdapterOK
<1>3. off \in Seq(Said) /\ \A j \in DOMAIN off : off[j][1] # "there"
  BY <1>2
<1> HIDE DEF off
<1>4. /\ heard' \in Seq(Said) /\ DOMAIN heard = 1 .. Len(heard) /\ DOMAIN heard' = 1 .. Len(heard')
      /\ Len(heard) \in Nat /\ Len(off) \in Nat /\ Len(heard') = Len(heard) + Len(off) + 1
      /\ \A i \in DOMAIN heard : heard'[i] = heard[i]
      /\ heard'[Len(heard')] = <<"Powered", FALSE>>
      /\ \A j \in DOMAIN heard' : j > Len(heard) => heard'[j][1] # "there"
  <2>1. \A j \in DOMAIN off : off[j][1] # "there"
    BY <1>3
  <2>2. /\ Len(heard') = Len(heard) + Len(off) + 1 /\ Len(heard) \in Nat /\ Len(off) \in Nat
        /\ heard' \in Seq(Said)
    BY <1>1, <1>2, <1>3
  <2>3. \A i \in 1 .. Len(heard) : heard'[i] = heard[i]
    BY <1>1, <1>2, <1>3
  <2>4. \A i \in 1 .. Len(off) : heard'[Len(heard) + i] = off[i]
    BY <1>1, <1>2, <1>3
  <2>5. heard'[Len(heard')] = <<"Powered", FALSE>>
    <3> DEFINE m == <<"Powered", FALSE>>
    <3>1. heard \o off \in Seq(Said) /\ Len(heard \o off) = Len(heard) + Len(off) /\ m \in Said
      BY <1>2, <1>3
    <3>2. heard' = heard \o off \o <<m>>
      BY <1>1
    <3> HIDE DEF m
    <3>3. heard'[Len(heard')] = m
      BY <3>1, <3>2, <2>2, <1>2
    <3> QED
      BY <3>3 DEF m
  <2>6. DOMAIN off = 1 .. Len(off)
    BY <1>3
  <2>7. \A j \in 1 .. Len(heard') : j > Len(heard) => heard'[j][1] # "there"
    <3> SUFFICES ASSUME NEW j \in 1 .. Len(heard'), j > Len(heard) PROVE heard'[j][1] # "there"
      OBVIOUS
    <3>1. CASE j = Len(heard')
      BY <3>1, <2>5
    <3>2. CASE j # Len(heard')
      <4>1. j - Len(heard) \in 1 .. Len(off) /\ Len(heard) + (j - Len(heard)) = j
        BY <3>2, <2>2
      <4> QED
        BY <4>1, <2>4, <2>1, <2>6
    <3> QED
      BY <3>1, <3>2
  <2>8. DOMAIN heard = 1 .. Len(heard) /\ DOMAIN heard' = 1 .. Len(heard')
    BY <1>2, <2>2
  <2> QED
    BY <2>2, <2>3, <2>5, <2>7, <2>8
<1>5. /\ adapter' \in [there : BOOLEAN, Powered : BOOLEAN, Discoverable : BOOLEAN, DiscoverableTimeout : Timeouts]
      /\ adapter'.there = adapter.there /\ known' = known /\ item' = item
  <2> DEFINE first == [adapter EXCEPT !.Powered = FALSE]
  <2>1. adapter' = [first EXCEPT !.Discoverable = FALSE] /\ known' = known /\ item' = item
    BY DEF PowerOff, bluezRest
  <2>2. first \in [there : BOOLEAN, Powered : BOOLEAN, Discoverable : BOOLEAN, DiscoverableTimeout : Timeouts]
        /\ first.there = adapter.there
    BY DEF AdapterOK
  <2> HIDE DEF first
  <2> QED
    BY <2>1, <2>2
<1>6. AdapterOK'
  BY <1>4, <1>5 DEF AdapterOK
<1>7. ThereOK'
  BY <1>4, <1>5 DEF ThereOK
<1>8. ItemOK'
  <2>1. Len(heard') \in DOMAIN heard' /\ Updates(heard'[Len(heard')])
    BY <1>4 DEF Updates
  <2> QED
    BY <1>5, <2>1 DEF ItemOK
<1> QED
  BY <1>6, <1>7, <1>8

LEMMA HearsKeeps ==
    ASSUME AdapterOK, ThereOK, ItemOK, Hears
    PROVE  AdapterOK' /\ ThereOK' /\ ItemOK'
<1> DEFINE property == Head(heard)[1]
           value == Head(heard)[2]
           off == IF property = "DiscoverableTimeout" THEN value = 0 ELSE ~value
<1>1. heard # <<>> /\ heard \in Seq(Said) /\ heard' = Tail(heard) /\ UNCHANGED adapter
  BY DEF Hears, AdapterOK
<1>2. /\ Tail(heard) \in Seq(Said) /\ Head(heard) \in Said /\ Head(heard) = heard[1] /\ 1 \in DOMAIN heard
      /\ Len(heard) \in Nat /\ DOMAIN heard = 1 .. Len(heard) /\ Len(Tail(heard)) = Len(heard) - 1
      /\ \A i \in DOMAIN Tail(heard) : i + 1 \in DOMAIN heard /\ Tail(heard)[i] = heard[i + 1]
      /\ \A i \in DOMAIN heard : i > 1 => i - 1 \in DOMAIN Tail(heard) /\ Tail(heard)[i - 1] = heard[i]
  BY <1>1, Taking
<1>3. \/ /\ property = "there"
         /\ known' = value /\ UpdateItem(value)
      \/ /\ property # "there" /\ ~known
         /\ UNCHANGED <<known, item>>
      \/ /\ property # "there" /\ known /\ UpdateItem(TRUE) /\ UNCHANGED known
      \/ /\ property = "DiscoverableTimeout" /\ known /\ value # 0 /\ UNCHANGED <<known, item>>
  BY DEF Hears, StopCountdown, StartCountdown, pluginVars
<1>4. property = "there" => value \in BOOLEAN
  BY <1>2 DEF Said, Assignments
<1>5. Offered \in BOOLEAN /\ item \in [visible : BOOLEAN, sensitive : BOOLEAN] /\ known \in BOOLEAN
  BY DEF Offered, AdapterOK
<1> HIDE DEF property, value
<1>6. \A some \in BOOLEAN :
        UpdateItem(some) => /\ item' \in [visible : BOOLEAN, sensitive : BOOLEAN]
                            /\ item'.visible => some /\ (adapter.there => Offered)
  <2> SUFFICES ASSUME NEW some \in BOOLEAN, UpdateItem(some)
               PROVE  /\ item' \in [visible : BOOLEAN, sensitive : BOOLEAN]
                      /\ item'.visible => some /\ (adapter.there => Offered)
    OBVIOUS
  <2>1. PICK offered \in IF ~some THEN {FALSE} ELSE IF adapter.there THEN {Offered} ELSE BOOLEAN :
          item' = IF offered THEN [visible |-> TRUE, sensitive |-> TRUE]
                  ELSE [item EXCEPT !.visible = FALSE]
    BY DEF UpdateItem
  <2>2. offered => some /\ (adapter.there => Offered)
    BY <2>1
  <2>3. CASE offered
    BY <2>1, <2>2, <2>3
  <2>4. CASE ~offered
    BY <2>1, <2>4, <1>5
  <2> QED
    BY <2>3, <2>4
<1>7. AdapterOK'
  <2>1. known' \in BOOLEAN /\ item' \in [visible : BOOLEAN, sensitive : BOOLEAN]
    BY <1>3, <1>4, <1>5, <1>6
  <2> QED
    BY <1>1, <1>2, <2>1 DEF AdapterOK
<1>8. ThereOK'
  <2>1. CASE /\ known = adapter.there
             /\ \A j \in DOMAIN heard : heard[j][1] # "there"
    <3>1. property # "there"
      BY <1>2, <2>1 DEF property
    <3>2. known' = known
      BY <3>1, <1>3
    <3> QED
      BY <1>1, <1>2, <2>1, <3>2 DEF ThereOK
  <2>2. CASE \E i \in DOMAIN heard : /\ heard[i] = <<"there", adapter.there>>
                                     /\ \A j \in DOMAIN heard : j > i => heard[j][1] # "there"
    <3>1. PICK i \in DOMAIN heard : /\ heard[i] = <<"there", adapter.there>>
                                    /\ \A j \in DOMAIN heard : j > i => heard[j][1] # "there"
      BY <2>2
    <3>2. CASE i = 1
      <4>1. property = "there" /\ value = adapter.there
        BY <3>1, <3>2, <1>2 DEF property, value
      <4>2. known' = adapter.there
        BY <4>1, <1>3
      <4>3. \A j \in DOMAIN heard' : heard'[j][1] # "there"
        <5> SUFFICES ASSUME NEW j \in DOMAIN Tail(heard) PROVE Tail(heard)[j][1] # "there"
          BY <1>1
        <5>1. j + 1 \in DOMAIN heard /\ j + 1 > i /\ Tail(heard)[j] = heard[j + 1]
          BY <3>2, <1>2, DOMAIN Tail(heard) = 1 .. Len(Tail(heard))
        <5> QED
          BY <5>1, <3>1
      <4> QED
        BY <1>1, <4>2, <4>3 DEF ThereOK
    <3>3. CASE i # 1
      <4>1. i > 1 /\ i - 1 \in DOMAIN heard' /\ heard'[i - 1] = <<"there", adapter'.there>>
        BY <3>1, <3>3, <1>1, <1>2
      <4>2. \A j \in DOMAIN heard' : j > i - 1 => heard'[j][1] # "there"
        <5> SUFFICES ASSUME NEW j \in DOMAIN Tail(heard), j > i - 1 PROVE Tail(heard)[j][1] # "there"
          BY <1>1
        <5>1. j + 1 \in DOMAIN heard /\ j + 1 > i /\ Tail(heard)[j] = heard[j + 1]
          BY <1>2
        <5> QED
          BY <5>1, <3>1
      <4> QED
        BY <4>1, <4>2 DEF ThereOK
    <3> QED
      BY <3>2, <3>3
  <2> QED
    BY <2>1, <2>2 DEF ThereOK
<1>9. ItemOK'
  <2> SUFFICES ASSUME item'.visible
               PROVE  known' /\ ((adapter'.there /\ Offered') \/ \E i \in DOMAIN heard' : Updates(heard'[i]))
    BY DEF ItemOK
  <2>0. Offered' = Offered /\ adapter'.there = adapter.there
    BY <1>1 DEF Offered
  <2>1. CASE (known' /\ UpdateItem(TRUE)) \/ (property = "there" /\ known' = value /\ UpdateItem(value))
    <3>1. known' /\ (adapter.there => Offered)
      <4>1. CASE known' /\ UpdateItem(TRUE)
        BY <4>1, <1>6
      <4>2. CASE property = "there" /\ known' = value /\ UpdateItem(value)
        <5>1. value
          BY <4>2, <1>4, <1>6
        <5> QED
          BY <4>2, <5>1, <1>4, <1>6
      <4> QED
        BY <2>1, <4>1, <4>2
    <3>2. CASE adapter.there
      BY <3>1, <3>2, <2>0
    <3>3. CASE ~adapter.there
      <4>1. known' # adapter'.there
        BY <3>1, <3>3, <2>0, <1>7 DEF AdapterOK
      <4>2. PICK i \in DOMAIN heard' : heard'[i] = <<"there", adapter'.there>>
        BY <4>1, <1>8 DEF ThereOK
      <4>3. Updates(heard'[i])
        BY <4>2 DEF Updates
      <4> QED
        BY <3>1, <4>2, <4>3
    <3> QED
      BY <3>2, <3>3
  <2>2. CASE property = "DiscoverableTimeout" /\ known /\ value # 0 /\ UNCHANGED <<known, item>>
    <3>1. known' /\ item.visible /\ ~Updates(heard[1])
      BY <2>2, <1>2 DEF Updates, property, value
    <3>2. CASE adapter.there /\ Offered
      BY <3>1, <3>2, <2>0
    <3>3. CASE ~(adapter.there /\ Offered)
      <4>1. PICK i \in DOMAIN heard : Updates(heard[i])
        BY <3>1, <3>3 DEF ItemOK
      <4>2. i > 1
        BY <4>1, <3>1, <1>2
      <4> QED
        BY <4>1, <4>2, <3>1, <1>1, <1>2
    <3> QED
      BY <3>2, <3>3
  <2>3. CASE ~known /\ UNCHANGED <<known, item>>
    BY <2>3 DEF ItemOK
  <2> QED
    BY <2>1, <2>2, <2>3, <1>3
<1> QED
  BY <1>7, <1>8, <1>9

LEMMA VisibilityStep ==
    ASSUME VisibilityInv, [VisibilityNext]_visibilityVars
    PROVE  VisibilityInv'
<1>0. SetsOK /\ AdapterOK /\ ThereOK /\ ItemOK /\ SetsOK'
  BY SetsStep DEF VisibilityInv
<1> SUFFICES AdapterOK' /\ ThereOK' /\ ItemOK'
  BY <1>0 DEF VisibilityInv
<1>1. CASE UNCHANGED <<adapter, heard, known, item>>
  BY <1>0, <1>1 DEF AdapterOK, ThereOK, ItemOK, Offered
<1>2. CASE Hears
  BY <1>0, <1>2, HearsKeeps
<1>3. CASE on_update
  <2>1. item' \in [visible : BOOLEAN, sensitive : BOOLEAN] /\ item'.visible = item.visible
    BY <1>0, <1>3 DEF on_update, AdapterOK
  <2> QED
    BY <1>0, <1>3, <2>1 DEF on_update, AdapterOK, ThereOK, ItemOK, Offered
<1>4. CASE on_set_discoverable \/ OpenWindow \/ CloseWindow \/ TabHears
           \/ (\E r \in {"hidden", "always", "temporary"} : PickRadio(r)) \/ \E v \in Timeouts : MoveScale(v)
  BY <1>1, <1>4 DEF on_set_discoverable, OpenWindow, CloseWindow, TabHears, PickRadio, MoveScale, tabRest, pluginVars
<1>5. CASE \E who \in {"applet", "tab"} : HandleSet(who)
  <2>1. PICK who \in {"applet", "tab"} : HandleSet(who)
    BY <1>5
  <2>2. Head(sets[who]) \in Assignments
    BY <1>0, <2>1, Taking DEF SetsOK, HandleSet
  <2>3. PICK property, value : Head(sets[who]) = <<property, value>> /\ <<property, value>> \in Said
                               /\ property \in {"Powered", "Discoverable", "DiscoverableTimeout"}
    BY <2>2 DEF Assignments, Said
  <2>4. UNCHANGED <<known, item>> /\ (Becomes(property, value) \/ UNCHANGED <<adapter, heard>>)
    BY <2>1, <2>3 DEF HandleSet, bluezRest
  <2> QED
    BY <1>0, <1>1, <2>3, <2>4, BecomesSpeaks, SpeakingKeeps
<1>6. CASE Expire \/ PowerOn
  <2>1. UNCHANGED <<known, item>> /\ (Becomes("Discoverable", FALSE) \/ Becomes("Powered", TRUE))
    BY <1>6 DEF Expire, PowerOn, bluezRest
  <2>2. <<"Discoverable", FALSE>> \in Said /\ <<"Powered", TRUE>> \in Said
    BY DEF Said, Assignments
  <2> QED
    BY <1>0, <2>1, <2>2, BecomesSpeaks, SpeakingKeeps
<1>7. CASE PowerOff
  BY <1>0, <1>7, PowerOffKeeps
<1>8. CASE AdapterComes
  <2>1. PICK P \in BOOLEAN : adapter' = [adapter EXCEPT !.there = TRUE, !.Powered = P]
    BY <1>8 DEF AdapterComes
  <2> DEFINE first == [adapter EXCEPT !.there = TRUE]
  <2>2. first \in [there : BOOLEAN, Powered : BOOLEAN, Discoverable : BOOLEAN, DiscoverableTimeout : Timeouts]
        /\ first.there = TRUE /\ adapter' = [first EXCEPT !.Powered = P]
    BY <1>0, <2>1 DEF AdapterOK
  <2> HIDE DEF first
  <2>3. adapter' \in [there : BOOLEAN, Powered : BOOLEAN, Discoverable : BOOLEAN, DiscoverableTimeout : Timeouts]
        /\ adapter'.there = TRUE
    BY <2>1, <2>2
  <2>4. Speaks(<<"there", TRUE>>)
    BY <1>8, <2>3 DEF AdapterComes, bluezRest, Speaks, Said, Updates
  <2> QED
    BY <1>0, <2>4, SpeakingKeeps
<1>9. CASE \E all \in BOOLEAN : AdapterGoes(all)
  <2> DEFINE first == [adapter EXCEPT !.there = FALSE]
             second == [first EXCEPT !.Powered = FALSE]
             Adapters == [there : BOOLEAN, Powered : BOOLEAN, Discoverable : BOOLEAN, DiscoverableTimeout : Timeouts]
  <2>1. first \in Adapters /\ first.there = FALSE
    BY <1>0 DEF AdapterOK
  <2>2. adapter' = [second EXCEPT !.Discoverable = FALSE]
    BY <1>9 DEF AdapterGoes
  <2> HIDE DEF first
  <2>3. second \in Adapters /\ second.there = FALSE
    BY <2>1
  <2> HIDE DEF second
  <2>4. adapter' \in Adapters /\ adapter'.there = FALSE
    BY <2>2, <2>3
  <2>5. Speaks(<<"there", FALSE>>)
    BY <1>9, <2>4 DEF AdapterGoes, pluginVars, Speaks, Said, Updates
  <2> QED
    BY <1>0, <2>5, SpeakingKeeps
<1>10. CASE UNCHANGED visibilityVars
  BY <1>1, <1>10 DEF visibilityVars
<1> QED
  BY <1>2, <1>3, <1>4, <1>5, <1>6, <1>7, <1>8, <1>9, <1>10 DEF VisibilityNext

\* The steps of a group are its own, or leave its variables alone.
LEMMA GroupSteps ==
    ASSUME [Next]_vars
    PROVE  /\ [VisibilityNext]_visibilityVars /\ [ConnectionsNext]_connectionVars
           /\ [UsageNext]_usageVars /\ [ReconnectNext]_reconnectVars /\ [AudioNext]_audioVars
           /\ [NetworkingNext]_networkingVars
BY DEF Next, vars, Others

LEMMA VisibilityInvariant == Spec => []VisibilityInv
<1>1. Init => VisibilityInv
  <2> SUFFICES ASSUME VisibilityInit PROVE VisibilityInv
    BY DEF Init
  <2>1. /\ DOMAIN heard = {1} /\ heard[1] = <<"there", TRUE>> /\ heard \in Seq(Said)
        /\ adapter.there = TRUE /\ ~known /\ ~item.visible
    <3> DEFINE m == <<"there", TRUE>>
    <3>1. heard = <<m>> /\ adapter.there = TRUE /\ ~known /\ ~item.visible
      BY DEF VisibilityInit
    <3>2. m \in Said
      BY DEF Said
    <3> HIDE DEF m
    <3>3. DOMAIN heard = {1} /\ heard[1] = m /\ heard \in Seq(Said)
      BY <3>1, <3>2
    <3> QED
      BY <3>1, <3>3 DEF m
  <2>2. SetsOK
    BY TimeoutValues, AssignmentsSent DEF VisibilityInit, SetsOK
  <2>3. AdapterOK
    BY <2>1, TimeoutValues DEF VisibilityInit, AdapterOK
  <2>4. ThereOK
    <3>1. \A j \in DOMAIN heard : ~(j > 1)
      BY <2>1
    <3> QED
      BY <2>1, <3>1 DEF ThereOK
  <2>5. ItemOK
    BY <2>1 DEF ItemOK
  <2> QED
    BY <2>2, <2>3, <2>4, <2>5 DEF VisibilityInv
<1>2. VisibilityInv /\ [Next]_vars => VisibilityInv'
  BY GroupSteps, VisibilityStep
<1> QED
  BY <1>1, <1>2, PTL DEF Spec

(* "Make Discoverable" is offered only for an adapter that is there and powered and not
   visible for ever already, once the plugin has heard what BlueZ has told it, whatever the
   two processes set meanwhile (DiscvManager.update_menuitems). *)
THEOREM OfferedRightly == Spec => []ItemOffered
<1>1. VisibilityInv => ItemOffered
  <2> SUFFICES ASSUME VisibilityInv, item.visible, Quiet PROVE known /\ adapter.there /\ Offered
    BY DEF ItemOffered
  <2>1. DOMAIN heard = {}
    BY DEF Quiet
  <2> QED
    BY <2>1 DEF VisibilityInv, ItemOK
<1> QED
  BY <1>1, VisibilityInvariant, PTL

(***************************************************************************)
(* Connection watchers: the order of the messages on their way.            *)
(***************************************************************************)
Has(q, Y) == \E j \in DOMAIN q : q[j] \in Y

\* Each message of X is followed by one of Y.
Followed(q, X, Y) == \A i \in DOMAIN q : q[i] \in X => \E j \in DOMAIN q : j > i /\ q[j] \in Y

\* Each message of Z comes after one of Y.
Preceded(q, Y, Z) == \A i \in DOMAIN q : q[i] \in Z => \E j \in DOMAIN q : j < i /\ q[j] \in Y

\* Between a message of X and one of Z that comes later there is one of Y.
Separated(q, X, Y, Z) ==
    \A i, k \in DOMAIN q : i < k /\ q[i] \in X /\ q[k] \in Z =>
        \E j \in DOMAIN q : i < j /\ j < k /\ q[j] \in Y

\* A message of X that one of Z comes after is followed by one of Y.
Resolved(q, X, Z, Y) ==
    \A i, k \in DOMAIN q : i < k /\ q[i] \in X /\ q[k] \in Z =>
        \E j \in DOMAIN q : i < j /\ q[j] \in Y

On(d) == {About(d, "connected")}
Off(d) == {About(d, "disconnected")}
Created(d) == {About(d, "created")}
Turns == UNION {On(d) \cup Off(d) : d \in Controllers}
Changes == Turns \cup UNION {Created(d) : d \in Controllers}
Added == {Told("added")}
Removed == {Told("removed")}
Appeared == {Told("appeared")}
Vanished == {Told("vanished")}
Services == Added \cup Removed \cup Appeared \cup Vanished
Rendering == Turns \cup Removed \cup Appeared \cup Vanished

ToldOK ==
    /\ told \in Seq(Changes \cup Services)
    /\ linked \subseteq Controllers /\ untold \subseteq linked /\ missed \subseteq Controllers
    /\ service \in {"off", "bare", "adapter"}
    /\ objects \in BOOLEAN /\ source \in BOOLEAN /\ active \in BOOLEAN
    /\ linked # {} => service = "adapter"

\* Whether the applet knows the objects of BlueZ, or will
ObjectsKnown ==
    /\ service = "adapter" => Followed(told, Removed, Added) /\ (objects \/ Has(told, Added))
    /\ service # "adapter" => Followed(told, Added, Removed) /\ (objects => Has(told, Removed))
    /\ Separated(told, Removed, Added, Changes)
    /\ ~objects => Preceded(told, Added, Changes) /\ _connections = {} /\ ~active
    /\ service # "off" => Followed(told, Vanished, Appeared)
    /\ Resolved(told, Added, Vanished, Removed)
    /\ objects /\ Has(told, Vanished) => Has(told, Removed)

\* What the messages about a device say in the end
DevicesTold ==
    \A d \in Controllers :
        /\ d \in linked \ untold =>
             Followed(told, Added \cup Removed \cup Vanished \cup Created(d), On(d)) /\ Followed(told, Off(d), On(d))
        /\ d \notin linked => Followed(told, On(d), Off(d) \cup Removed)
        /\ d \notin linked \cup missed => Followed(told, On(d), Off(d))

\* The records of the plugins
RecordsOK ==
    /\ _connections \subseteq Controllers /\ bubbles \subseteq Controllers
    /\ \A d \in Controllers :
         ~source /\ ~Has(told, Services \cup On(d) \cup Off(d)) =>
             (d \in _connections => d \in linked) /\ (d \in linked \ untold => d \in _connections)
    /\ ~Has(told, Rendering) => Shows(items)
    /\ (active <=> _connections # {}) \/ Has(told, Removed)
    /\ \A d \in bubbles : d \in linked \cup missed \/ Has(told, Off(d))

\* The devices that are connected as far as the plugins have heard
Believed ==
    {d \in Controllers : Preceded(told, Off(d), On(d)) /\ (d \in linked \/ Has(told, Off(d)))}

\* A screensaver that is suspended has a lock, or failed to be resumed.
LockTyped ==
    /\ wake_lock \in Int /\ suspended \in BOOLEAN /\ failed \in BOOLEAN
    /\ suspended => wake_lock >= 1 \/ failed

\* It is suspended for no more devices than are believed to be connected.
BelievedWell ==
    missed = {} =>
        /\ \A d \in Controllers : Separated(told, On(d), Off(d), On(d))
        /\ \E T \in SUBSET Believed : IsFiniteSet(T) /\ (failed \/ wake_lock <= Cardinality(T))

ConnectionsInv == ToldOK /\ ObjectsKnown /\ DevicesTold /\ RecordsOK /\ LockTyped /\ BelievedWell

LEMMA AppendHas ==
    ASSUME NEW S, NEW q \in Seq(S), NEW m \in S, NEW Y
    PROVE  Has(Append(q, m), Y) <=> Has(q, Y) \/ m \in Y
BY Appending DEF Has

LEMMA AppendFollowed ==
    ASSUME NEW S, NEW q \in Seq(S), NEW m \in S, NEW X, NEW Y, m \notin X, Followed(q, X, Y) \/ m \in Y
    PROVE  Followed(Append(q, m), X, Y)
<1>1. /\ DOMAIN Append(q, m) = DOMAIN q \cup {Len(q) + 1} /\ DOMAIN q = 1 .. Len(q) /\ Len(q) \in Nat
      /\ Append(q, m)[Len(q) + 1] = m /\ \A i \in DOMAIN q : Append(q, m)[i] = q[i]
  BY Appending
<1> QED
  BY <1>1 DEF Followed

LEMMA AppendPreceded ==
    ASSUME NEW S, NEW q \in Seq(S), NEW m \in S, NEW Y, NEW Z, Preceded(q, Y, Z), m \in Z => Has(q, Y)
    PROVE  Preceded(Append(q, m), Y, Z)
<1>1. /\ DOMAIN Append(q, m) = DOMAIN q \cup {Len(q) + 1} /\ DOMAIN q = 1 .. Len(q) /\ Len(q) \in Nat
      /\ Append(q, m)[Len(q) + 1] = m /\ \A i \in DOMAIN q : Append(q, m)[i] = q[i]
  BY Appending
<1> QED
  BY <1>1 DEF Preceded, Has

LEMMA AppendSeparated ==
    ASSUME NEW S, NEW q \in Seq(S), NEW m \in S, NEW X, NEW Y, NEW Z, Separated(q, X, Y, Z),
           m \in Z => Followed(q, X, Y)
    PROVE  Separated(Append(q, m), X, Y, Z)
<1>1. /\ DOMAIN Append(q, m) = DOMAIN q \cup {Len(q) + 1} /\ DOMAIN q = 1 .. Len(q) /\ Len(q) \in Nat
      /\ Append(q, m)[Len(q) + 1] = m /\ \A i \in DOMAIN q : Append(q, m)[i] = q[i]
  BY Appending
<1> SUFFICES ASSUME NEW i \in DOMAIN Append(q, m), NEW k \in DOMAIN Append(q, m),
                    i < k, Append(q, m)[i] \in X, Append(q, m)[k] \in Z
             PROVE  \E j \in DOMAIN Append(q, m) : i < j /\ j < k /\ Append(q, m)[j] \in Y
  BY DEF Separated
<1>2. i \in DOMAIN q /\ q[i] \in X
  BY <1>1
<1>3. CASE k \in DOMAIN q
  BY <1>1, <1>2, <1>3 DEF Separated
<1>4. CASE k = Len(q) + 1
  <2>1. PICK j \in DOMAIN q : j > i /\ q[j] \in Y
    BY <1>1, <1>2, <1>4 DEF Followed
  <2> QED
    BY <1>1, <1>4, <2>1
<1> QED
  BY <1>1, <1>3, <1>4

LEMMA AppendResolved ==
    ASSUME NEW S, NEW q \in Seq(S), NEW m \in S, NEW X, NEW Y, NEW Z, Resolved(q, X, Z, Y), m \notin Z
    PROVE  Resolved(Append(q, m), X, Z, Y)
<1>1. /\ DOMAIN Append(q, m) = DOMAIN q \cup {Len(q) + 1} /\ DOMAIN q = 1 .. Len(q) /\ Len(q) \in Nat
      /\ Append(q, m)[Len(q) + 1] = m /\ \A i \in DOMAIN q : Append(q, m)[i] = q[i]
  BY Appending
<1> QED
  BY <1>1 DEF Resolved

\* What handling the first message leaves of the order of the others
LEMMA TailOrder ==
    ASSUME NEW S, NEW q \in Seq(S), q # <<>>
    PROVE  /\ \A Y : Has(q, Y) <=> Head(q) \in Y \/ Has(Tail(q), Y)
           /\ \A X, Y : Followed(q, X, Y) => Followed(Tail(q), X, Y) /\ (Head(q) \in X => Has(Tail(q), Y))
           /\ \A Y, Z : Preceded(q, Y, Z) => Head(q) \notin Z /\ (Head(q) \notin Y => Preceded(Tail(q), Y, Z))
           /\ \A X, Y, Z : Separated(q, X, Y, Z) =>
                Separated(Tail(q), X, Y, Z) /\ (Head(q) \in X => Preceded(Tail(q), Y, Z))
           /\ \A X, Y, Z : Resolved(q, X, Z, Y) =>
                Resolved(Tail(q), X, Z, Y) /\ (Head(q) \in X /\ Has(Tail(q), Z) => Has(Tail(q), Y))
<1>0. /\ Head(q) = q[1] /\ 1 \in DOMAIN q /\ Len(q) \in Nat /\ DOMAIN q = 1 .. Len(q)
      /\ \A i \in DOMAIN Tail(q) : i \in Nat /\ i >= 1 /\ i + 1 \in DOMAIN q /\ Tail(q)[i] = q[i + 1]
      /\ \A i \in DOMAIN q : i > 1 => i - 1 \in DOMAIN Tail(q) /\ Tail(q)[i - 1] = q[i]
  <2>1. DOMAIN Tail(q) = 1 .. Len(Tail(q)) /\ Len(Tail(q)) \in Nat
    OBVIOUS
  <2> QED
    BY <2>1, Taking
<1>1. \A Y : Has(q, Y) <=> Head(q) \in Y \/ Has(Tail(q), Y)
  <2> SUFFICES ASSUME NEW Y PROVE Has(q, Y) <=> Head(q) \in Y \/ Has(Tail(q), Y)
    OBVIOUS
  <2>1. Has(q, Y) => Head(q) \in Y \/ Has(Tail(q), Y)
    <3> SUFFICES ASSUME NEW j \in DOMAIN q, q[j] \in Y, Head(q) \notin Y PROVE Has(Tail(q), Y)
      BY DEF Has
    <3>1. j > 1
      BY <1>0
    <3> QED
      BY <1>0, <3>1 DEF Has
  <2>2. Has(Tail(q), Y) => Has(q, Y)
    BY <1>0 DEF Has
  <2> QED
    BY <2>1, <2>2, <1>0 DEF Has
<1>2. \A X, Y : Followed(q, X, Y) => Followed(Tail(q), X, Y) /\ (Head(q) \in X => Has(Tail(q), Y))
  <2> SUFFICES ASSUME NEW X, NEW Y, Followed(q, X, Y)
               PROVE  Followed(Tail(q), X, Y) /\ (Head(q) \in X => Has(Tail(q), Y))
    OBVIOUS
  <2>1. Followed(Tail(q), X, Y)
    <3> SUFFICES ASSUME NEW i \in DOMAIN Tail(q), Tail(q)[i] \in X
                 PROVE  \E j \in DOMAIN Tail(q) : j > i /\ Tail(q)[j] \in Y
      BY DEF Followed
    <3>1. PICK j \in DOMAIN q : j > i + 1 /\ q[j] \in Y
      BY <1>0 DEF Followed
    <3>2. j - 1 \in DOMAIN Tail(q) /\ j - 1 > i /\ Tail(q)[j - 1] \in Y
      BY <1>0, <3>1
    <3> QED
      BY <3>2
  <2>2. Head(q) \in X => Has(Tail(q), Y)
    BY <1>0 DEF Followed, Has
  <2> QED
    BY <2>1, <2>2
<1>3. \A Y, Z : Preceded(q, Y, Z) => Head(q) \notin Z /\ (Head(q) \notin Y => Preceded(Tail(q), Y, Z))
  <2> SUFFICES ASSUME NEW Y, NEW Z, Preceded(q, Y, Z)
               PROVE  Head(q) \notin Z /\ (Head(q) \notin Y => Preceded(Tail(q), Y, Z))
    OBVIOUS
  <2>1. Head(q) \notin Z
    BY <1>0 DEF Preceded
  <2>2. Head(q) \notin Y => Preceded(Tail(q), Y, Z)
    <3> SUFFICES ASSUME Head(q) \notin Y, NEW i \in DOMAIN Tail(q), Tail(q)[i] \in Z
                 PROVE  \E j \in DOMAIN Tail(q) : j < i /\ Tail(q)[j] \in Y
      BY DEF Preceded
    <3>1. PICK j \in DOMAIN q : j < i + 1 /\ q[j] \in Y
      BY <1>0 DEF Preceded
    <3>2. j > 1
      BY <1>0, <3>1
    <3> QED
      BY <1>0, <3>1, <3>2
  <2> QED
    BY <2>1, <2>2
<1>4. \A X, Y, Z : Separated(q, X, Y, Z) =>
        Separated(Tail(q), X, Y, Z) /\ (Head(q) \in X => Preceded(Tail(q), Y, Z))
  <2> SUFFICES ASSUME NEW X, NEW Y, NEW Z, Separated(q, X, Y, Z)
               PROVE  Separated(Tail(q), X, Y, Z) /\ (Head(q) \in X => Preceded(Tail(q), Y, Z))
    OBVIOUS
  <2>1. Separated(Tail(q), X, Y, Z)
    <3> SUFFICES ASSUME NEW i \in DOMAIN Tail(q), NEW k \in DOMAIN Tail(q),
                        i < k, Tail(q)[i] \in X, Tail(q)[k] \in Z
                 PROVE  \E j \in DOMAIN Tail(q) : i < j /\ j < k /\ Tail(q)[j] \in Y
      BY DEF Separated
    <3>1. PICK j \in DOMAIN q : i + 1 < j /\ j < k + 1 /\ q[j] \in Y
      BY <1>0 DEF Separated
    <3>2. j - 1 \in DOMAIN Tail(q) /\ i < j - 1 /\ j - 1 < k /\ Tail(q)[j - 1] \in Y
      BY <1>0, <3>1
    <3> QED
      BY <3>2
  <2>2. Head(q) \in X => Preceded(Tail(q), Y, Z)
    <3> SUFFICES ASSUME Head(q) \in X, NEW i \in DOMAIN Tail(q), Tail(q)[i] \in Z
                 PROVE  \E j \in DOMAIN Tail(q) : j < i /\ Tail(q)[j] \in Y
      BY DEF Preceded
    <3>1. i + 1 \in DOMAIN q /\ 1 < i + 1 /\ q[1] \in X /\ q[i + 1] \in Z
      BY <1>0
    <3>2. PICK j \in DOMAIN q : 1 < j /\ j < i + 1 /\ q[j] \in Y
      BY <1>0, <3>1 DEF Separated
    <3>3. j - 1 \in DOMAIN Tail(q) /\ j - 1 < i /\ Tail(q)[j - 1] \in Y
      BY <1>0, <3>2
    <3> QED
      BY <3>3
  <2> QED
    BY <2>1, <2>2
<1>5. \A X, Y, Z : Resolved(q, X, Z, Y) =>
        Resolved(Tail(q), X, Z, Y) /\ (Head(q) \in X /\ Has(Tail(q), Z) => Has(Tail(q), Y))
  <2> SUFFICES ASSUME NEW X, NEW Y, NEW Z, Resolved(q, X, Z, Y)
               PROVE  Resolved(Tail(q), X, Z, Y) /\ (Head(q) \in X /\ Has(Tail(q), Z) => Has(Tail(q), Y))
    OBVIOUS
  <2>1. Resolved(Tail(q), X, Z, Y)
    <3> SUFFICES ASSUME NEW i \in DOMAIN Tail(q), NEW k \in DOMAIN Tail(q),
                        i < k, Tail(q)[i] \in X, Tail(q)[k] \in Z
                 PROVE  \E j \in DOMAIN Tail(q) : i < j /\ Tail(q)[j] \in Y
      BY DEF Resolved
    <3>1. PICK j \in DOMAIN q : i + 1 < j /\ q[j] \in Y
      BY <1>0 DEF Resolved
    <3>2. j - 1 \in DOMAIN Tail(q) /\ i < j - 1 /\ Tail(q)[j - 1] \in Y
      BY <1>0, <3>1
    <3> QED
      BY <3>2
  <2>2. ASSUME Head(q) \in X, Has(Tail(q), Z) PROVE Has(Tail(q), Y)
    <3>1. PICK k \in DOMAIN Tail(q) : Tail(q)[k] \in Z
      BY <2>2 DEF Has
    <3>2. PICK j \in DOMAIN q : 1 < j /\ q[j] \in Y
      BY <1>0, <2>2, <3>1 DEF Resolved
    <3> QED
      BY <1>0, <3>2 DEF Has
  <2> QED
    BY <2>1, <2>2
<1> QED
  BY <1>1, <1>2, <1>3, <1>4, <1>5

\* No message is two things.
LEMMA Distinct ==
    /\ \A d, e \in Controllers : /\ On(d) \cap Off(e) = {} /\ Created(e) \cap (On(d) \cup Off(d)) = {}
                                 /\ d # e => /\ On(d) \cap On(e) = {} /\ Off(d) \cap Off(e) = {}
                                             /\ Created(d) \cap Created(e) = {}
    /\ Changes \cap Services = {}
    /\ \A d \in Controllers : /\ On(d) \subseteq Changes /\ Off(d) \subseteq Changes /\ Created(d) \subseteq Changes
                              /\ On(d) \cup Off(d) \subseteq Rendering /\ Created(d) \cap Rendering = {}
    /\ Removed \cup Appeared \cup Vanished \subseteq Rendering /\ Added \cap Rendering = {}
    /\ Added \cap (Removed \cup Appeared \cup Vanished) = {} /\ Removed \cap (Appeared \cup Vanished) = {}
    /\ Appeared \cap Vanished = {}
    /\ \A d \in Controllers : /\ About(d, "connected") \in On(d) /\ About(d, "disconnected") \in Off(d)
                              /\ About(d, "created") \in Created(d)
    /\ Told("added") \in Added /\ Told("removed") \in Removed
    /\ Told("appeared") \in Appeared /\ Told("vanished") \in Vanished
<1>1. \A a, b, D, E : [what |-> a, devs |-> D] = [what |-> b, devs |-> E] => a = b /\ D = E
  <2> SUFFICES ASSUME NEW a, NEW b, NEW D, NEW E, [what |-> a, devs |-> D] = [what |-> b, devs |-> E]
               PROVE  a = b /\ D = E
    OBVIOUS
  <2> DEFINE r == [what |-> a, devs |-> D]
             s == [what |-> b, devs |-> E]
  <2>1. r.what = a /\ r.devs = D /\ s.what = b /\ s.devs = E /\ r = s
    OBVIOUS
  <2> QED
    BY <2>1
<1>2. \A d, e \in Controllers : /\ On(d) \cap Off(e) = {} /\ Created(e) \cap (On(d) \cup Off(d)) = {}
                                /\ d # e => /\ On(d) \cap On(e) = {} /\ Off(d) \cap Off(e) = {}
                                            /\ Created(d) \cap Created(e) = {}
  <2> SUFFICES ASSUME NEW d \in Controllers, NEW e \in Controllers
               PROVE  /\ On(d) \cap Off(e) = {} /\ Created(e) \cap (On(d) \cup Off(d)) = {}
                      /\ d # e => /\ On(d) \cap On(e) = {} /\ Off(d) \cap Off(e) = {}
                                  /\ Created(d) \cap Created(e) = {}
    OBVIOUS
  <2>1. d # e => {d} # {e}
    OBVIOUS
  <2>2. /\ About(d, "connected") # About(e, "disconnected") /\ About(e, "created") # About(d, "connected")
        /\ About(e, "created") # About(d, "disconnected")
    BY <1>1, "connected" # "disconnected", "created" # "connected", "created" # "disconnected" DEF About
  <2>3. d # e => /\ About(d, "connected") # About(e, "connected")
                 /\ About(d, "disconnected") # About(e, "disconnected")
                 /\ About(d, "created") # About(e, "created")
    BY <1>1, <2>1 DEF About
  <2> QED
    BY <2>2, <2>3 DEF On, Off, Created
<1>3. \A d \in Controllers : On(d) \subseteq Changes /\ Off(d) \subseteq Changes /\ Created(d) \subseteq Changes
  BY DEF Changes, Turns
<1>4. Changes \cap Services = {}
  <2> SUFFICES ASSUME NEW d \in Controllers, NEW m \in On(d) \cup Off(d) \cup Created(d), NEW n \in Services
               PROVE  m # n
    BY DEF Changes, Turns
  <2>1. m.devs = {d} /\ n.devs = {}
    BY DEF On, Off, Created, Services, Added, Removed, Appeared, Vanished, About, Told
  <2> QED
    BY <2>1
<1>5. /\ Told("added") # Told("removed") /\ Told("added") # Told("appeared")
      /\ Told("added") # Told("vanished") /\ Told("removed") # Told("appeared")
      /\ Told("removed") # Told("vanished") /\ Told("appeared") # Told("vanished")
  BY <1>1 DEF Told
<1>6. /\ Added \cap (Removed \cup Appeared \cup Vanished) = {} /\ Removed \cap (Appeared \cup Vanished) = {}
      /\ Appeared \cap Vanished = {}
  BY <1>5 DEF Added, Removed, Appeared, Vanished
<1>7. \A d \in Controllers : On(d) \cup Off(d) \subseteq Rendering /\ Created(d) \cap Rendering = {}
  <2>1. \A d, e \in Controllers : Created(d) \cap (On(e) \cup Off(e)) = {}
    BY <1>2, Zenon
  <2>2. \A d \in Controllers : Created(d) \cap Turns = {}
    BY <2>1, Zenon DEF Turns
  <2> QED
    BY <1>3, <1>4, <2>2 DEF Rendering, Turns, Services
<1>8. Removed \cup Appeared \cup Vanished \subseteq Rendering /\ Added \cap Rendering = {}
  BY <1>4, <1>6 DEF Rendering, Changes, Services
<1> QED
  BY <1>2, <1>3, <1>4, <1>6, <1>7, <1>8 DEF On, Off, Created, Added, Removed, Appeared, Vanished

\* A message by what it says
LEMMA Kinds ==
    ASSUME NEW m \in Changes \cup Services
    PROVE  /\ m.what = "connected" => \E d \in Controllers : m \in On(d) /\ m.devs = {d}
           /\ m.what = "disconnected" => \E d \in Controllers : m \in Off(d) /\ m.devs = {d}
           /\ m.what = "created" => \E d \in Controllers : m \in Created(d)
           /\ m.what = "added" => m \in Added
           /\ m.what = "removed" => m \in Removed
           /\ m.what = "appeared" => m \in Appeared
           /\ m.what = "vanished" => m \in Vanished
<1>1. CASE m \in Services
  BY <1>1 DEF Services, Added, Removed, Appeared, Vanished, Told
<1>2. CASE m \in Changes
  <2>1. PICK d \in Controllers : m \in On(d) \/ m \in Off(d) \/ m \in Created(d)
    BY <1>2 DEF Changes, Turns
  <2>2. CASE m \in On(d)
    BY <2>2 DEF On, About
  <2>3. CASE m \in Off(d)
    BY <2>3 DEF Off, About
  <2>4. CASE m \in Created(d)
    BY <2>4 DEF Created, About
  <2> QED
    BY <2>1, <2>2, <2>3, <2>4
<1> QED
  BY <1>1, <1>2

\* The first message that the applet handles
LEMMA FirstTold ==
    ASSUME ToldOK, told # <<>>
    PROVE  Head(told) \in Changes \cup Services /\ Tail(told) \in Seq(Changes \cup Services)
BY Taking DEF ToldOK

\* A change of a device reaches the applet when it knows the objects of BlueZ.
LEMMA ChangesKnown ==
    ASSUME ToldOK, ObjectsKnown, told # <<>>, Head(told) \in Changes
    PROVE  objects
<1>1. told \in Seq(Changes \cup Services)
  BY DEF ToldOK
<1>2. Preceded(told, Added, Changes) => Head(told) \notin Changes
  BY <1>1, TailOrder
<1> QED
  BY <1>2 DEF ObjectsKnown

\* Handling a message, as far as the applet's knowledge of objects goes
LEMMA HandledObjects ==
    ASSUME ToldOK, ObjectsKnown, told # <<>>, told' = Tail(told), UNCHANGED service,
           objects' = (IF Head(told) \in Added THEN TRUE ELSE IF Head(told) \in Removed THEN FALSE ELSE objects),
           ~objects' => _connections' = {} /\ ~active'
    PROVE  ObjectsKnown'
<1>0. told \in Seq(Changes \cup Services) /\ Head(told) \in Changes \cup Services
  BY FirstTold DEF ToldOK
<1>1. service = "adapter" => Followed(told', Removed, Added) /\ (objects' \/ Has(told', Added))
  <2>1. service = "adapter" => Followed(told', Removed, Added) /\ (Head(told) \in Removed => Has(told', Added))
    BY <1>0, TailOrder DEF ObjectsKnown
  <2>2. Has(told, Added) => Head(told) \in Added \/ Has(told', Added)
    BY <1>0, TailOrder
  <2> QED
    BY <2>1, <2>2 DEF ObjectsKnown
<1>2. service # "adapter" => Followed(told', Added, Removed) /\ (objects' => Has(told', Removed))
  <2>1. service # "adapter" => Followed(told', Added, Removed) /\ (Head(told) \in Added => Has(told', Removed))
    BY <1>0, TailOrder DEF ObjectsKnown
  <2>2. Has(told, Removed) => Head(told) \in Removed \/ Has(told', Removed)
    BY <1>0, TailOrder
  <2> QED
    BY <2>1, <2>2, Distinct DEF ObjectsKnown
<1>3. Separated(told', Removed, Added, Changes) /\ (Head(told) \in Removed => Preceded(told', Added, Changes))
  BY <1>0, TailOrder DEF ObjectsKnown
<1>4. ~objects' => Preceded(told', Added, Changes)
  <2>1. Preceded(told, Added, Changes) /\ Head(told) \notin Added => Preceded(told', Added, Changes)
    BY <1>0, TailOrder
  <2> QED
    BY <1>3, <2>1 DEF ObjectsKnown
<1>5. service # "off" => Followed(told', Vanished, Appeared)
  BY <1>0, TailOrder DEF ObjectsKnown
<1>6. /\ Resolved(told', Added, Vanished, Removed)
      /\ Head(told) \in Added /\ Has(told', Vanished) => Has(told', Removed)
  BY <1>0, TailOrder DEF ObjectsKnown
<1>7. objects' /\ Has(told', Vanished) => Has(told', Removed)
  <2>1. /\ Has(told', Vanished) => Has(told, Vanished)
        /\ Has(told, Removed) => Head(told) \in Removed \/ Has(told', Removed)
    BY <1>0, TailOrder
  <2> QED
    BY <1>6, <2>1, Distinct DEF ObjectsKnown
<1> QED
  BY <1>1, <1>2, <1>3, <1>4, <1>5, <1>6, <1>7 DEF ObjectsKnown

LEMMA HandledDevices ==
    ASSUME ToldOK, DevicesTold, told # <<>>, told' = Tail(told), UNCHANGED <<linked, untold, missed>>
    PROVE  DevicesTold'
<1>0. told \in Seq(Changes \cup Services)
  BY DEF ToldOK
<1>1. \A X, Y : Followed(told, X, Y) => Followed(told', X, Y)
  BY <1>0, TailOrder
<1> QED
  BY <1>1 DEF DevicesTold

\* A device whose object the applet does not know yet is told of later, if BlueZ tells of it.
LEMMA NewcomerLater ==
    ASSUME ToldOK, DevicesTold, NEW d \in linked \ untold, d \in Newcomers
    PROVE  /\ Has(told, On(d))
           /\ told # <<>> => Has(Tail(told), On(d))
<1>1. told \in Seq(Changes \cup Services) /\ d \in Controllers
  BY DEF ToldOK
<1>2. Has(told, Created(d)) /\ Followed(told, Created(d), On(d))
  BY <1>1 DEF Newcomers, Created, Has, DevicesTold, Followed
<1>3. Has(told, On(d))
  BY <1>2 DEF Followed, Has
<1>4. ASSUME told # <<>> PROVE Has(Tail(told), On(d))
  <2>1. Head(told) \in Created(d) => Has(Tail(told), On(d))
    BY <1>1, <1>2, <1>4, TailOrder
  <2>2. Followed(Tail(told), Created(d), On(d)) /\ (Head(told) \in Created(d) \/ Has(Tail(told), Created(d)))
    BY <1>1, <1>2, <1>4, TailOrder
  <2> QED
    BY <2>1, <2>2 DEF Followed, Has
<1> QED
  BY <1>3, <1>4

\* Which devices the applet reads from BlueZ, if nothing that it would render again is on its way
LEMMA ReadingNow ==
    ASSUME ToldOK, ObjectsKnown, DevicesTold, told # <<>>, told' = Tail(told), Head(told) \notin Added,
           UNCHANGED <<linked, untold, service>>, ~Has(told', Rendering),
           NEW k \in BOOLEAN, k => objects /\ Head(told) \notin Removed,
           ~k => Head(told) \in Removed \cup Vanished \/ (Head(told) \in Services /\ ~objects), NEW C \in Reads(k)
    PROVE  Shows(C)'
<1>0. told \in Seq(Changes \cup Services) /\ Head(told) \in Changes \cup Services
  BY FirstTold DEF ToldOK
<1>1. CASE ~k
  <2>0. C = {}
    BY <1>1 DEF Reads
  <2> SUFFICES ASSUME NEW d \in linked \ untold PROVE FALSE
    BY <2>0 DEF Shows
  <2>1. d \in Controllers /\ Followed(told, Added \cup Removed \cup Vanished \cup Created(d), On(d)) /\ service = "adapter"
    BY DEF DevicesTold, ToldOK
  <2>2. CASE Head(told) \in Removed \cup Vanished
    <3>1. Has(told', On(d))
      BY <1>0, <2>1, <2>2, TailOrder
    <3> QED
      BY <2>1, <3>1, Distinct DEF Has
  <2>3. CASE Head(told) \in Services /\ ~objects
    <3>1. Has(told, Added)
      BY <2>1, <2>3 DEF ObjectsKnown
    <3>2. Has(told', Added)
      BY <1>0, <3>1, TailOrder
    <3>3. Followed(told', Added \cup Removed \cup Vanished \cup Created(d), On(d))
      BY <1>0, <2>1, TailOrder
    <3>4. Has(told', On(d))
      BY <3>2, <3>3 DEF Has, Followed
    <3> QED
      BY <2>1, <3>4, Distinct DEF Has
  <2> QED
    BY <1>1, <2>2, <2>3
<1>2. CASE k
  <2>1. CASE service = "adapter"
    <3>1. C = linked \ Newcomers
      BY <1>2, <2>1 DEF Reads
    <3>2. ASSUME NEW d \in linked \ untold PROVE d \notin Newcomers
      <4>1. d \in Newcomers => Has(told', On(d))
        BY NewcomerLater
      <4>2. d \in Controllers
        BY DEF ToldOK
      <4> QED
        BY <4>1, <4>2, Distinct DEF Has
    <3> QED
      BY <3>1, <3>2 DEF Shows
  <2>2. CASE service # "adapter"
    <3>1. Has(told, Removed)
      BY <1>2, <2>2 DEF ObjectsKnown
    <3>2. Head(told) \in Removed \/ Has(told', Removed)
      BY <1>0, <3>1, TailOrder
    <3> QED
      BY <1>2, <3>2 DEF Has, Rendering
  <2> QED
    BY <2>1, <2>2
<1> QED
  BY <1>1, <1>2

LEMMA ChangeHandled ==
    ASSUME ToldOK, ObjectsKnown, DevicesTold, RecordsOK, NEW on \in BOOLEAN, ConnectedChanges(on)
    PROVE  ToldOK' /\ ObjectsKnown' /\ DevicesTold' /\ RecordsOK'
<1>0. /\ told \in Seq(Changes \cup Services) /\ Head(told) \in Changes \cup Services
      /\ told # <<>> /\ told' = Tail(told) /\ told' \in Seq(Changes \cup Services)
  BY FirstTold DEF ToldOK, ConnectedChanges, Handle
<1>1. PICK d \in Controllers : /\ Head(told) \in (IF on THEN On(d) ELSE Off(d)) /\ Head(told).devs = {d}
                               /\ _connections' = (IF on THEN _connections \cup {d} ELSE _connections \ {d})
                               /\ active' = (_connections' # {}) /\ UNCHANGED source
                               /\ bubbles' = (IF on THEN bubbles \cup {d} ELSE bubbles \ {d})
  <2>1. PICK d \in Controllers : Head(told) \in (IF on THEN On(d) ELSE Off(d)) /\ Head(told).devs = {d}
    BY <1>0, Kinds DEF ConnectedChanges, Handle
  <2> QED
    BY <2>1 DEF ConnectedChanges, ShowDevice, ShowIcon
<1>2. Head(told) \in Changes /\ Head(told) \notin Services /\ objects
  BY <1>0, <1>1, Distinct, ChangesKnown
<1>3. UNCHANGED <<linked, untold, service, missed, objects>> /\ items' \in Reads(objects)
  BY DEF ConnectedChanges, Render
<1>4. ToldOK'
  <2>1. active' \in BOOLEAN
    BY <1>1
  <2> QED
    BY <1>0, <1>1, <1>3, <2>1 DEF ToldOK
<1>5. Head(told) \notin Added \cup Removed
  BY <1>2 DEF Services
<1>6. ObjectsKnown'
  BY <1>0, <1>2, <1>3, <1>5, HandledObjects
<1>7. DevicesTold'
  BY <1>0, <1>3, HandledDevices
<1>8. RecordsOK'
  <2>1. _connections' \subseteq Controllers /\ bubbles' \subseteq Controllers
    BY <1>1 DEF RecordsOK
  <2>2. ASSUME NEW e \in Controllers, ~source', ~Has(told', Services \cup On(e) \cup Off(e))
        PROVE  (e \in _connections' => e \in linked') /\ (e \in linked' \ untold' => e \in _connections')
    <3>1. CASE e # d
      <4>1. Head(told) \notin Services \cup On(e) \cup Off(e)
        BY <1>1, <1>2, <3>1, Distinct
      <4>2. ~Has(told, Services \cup On(e) \cup Off(e))
        BY <1>0, <2>2, <4>1, TailOrder
      <4> QED
        BY <1>1, <1>3, <2>2, <3>1, <4>2 DEF RecordsOK
    <3>2. CASE e = d /\ on
      <4>1. d \notin linked => Followed(told, On(d), Off(d) \cup Removed)
        BY DEF DevicesTold
      <4>2. d \notin linked => Has(told', Off(d) \cup Removed)
        BY <1>0, <1>1, <3>2, <4>1, TailOrder
      <4>3. d \in linked
        BY <2>2, <3>2, <4>2 DEF Has, Services
      <4> QED
        BY <1>1, <1>3, <3>2, <4>3
    <3>3. CASE e = d /\ ~on
      <4>1. d \in linked \ untold => Followed(told, Off(d), On(d))
        BY DEF DevicesTold
      <4>2. d \in linked \ untold => Has(told', On(d))
        BY <1>0, <1>1, <3>3, <4>1, TailOrder
      <4>3. d \notin linked \ untold
        BY <2>2, <3>3, <4>2 DEF Has
      <4> QED
        BY <1>1, <1>3, <3>3, <4>3
    <3> QED
      BY <3>1, <3>2, <3>3
  <2>3. ~Has(told', Rendering) => Shows(items)'
    <3>1. ~Has(told', Rendering) => \A C \in Reads(TRUE) : Shows(C)'
      BY <1>0, <1>2, <1>3, <1>5, ReadingNow
    <3>2. objects = TRUE
      BY <1>2 DEF ToldOK
    <3> QED
      BY <1>3, <3>1, <3>2 DEF Shows
  <2>4. active' <=> _connections' # {}
    BY <1>1
  <2>5. ASSUME NEW e \in bubbles' PROVE e \in linked' \cup missed' \/ Has(told', Off(e))
    <3>0. e \in Controllers
      BY <2>1, <2>5
    <3>1. CASE e = d
      <4>1. on /\ (d \notin linked \cup missed => Followed(told, On(d), Off(d)))
        BY <1>1, <2>5, <3>1 DEF DevicesTold
      <4>2. d \notin linked \cup missed => Has(told', Off(d))
        BY <1>0, <1>1, <4>1, TailOrder
      <4> QED
        BY <1>3, <3>1, <4>2
    <3>2. CASE e # d
      <4>1. e \in linked \cup missed \/ Has(told, Off(e))
        BY <1>1, <2>5, <3>2 DEF RecordsOK
      <4>2. Head(told) \notin Off(e)
        BY <1>1, <3>0, <3>2, Distinct
      <4>3. Has(told, Off(e)) => Has(told', Off(e))
        BY <1>0, <4>2, TailOrder
      <4> QED
        BY <1>3, <4>1, <4>3
    <3> QED
      BY <3>1, <3>2
  <2> QED
    BY <2>1, <2>2, <2>3, <2>4, <2>5 DEF RecordsOK
<1> QED
  BY <1>4, <1>6, <1>7, <1>8

LEMMA AdapterHandled ==
    ASSUME ToldOK, ObjectsKnown, DevicesTold, RecordsOK, NEW added \in BOOLEAN, AdapterEvent(added)
    PROVE  ToldOK' /\ ObjectsKnown' /\ DevicesTold' /\ RecordsOK'
<1>0. /\ told \in Seq(Changes \cup Services) /\ Head(told) \in Changes \cup Services
      /\ told # <<>> /\ told' = Tail(told) /\ told' \in Seq(Changes \cup Services)
  BY FirstTold DEF ToldOK, AdapterEvent, Handle
<1>1. Head(told) \in (IF added THEN Added ELSE Removed)
  BY <1>0, Kinds DEF AdapterEvent, Handle
<1>2. /\ objects' = added /\ UNCHANGED <<linked, untold, service, missed, source, bubbles>>
      /\ \/ _connections' \in Reads(added) /\ active' = (_connections' # {})
         \/ added /\ service # "adapter" /\ UNCHANGED <<_connections, active>>
      /\ IF added THEN UNCHANGED items ELSE items' \in Reads(added)
  BY DEF AdapterEvent, Enumerates, Enumerate, ShowIcon, Render
<1>3. ~added => _connections' = {} /\ ~active'
  BY <1>2 DEF Reads
<1>4. _connections' \subseteq Controllers
  BY <1>2 DEF Reads, ToldOK, RecordsOK
<1>5. ToldOK'
  <2>1. active' \in BOOLEAN
    BY <1>2 DEF ToldOK
  <2> QED
    BY <1>0, <1>2, <2>1 DEF ToldOK
<1>6. ObjectsKnown'
  <2>1. objects' = (IF Head(told) \in Added THEN TRUE ELSE IF Head(told) \in Removed THEN FALSE ELSE objects)
    BY <1>1, <1>2, Distinct
  <2> QED
    BY <1>0, <1>2, <1>3, <2>1, HandledObjects
<1>7. DevicesTold'
  BY <1>0, <1>2, HandledDevices
<1>8. RecordsOK'
  <2>1. ASSUME NEW e \in Controllers, ~Has(told', Services \cup On(e) \cup Off(e))
        PROVE  (e \in _connections' => e \in linked') /\ (e \in linked' \ untold' => e \in _connections')
    <3>1. ~Has(told', Removed) /\ ~Has(told', Added)
      BY <2>1 DEF Has, Services
    <3>2. service' = "adapter" <=> added
      BY <1>2, <1>6, <3>1 DEF ObjectsKnown
    <3>3. CASE added
      <4>1. _connections' = linked \ Newcomers
        BY <1>2, <3>2, <3>3 DEF Reads
      <4>2. e \in linked \ untold /\ e \in Newcomers => Has(told', On(e))
        BY <1>0, NewcomerLater
      <4>3. ~Has(told', On(e))
        BY <2>1 DEF Has
      <4> QED
        BY <1>2, <4>1, <4>2, <4>3
    <3>4. CASE ~added
      BY <1>2, <1>3, <3>2, <3>4 DEF ToldOK
    <3> QED
      BY <3>3, <3>4
  <2>2. ~Has(told', Rendering) => Shows(items)'
    <3>1. CASE added
      <4>1. Head(told) \notin Rendering
        BY <1>1, <3>1, Distinct
      <4>2. Has(told, Rendering) <=> Has(told', Rendering)
        BY <1>0, <4>1, TailOrder
      <4> QED
        BY <1>2, <3>1, <4>2 DEF RecordsOK, Shows
    <3>2. CASE ~added
      <4>1. Head(told) \notin Added /\ Head(told) \in Removed
        BY <1>1, <3>2, Distinct
      <4>2. ~Has(told', Rendering) => \A C \in Reads(FALSE) : Shows(C)'
        BY <1>0, <1>2, <4>1, ReadingNow
      <4> QED
        BY <1>2, <3>2, <4>2 DEF Shows
    <3> QED
      BY <3>1, <3>2
  <2>3. (active' <=> _connections' # {}) \/ Has(told', Removed)
    <3>1. CASE active' = (_connections' # {})
      BY <3>1
    <3>2. CASE added /\ service # "adapter"
      BY <1>2, <1>6, <3>2 DEF ObjectsKnown
    <3> QED
      BY <1>2, <3>1, <3>2
  <2>4. ASSUME NEW e \in bubbles PROVE e \in linked \cup missed \/ Has(told', Off(e))
    <3>1. e \in Controllers /\ (e \in linked \cup missed \/ Has(told, Off(e)))
      BY DEF RecordsOK
    <3>2. Head(told) \notin Off(e)
      BY <1>1, <3>1, Distinct DEF Services
    <3> QED
      BY <1>0, <3>1, <3>2, TailOrder
  <2> QED
    BY <1>2, <1>4, <2>1, <2>2, <2>3, <2>4 DEF RecordsOK
<1> QED
  BY <1>5, <1>6, <1>7, <1>8

LEMMA StateHandled ==
    ASSUME ToldOK, ObjectsKnown, DevicesTold, RecordsOK, NEW b \in BOOLEAN, ManagerState(b)
    PROVE  ToldOK' /\ ObjectsKnown' /\ DevicesTold' /\ RecordsOK'
<1>0. /\ told \in Seq(Changes \cup Services) /\ Head(told) \in Changes \cup Services
      /\ told # <<>> /\ told' = Tail(told) /\ told' \in Seq(Changes \cup Services)
  BY FirstTold DEF ToldOK, ManagerState, Handle
<1>1. Head(told) \in (IF b THEN Appeared ELSE Vanished)
  BY <1>0, Kinds DEF ManagerState, Handle
<1>2. /\ UNCHANGED <<linked, untold, service, missed, objects, bubbles, active>>
      /\ source' = b /\ _connections' = (IF b THEN _connections ELSE {})
      /\ items' \in Reads(b /\ objects)
  BY DEF ManagerState, ShowState, Render
<1>3. Head(told) \notin Added \cup Removed /\ Head(told) \in Services
  BY <1>1, Distinct DEF Services
<1>4. ToldOK'
  BY <1>0, <1>2 DEF ToldOK
<1>5. ObjectsKnown'
  <2>1. ~objects' => _connections' = {} /\ ~active'
    BY <1>2 DEF ObjectsKnown
  <2> QED
    BY <1>0, <1>2, <1>3, <2>1, HandledObjects
<1>6. DevicesTold'
  BY <1>0, <1>2, HandledDevices
<1>7. RecordsOK'
  <2>1. ASSUME NEW e \in Controllers, ~source', ~Has(told', Services \cup On(e) \cup Off(e))
        PROVE  (e \in _connections' => e \in linked') /\ (e \in linked' \ untold' => e \in _connections')
    <3>1. ~b /\ Head(told) \in Vanished /\ _connections' = {}
      BY <1>1, <1>2, <2>1
    <3>2. service # "off" => Followed(told, Vanished, Appeared)
      BY DEF ObjectsKnown
    <3>3. service # "off" => Has(told', Appeared)
      BY <1>0, <3>1, <3>2, TailOrder
    <3>4. service = "off"
      BY <2>1, <3>3 DEF Has, Services
    <3> QED
      BY <1>2, <3>1, <3>4 DEF ToldOK
  <2>2. ~Has(told', Rendering) => Shows(items)'
    <3> DEFINE k == b /\ objects
    <3>1. k \in BOOLEAN /\ (k => objects) /\ items' \in Reads(k)
      BY <1>2
    <3>2. ~k => Head(told) \in Removed \cup Vanished \/ (Head(told) \in Services /\ ~objects)
      BY <1>1, <1>3
    <3> HIDE DEF k
    <3>3. ~Has(told', Rendering) => \A C \in Reads(k) : Shows(C)'
      BY <1>0, <1>2, <1>3, <3>1, <3>2, ReadingNow
    <3> QED
      BY <3>1, <3>3 DEF Shows
  <2>3. (active' <=> _connections' # {}) \/ Has(told', Removed)
    <3>1. Has(told, Removed) => Has(told', Removed)
      BY <1>0, <1>3, TailOrder
    <3>2. ~b => Has(told, Vanished)
      BY <1>0, <1>1, TailOrder
    <3>3. (active <=> _connections # {}) \/ Has(told, Removed)
      BY DEF RecordsOK
    <3>4. CASE b
      BY <1>2, <3>1, <3>3, <3>4
    <3>5. CASE ~b
      <4>1. objects => Has(told, Removed)
        BY <3>2, <3>5 DEF ObjectsKnown
      <4>2. ~objects => ~active
        BY DEF ObjectsKnown
      <4> QED
        BY <1>2, <3>1, <3>5, <4>1, <4>2
    <3> QED
      BY <3>4, <3>5
  <2>4. ASSUME NEW e \in bubbles PROVE e \in linked \cup missed \/ Has(told', Off(e))
    <3>1. e \in Controllers /\ (e \in linked \cup missed \/ Has(told, Off(e)))
      BY DEF RecordsOK
    <3>2. Head(told) \notin Off(e)
      BY <1>3, <3>1, Distinct
    <3> QED
      BY <1>0, <3>1, <3>2, TailOrder
  <2> QED
    BY <1>2, <2>1, <2>2, <2>3, <2>4 DEF RecordsOK
<1> QED
  BY <1>4, <1>5, <1>6, <1>7

LEMMA EnumerationShows ==
    ASSUME ToldOK, ObjectsKnown, DevicesTold, RecordsOK, EnumerateLater
    PROVE  ToldOK' /\ ObjectsKnown' /\ DevicesTold' /\ RecordsOK'
<1>1. /\ UNCHANGED <<linked, untold, service, told, missed, objects, items, bubbles>> /\ source' = FALSE
      /\ \/ _connections' \in Reads(objects) /\ active' = (_connections' # {})
         \/ objects /\ service # "adapter" /\ UNCHANGED <<_connections, active>>
  BY DEF EnumerateLater, Enumerates, Enumerate, ShowIcon, bluezVars
<1>2. _connections' \subseteq Controllers /\ (~objects => _connections' = {} /\ ~active')
  BY <1>1 DEF Reads, ToldOK, RecordsOK
<1>3. active' \in BOOLEAN
  BY <1>1 DEF ToldOK
<1>4. ToldOK'
  BY <1>1, <1>3 DEF ToldOK
<1>5. ObjectsKnown'
  BY <1>1, <1>2 DEF ObjectsKnown
<1>6. DevicesTold'
  BY <1>1 DEF DevicesTold
<1>7. ASSUME NEW e \in Controllers, ~Has(told, Services \cup On(e) \cup Off(e))
      PROVE  (e \in _connections' => e \in linked) /\ (e \in linked \ untold => e \in _connections')
  <2>1. ~Has(told, Removed) /\ ~Has(told, Added)
    BY <1>7 DEF Has, Services
  <2>2. service = "adapter" <=> objects
    BY <2>1 DEF ObjectsKnown
  <2>3. e \in linked \ untold => e \notin Newcomers
    <3>1. e \in linked \ untold /\ e \in Newcomers => Has(told, On(e))
      BY NewcomerLater
    <3> QED
      BY <1>7, <3>1 DEF Has
  <2> QED
    BY <1>1, <2>2, <2>3 DEF Reads, ToldOK
<1>8. (active' <=> _connections' # {}) \/ Has(told', Removed)
  <2>1. CASE active' = (_connections' # {})
    BY <2>1
  <2>2. CASE objects /\ service # "adapter"
    BY <1>1, <2>2 DEF ObjectsKnown
  <2> QED
    BY <1>1, <2>1, <2>2
<1>9. RecordsOK'
  BY <1>1, <1>2, <1>7, <1>8 DEF RecordsOK, Shows
<1> QED
  BY <1>4, <1>5, <1>6, <1>9

LEMMA CreationHandled ==
    ASSUME ToldOK, ObjectsKnown, DevicesTold, RecordsOK, DeviceCreated
    PROVE  ToldOK' /\ ObjectsKnown' /\ DevicesTold' /\ RecordsOK'
<1>0. /\ told \in Seq(Changes \cup Services) /\ Head(told) \in Changes \cup Services
      /\ told # <<>> /\ told' = Tail(told) /\ told' \in Seq(Changes \cup Services)
  BY FirstTold DEF ToldOK, DeviceCreated, Handle
<1>1. PICK d \in Controllers : Head(told) \in Created(d)
  BY <1>0, Kinds DEF DeviceCreated, Handle
<1>2. UNCHANGED <<linked, untold, service, missed, objects, _connections, active, source, items, bubbles>>
  BY DEF DeviceCreated, showVars
<1>3. /\ Head(told) \notin Services /\ Head(told) \notin Rendering
      /\ \A e \in Controllers : Head(told) \notin On(e) \cup Off(e)
  BY <1>1, Distinct
<1>4. ToldOK'
  BY <1>0, <1>2 DEF ToldOK
<1>5. ObjectsKnown'
  <2>1. Head(told) \notin Added \cup Removed
    BY <1>3 DEF Services
  <2>2. ~objects' => _connections' = {} /\ ~active'
    BY <1>2 DEF ObjectsKnown
  <2> QED
    BY <1>0, <1>2, <2>1, <2>2, HandledObjects
<1>6. DevicesTold'
  BY <1>0, <1>2, HandledDevices
<1>7. RecordsOK'
  <2>1. \A Y : Head(told) \notin Y => (Has(told, Y) <=> Has(told', Y))
    BY <1>0, TailOrder
  <2>2. ASSUME NEW e \in Controllers
        PROVE  /\ Has(told, Services \cup On(e) \cup Off(e)) <=> Has(told', Services \cup On(e) \cup Off(e))
               /\ Has(told, Off(e)) <=> Has(told', Off(e))
    BY <1>3, <2>1
  <2>3. (Has(told, Rendering) <=> Has(told', Rendering)) /\ (Has(told, Removed) <=> Has(told', Removed))
    BY <1>3, <2>1 DEF Services
  <2> QED
    BY <1>2, <2>2, <2>3 DEF RecordsOK, Shows
<1> QED
  BY <1>4, <1>5, <1>6, <1>7

\* What BlueZ tells, added to what is on its way
LEMMA Telling ==
    ASSUME NEW S, NEW q \in Seq(S), NEW a \in S
    PROVE  /\ q \o <<a>> = Append(q, a)
           /\ \A b \in S : q \o <<a, b>> = Append(Append(q, a), b)
<1>1. q \o <<a>> = Append(q, a)
  OBVIOUS
<1>2. ASSUME NEW b \in S PROVE q \o <<a, b>> = Append(Append(q, a), b)
  <2>1. Append(q, a) \in Seq(S)
    OBVIOUS
  <2>2. <<a, b>> \in Seq(S) /\ Len(<<a, b>>) = 2 /\ <<a, b>>[1] = a /\ <<a, b>>[2] = b
    OBVIOUS
  <2> QED
    BY <2>1, <2>2
<1> QED
  BY <1>1, <1>2

\* A device connects or disconnects.
LEMMA DeviceTold ==
    ASSUME ToldOK, ObjectsKnown, NEW m \in Changes, told' = Append(told, m), service = "adapter",
           UNCHANGED <<service, objects, _connections, active>>
    PROVE  ObjectsKnown'
<1>0. /\ told \in Seq(Changes \cup Services) /\ m \in Changes \cup Services
      /\ m \notin Added \cup Removed \cup Appeared \cup Vanished
  BY Distinct DEF ToldOK, Services
<1>1. Followed(told, Removed, Added) /\ (objects \/ Has(told, Added)) /\ Followed(told, Vanished, Appeared)
  BY DEF ObjectsKnown
<1>2. Followed(told', Removed, Added) /\ Followed(told', Vanished, Appeared)
  BY <1>0, <1>1, AppendFollowed
<1>3. \A Y : Has(told, Y) => Has(told', Y)
  BY <1>0, AppendHas
<1>4. Has(told', Vanished) => Has(told, Vanished)
  BY <1>0, AppendHas
<1>5. Separated(told', Removed, Added, Changes)
  BY <1>0, <1>1, AppendSeparated DEF ObjectsKnown
<1>6. ~objects => Preceded(told', Added, Changes)
  BY <1>0, <1>1, AppendPreceded DEF ObjectsKnown
<1>7. Resolved(told', Added, Vanished, Removed)
  BY <1>0, AppendResolved DEF ObjectsKnown
<1> QED
  BY <1>1, <1>2, <1>3, <1>4, <1>5, <1>6, <1>7 DEF ObjectsKnown

LEMMA LinkTold ==
    ASSUME ToldOK, ObjectsKnown, DevicesTold, RecordsOK, NEW d \in Controllers, Links(d)
    PROVE  ToldOK' /\ ObjectsKnown' /\ DevicesTold' /\ RecordsOK'
<1> DEFINE m == About(d, "connected")
<1>1. /\ service = "adapter" /\ d \notin linked /\ linked' = linked \cup {d} /\ told' = told \o <<m>>
      /\ UNCHANGED <<untold, service, missed, manager_state, objects, _connections, active, source, items, bubbles>>
  BY DEF Links, Tells, appletRest, showVars
<1>2. m \in On(d) /\ m \in Changes /\ m \notin Services /\ told \in Seq(Changes \cup Services)
  BY Distinct DEF ToldOK
<1> HIDE DEF m
<1>3. told' = Append(told, m)
  BY <1>1, <1>2, Telling
<1>4. ToldOK'
  <2>1. told' \in Seq(Changes \cup Services)
    BY <1>2, <1>3, Appending
  <2> QED
    BY <1>1, <2>1 DEF ToldOK
<1>5. ObjectsKnown'
  BY <1>1, <1>2, <1>3, DeviceTold
<1>6. \A Y : Has(told', Y) <=> Has(told, Y) \/ m \in Y
  BY <1>2, <1>3, AppendHas
<1>7. DevicesTold'
  <2>1. \A X, Y : m \notin X /\ (Followed(told, X, Y) \/ m \in Y) => Followed(told', X, Y)
    BY <1>2, <1>3, AppendFollowed
  <2> SUFFICES ASSUME NEW e \in Controllers
               PROVE  /\ e \in linked' \ untold' =>
                           /\ Followed(told', Added \cup Removed \cup Vanished \cup Created(e), On(e))
                           /\ Followed(told', Off(e), On(e))
                      /\ e \notin linked' => Followed(told', On(e), Off(e) \cup Removed)
                      /\ e \notin linked' \cup missed' => Followed(told', On(e), Off(e))
    BY DEF DevicesTold
  <2>2. m \notin Off(e) /\ (e # d => m \notin On(e)) /\ m \notin Added \cup Removed \cup Vanished \cup Created(e)
    BY <1>2, Distinct DEF Services
  <2>3. CASE e = d
    BY <1>1, <1>2, <2>1, <2>2, <2>3
  <2>4. CASE e # d
    BY <1>1, <1>2, <2>1, <2>2, <2>4 DEF DevicesTold
  <2> QED
    BY <2>3, <2>4
<1>8. RecordsOK'
  <2>1. ASSUME NEW e \in Controllers, ~source, ~Has(told', Services \cup On(e) \cup Off(e))
        PROVE  (e \in _connections => e \in linked') /\ (e \in linked' \ untold' => e \in _connections)
    <3>1. e # d /\ ~Has(told, Services \cup On(e) \cup Off(e))
      BY <1>2, <1>6, <2>1
    <3> QED
      BY <1>1, <2>1, <3>1 DEF RecordsOK
  <2>2. Has(told', Rendering)
    BY <1>2, <1>6, Distinct
  <2> QED
    BY <1>1, <1>6, <2>1, <2>2 DEF RecordsOK
<1> QED
  BY <1>4, <1>5, <1>7, <1>8

LEMMA NewcomerTold ==
    ASSUME ToldOK, ObjectsKnown, DevicesTold, RecordsOK, NEW d \in Controllers, ComesLinked(d)
    PROVE  ToldOK' /\ ObjectsKnown' /\ DevicesTold' /\ RecordsOK'
<1> DEFINE m == About(d, "created")
<1>1. /\ service = "adapter" /\ d \notin linked /\ linked' = linked \cup {d} /\ untold' = untold \cup {d}
      /\ told' = told \o <<m>>
      /\ UNCHANGED <<service, missed, manager_state, objects, _connections, active, source, items, bubbles>>
  BY DEF ComesLinked, Tells, appletRest, showVars
<1>2. /\ m \in Created(d) /\ m \in Changes /\ m \notin Services /\ m \notin Rendering
      /\ told \in Seq(Changes \cup Services) /\ \A e \in Controllers : m \notin On(e) \cup Off(e)
  BY Distinct DEF ToldOK
<1> HIDE DEF m
<1>3. told' = Append(told, m)
  BY <1>1, <1>2, Telling
<1>4. ToldOK'
  <2>1. told' \in Seq(Changes \cup Services)
    BY <1>2, <1>3, Appending
  <2> QED
    BY <1>1, <2>1 DEF ToldOK
<1>5. ObjectsKnown'
  BY <1>1, <1>2, <1>3, DeviceTold
<1>6. \A Y : Has(told', Y) <=> Has(told, Y) \/ m \in Y
  BY <1>2, <1>3, AppendHas
<1>7. DevicesTold'
  <2>1. \A X, Y : m \notin X /\ Followed(told, X, Y) => Followed(told', X, Y)
    BY <1>2, <1>3, AppendFollowed
  <2> SUFFICES ASSUME NEW e \in Controllers
               PROVE  /\ e \in linked' \ untold' =>
                           /\ Followed(told', Added \cup Removed \cup Vanished \cup Created(e), On(e))
                           /\ Followed(told', Off(e), On(e))
                      /\ e \notin linked' => Followed(told', On(e), Off(e) \cup Removed)
                      /\ e \notin linked' \cup missed' => Followed(told', On(e), Off(e))
    BY DEF DevicesTold
  <2>2. CASE e = d
    BY <1>1, <2>2
  <2>3. CASE e # d
    <3>1. m \notin Created(e) /\ m \notin Added \cup Removed \cup Vanished /\ m \notin On(e) /\ m \notin Off(e)
      BY <1>2, <2>3, Distinct DEF Services
    <3> QED
      BY <1>1, <2>1, <2>3, <3>1 DEF DevicesTold
  <2> QED
    BY <2>2, <2>3
<1>8. RecordsOK'
  <2>1. ASSUME NEW e \in Controllers, ~source, ~Has(told', Services \cup On(e) \cup Off(e))
        PROVE  (e \in _connections => e \in linked') /\ (e \in linked' \ untold' => e \in _connections)
    <3>1. ~Has(told, Services \cup On(e) \cup Off(e))
      BY <1>6, <2>1
    <3> QED
      BY <1>1, <2>1, <3>1 DEF RecordsOK
  <2>2. ~Has(told', Rendering) => Shows(items)'
    BY <1>1, <1>6 DEF RecordsOK, Shows
  <2> QED
    BY <1>1, <1>6, <2>1, <2>2 DEF RecordsOK
<1> QED
  BY <1>4, <1>5, <1>7, <1>8

LEMMA UnlinkTold ==
    ASSUME ToldOK, ObjectsKnown, DevicesTold, RecordsOK, NEW d \in Controllers, Unlinks(d)
    PROVE  ToldOK' /\ ObjectsKnown' /\ DevicesTold' /\ RecordsOK'
<1> DEFINE m == About(d, "disconnected")
<1>1. /\ d \in linked /\ linked' = linked \ {d} /\ untold' = untold \ {d} /\ told' = told \o <<m>>
      /\ UNCHANGED <<service, missed, manager_state, objects, _connections, active, source, items, bubbles>>
  BY DEF Unlinks, Tells, appletRest, showVars
<1>2. m \in Off(d) /\ m \in Changes /\ m \notin Services /\ told \in Seq(Changes \cup Services)
  BY Distinct DEF ToldOK
<1> HIDE DEF m
<1>3. told' = Append(told, m) /\ service = "adapter"
  BY <1>1, <1>2, Telling DEF ToldOK
<1>4. ToldOK'
  <2>1. told' \in Seq(Changes \cup Services)
    BY <1>2, <1>3, Appending
  <2> QED
    BY <1>1, <1>3, <2>1 DEF ToldOK
<1>5. ObjectsKnown'
  BY <1>1, <1>2, <1>3, DeviceTold
<1>6. \A Y : Has(told', Y) <=> Has(told, Y) \/ m \in Y
  BY <1>2, <1>3, AppendHas
<1>7. DevicesTold'
  <2>1. \A X, Y : m \notin X /\ (Followed(told, X, Y) \/ m \in Y) => Followed(told', X, Y)
    BY <1>2, <1>3, AppendFollowed
  <2> SUFFICES ASSUME NEW e \in Controllers
               PROVE  /\ e \in linked' \ untold' =>
                           /\ Followed(told', Added \cup Removed \cup Vanished \cup Created(e), On(e))
                           /\ Followed(told', Off(e), On(e))
                      /\ e \notin linked' => Followed(told', On(e), Off(e) \cup Removed)
                      /\ e \notin linked' \cup missed' => Followed(told', On(e), Off(e))
    BY DEF DevicesTold
  <2>2. m \notin On(e) /\ (e # d => m \notin Off(e)) /\ m \notin Added \cup Removed \cup Vanished \cup Created(e)
    BY <1>2, Distinct DEF Services
  <2>3. CASE e = d
    BY <1>1, <1>2, <2>1, <2>2, <2>3
  <2>4. CASE e # d
    BY <1>1, <1>2, <2>1, <2>2, <2>4 DEF DevicesTold
  <2> QED
    BY <2>3, <2>4
<1>8. RecordsOK'
  <2>1. ASSUME NEW e \in Controllers, ~source, ~Has(told', Services \cup On(e) \cup Off(e))
        PROVE  (e \in _connections => e \in linked') /\ (e \in linked' \ untold' => e \in _connections)
    <3>1. e # d /\ ~Has(told, Services \cup On(e) \cup Off(e))
      BY <1>2, <1>6, <2>1
    <3> QED
      BY <1>1, <2>1, <3>1 DEF RecordsOK
  <2>2. Has(told', Rendering)
    BY <1>2, <1>6, Distinct
  <2>3. ASSUME NEW e \in bubbles PROVE e \in linked' \cup missed \/ Has(told', Off(e))
    <3>1. CASE e = d
      BY <1>2, <1>6, <3>1
    <3>2. CASE e # d
      BY <1>1, <1>6, <3>2 DEF RecordsOK
    <3> QED
      BY <3>1, <3>2
  <2> QED
    BY <1>1, <1>6, <2>1, <2>2, <2>3 DEF RecordsOK
<1> QED
  BY <1>4, <1>5, <1>7, <1>8

\* The messages of BlueZ about itself, one or two
Tidings(M) ==
    \E a \in M : \/ M = {a} /\ told' = Append(told, a)
                \/ \E b \in M : M = {a, b} /\ told' = Append(Append(told, a), b)

LEMMA TidingsOrder ==
    ASSUME NEW S, told \in Seq(S), NEW M \in SUBSET S, Tidings(M)
    PROVE  /\ told' \in Seq(S)
           /\ \A Y : Has(told, Y) => Has(told', Y)
           /\ \A Y : Y \cap M = {} => (Has(told', Y) => Has(told, Y))
           /\ \A X, Y : X \cap M = {} /\ Followed(told, X, Y) => Followed(told', X, Y)
           /\ \A Y, Z : Z \cap M = {} /\ Preceded(told, Y, Z) => Preceded(told', Y, Z)
           /\ \A X, Y, Z : Z \cap M = {} /\ Separated(told, X, Y, Z) => Separated(told', X, Y, Z)
           /\ \A X, Y, Z : Z \cap M = {} /\ Resolved(told, X, Z, Y) => Resolved(told', X, Z, Y)
           /\ \A X, Y : X \cap M = {} /\ M \cap Y # {} => Has(told', Y) /\ Followed(told', X, Y)
<1>1. ASSUME NEW q \in Seq(S), NEW a \in M
      PROVE  /\ Append(q, a) \in Seq(S)
             /\ \A Y : Has(q, Y) => Has(Append(q, a), Y)
             /\ \A Y : Y \cap M = {} => (Has(Append(q, a), Y) => Has(q, Y))
             /\ \A X, Y : X \cap M = {} /\ Followed(q, X, Y) => Followed(Append(q, a), X, Y)
             /\ \A Y, Z : Z \cap M = {} /\ Preceded(q, Y, Z) => Preceded(Append(q, a), Y, Z)
             /\ \A X, Y, Z : Z \cap M = {} /\ Separated(q, X, Y, Z) => Separated(Append(q, a), X, Y, Z)
             /\ \A X, Y, Z : Z \cap M = {} /\ Resolved(q, X, Z, Y) => Resolved(Append(q, a), X, Z, Y)
             /\ \A X, Y : X \cap M = {} /\ a \in Y => Has(Append(q, a), Y) /\ Followed(Append(q, a), X, Y)
  <2>1. a \in S /\ \A Y : Y \cap M = {} => a \notin Y
    OBVIOUS
  <2>2. Append(q, a) \in Seq(S)
    BY <2>1
  <2>3. \A Y : Has(Append(q, a), Y) <=> Has(q, Y) \/ a \in Y
    BY <2>1, AppendHas
  <2>4. \A X, Y : a \notin X /\ (Followed(q, X, Y) \/ a \in Y) => Followed(Append(q, a), X, Y)
    BY <2>1, AppendFollowed
  <2>5. \A Y, Z : a \notin Z /\ Preceded(q, Y, Z) => Preceded(Append(q, a), Y, Z)
    BY <2>1, AppendPreceded
  <2>6. \A X, Y, Z : a \notin Z /\ Separated(q, X, Y, Z) => Separated(Append(q, a), X, Y, Z)
    BY <2>1, AppendSeparated
  <2>7. \A X, Y, Z : a \notin Z /\ Resolved(q, X, Z, Y) => Resolved(Append(q, a), X, Z, Y)
    BY <2>1, AppendResolved
  <2> QED
    BY <2>1, <2>2, <2>3, <2>4, <2>5, <2>6, <2>7
<1>2. PICK a \in M : \/ M = {a} /\ told' = Append(told, a)
                     \/ \E b \in M : M = {a, b} /\ told' = Append(Append(told, a), b)
  BY DEF Tidings
<1>3. CASE M = {a} /\ told' = Append(told, a)
  BY <1>1, <1>3
<1>4. CASE \E b \in M : M = {a, b} /\ told' = Append(Append(told, a), b)
  <2>1. PICK b \in M : M = {a, b} /\ told' = Append(Append(told, a), b)
    BY <1>4
  <2> DEFINE q == Append(told, a)
  <2>2. q \in Seq(S)
    BY <1>1
  <2>3. /\ \A Y : Has(told, Y) => Has(q, Y)
        /\ \A Y : Y \cap M = {} => (Has(q, Y) => Has(told, Y))
        /\ \A X, Y : X \cap M = {} /\ Followed(told, X, Y) => Followed(q, X, Y)
        /\ \A Y, Z : Z \cap M = {} /\ Preceded(told, Y, Z) => Preceded(q, Y, Z)
        /\ \A X, Y, Z : Z \cap M = {} /\ Separated(told, X, Y, Z) => Separated(q, X, Y, Z)
        /\ \A X, Y, Z : Z \cap M = {} /\ Resolved(told, X, Z, Y) => Resolved(q, X, Z, Y)
        /\ \A X, Y : X \cap M = {} /\ a \in Y => Has(q, Y) /\ Followed(q, X, Y)
    BY <1>1
  <2> HIDE DEF q
  <2>4. /\ told' \in Seq(S)
        /\ \A Y : Has(q, Y) => Has(told', Y)
        /\ \A Y : Y \cap M = {} => (Has(told', Y) => Has(q, Y))
        /\ \A X, Y : X \cap M = {} /\ Followed(q, X, Y) => Followed(told', X, Y)
        /\ \A Y, Z : Z \cap M = {} /\ Preceded(q, Y, Z) => Preceded(told', Y, Z)
        /\ \A X, Y, Z : Z \cap M = {} /\ Separated(q, X, Y, Z) => Separated(told', X, Y, Z)
        /\ \A X, Y, Z : Z \cap M = {} /\ Resolved(q, X, Z, Y) => Resolved(told', X, Z, Y)
        /\ \A X, Y : X \cap M = {} /\ b \in Y => Has(told', Y) /\ Followed(told', X, Y)
    <3>1. told' = Append(q, b)
      BY <2>1 DEF q
    <3> QED
      BY <1>1, <2>2, <3>1
  <2>5. \A X, Y : X \cap M = {} /\ M \cap Y # {} => Has(told', Y) /\ Followed(told', X, Y)
    BY <2>1, <2>3, <2>4
  <2> QED
    BY <2>3, <2>4, <2>5
<1> QED
  BY <1>2, <1>3, <1>4

LEMMA GoingTold ==
    ASSUME ToldOK, ObjectsKnown, DevicesTold, RecordsOK, Goes
    PROVE  ToldOK' /\ ObjectsKnown' /\ DevicesTold' /\ RecordsOK'
<1>0. told \in Seq(Changes \cup Services) /\ Removed \subseteq Services /\ Vanished \subseteq Services
      /\ Told("removed") \in Removed /\ Told("vanished") \in Vanished
  BY Distinct DEF ToldOK, Services
<1>1. /\ linked' = {} /\ untold' = {} /\ missed' = missed \cup linked /\ service' \in {"bare", "off"}
      /\ UNCHANGED <<manager_state, objects, _connections, active, source, items, bubbles>>
  BY DEF Goes, appletRest, showVars
<1>2. PICK M : /\ M \subseteq Removed \cup Vanished /\ M # {} /\ Tidings(M)
               /\ service = "adapter" => Told("removed") \in M
               /\ service' # "off" => Told("vanished") \notin M
  <2>1. CASE service = "adapter" /\ service' = "bare"
    <3>1. told' = told \o <<Told("removed")>>
      BY <2>1 DEF Goes, Tells
    <3>2. told' = Append(told, Told("removed"))
      BY <1>0, <3>1, Telling
    <3>3. Tidings({Told("removed")})
      BY <3>2 DEF Tidings
    <3> QED
      BY <1>0, <2>1, <3>3, Distinct
  <2>2. CASE service = "bare" /\ service' = "off"
    <3>1. told' = told \o <<Told("vanished")>>
      BY <2>2 DEF Goes, Tells
    <3>2. told' = Append(told, Told("vanished"))
      BY <1>0, <3>1, Telling
    <3>3. Tidings({Told("vanished")})
      BY <3>2 DEF Tidings
    <3> QED
      BY <1>0, <2>2, <3>3
  <2>3. CASE service = "adapter" /\ service' = "off"
    <3>1. \/ told' = told \o <<Told("removed"), Told("vanished")>>
          \/ told' = told \o <<Told("vanished"), Told("removed")>>
      BY <2>3 DEF Goes, Tells, Orders
    <3>2. \/ told' = Append(Append(told, Told("removed")), Told("vanished"))
          \/ told' = Append(Append(told, Told("vanished")), Told("removed"))
      BY <1>0, <3>1, Telling
    <3>3. Tidings({Told("removed"), Told("vanished")})
      BY <3>2 DEF Tidings
    <3> QED
      BY <1>0, <2>3, <3>3
  <2> QED
    BY <2>1, <2>2, <2>3 DEF Goes
<1>3. /\ M \subseteq Services /\ M \subseteq Rendering /\ Added \cap M = {} /\ Changes \cap M = {}
      /\ \A d \in Controllers : On(d) \cap M = {} /\ Off(d) \cap M = {}
      /\ service = "adapter" => Removed \cap M # {}
      /\ service' # "off" => Vanished \cap M = {}
  BY <1>0, <1>2, Distinct DEF Rendering, Vanished
<1>4. ToldOK'
  <2>1. told' \in Seq(Changes \cup Services)
    BY <1>0, <1>2, <1>3, TidingsOrder
  <2> QED
    BY <1>1, <2>1 DEF ToldOK
<1>5. ObjectsKnown'
  <2>1. Followed(told', Added, Removed) /\ (objects => Has(told', Removed))
    <3>1. CASE service = "adapter"
      BY <1>0, <1>2, <1>3, <3>1, TidingsOrder
    <3>2. CASE service # "adapter"
      BY <1>0, <1>2, <1>3, <3>2, TidingsOrder DEF ObjectsKnown
    <3> QED
      BY <3>1, <3>2
  <2>2. Separated(told', Removed, Added, Changes)
    BY <1>0, <1>2, <1>3, TidingsOrder DEF ObjectsKnown
  <2>3. ~objects => Preceded(told', Added, Changes)
    BY <1>0, <1>2, <1>3, TidingsOrder DEF ObjectsKnown
  <2>4. service' # "off" => Followed(told', Vanished, Appeared)
    <3>1. service' # "off" => service # "off"
      BY DEF Goes
    <3> QED
      BY <1>0, <1>2, <1>3, <3>1, TidingsOrder DEF ObjectsKnown
  <2>5. Resolved(told', Added, Vanished, Removed)
    BY <2>1 DEF Followed, Resolved
  <2> QED
    BY <1>1, <2>1, <2>2, <2>3, <2>4, <2>5 DEF ObjectsKnown
<1>6. DevicesTold'
  <2> SUFFICES ASSUME NEW e \in Controllers
               PROVE  /\ Followed(told', On(e), Off(e) \cup Removed)
                      /\ e \notin missed' => Followed(told', On(e), Off(e))
    BY <1>1 DEF DevicesTold
  <2>1. Followed(told', On(e), Off(e) \cup Removed)
    <3>1. CASE service = "adapter"
      <4>1. M \cap (Off(e) \cup Removed) # {}
        BY <1>3, <3>1
      <4> QED
        BY <1>0, <1>2, <1>3, <4>1, TidingsOrder
    <3>2. CASE service # "adapter"
      <4>1. Followed(told, On(e), Off(e) \cup Removed)
        BY <3>2 DEF ToldOK, DevicesTold
      <4> QED
        BY <1>0, <1>2, <1>3, <4>1, TidingsOrder
    <3> QED
      BY <3>1, <3>2
  <2>2. ASSUME e \notin missed' PROVE Followed(told', On(e), Off(e))
    <3>1. Followed(told, On(e), Off(e))
      BY <1>1, <2>2 DEF DevicesTold
    <3> QED
      BY <1>0, <1>2, <1>3, <3>1, TidingsOrder
  <2> QED
    BY <2>1, <2>2
<1>7. RecordsOK'
  <2>1. \A e \in Controllers : Has(told', Services \cup On(e) \cup Off(e))
    <3> SUFFICES ASSUME NEW e \in Controllers PROVE Has(told', Services \cup On(e) \cup Off(e))
      OBVIOUS
    <3> DEFINE Y == Services \cup On(e) \cup Off(e)
    <3>1. M \cap Y # {} /\ {} \cap M = {}
      BY <1>2, <1>3
    <3> HIDE DEF Y
    <3>2. Has(told', Y) /\ Followed(told', {}, Y)
      BY <1>0, <1>2, <1>3, <3>1, TidingsOrder
    <3> QED
      BY <3>2 DEF Y
  <2>2. Has(told', Rendering)
    <3>1. M \cap Rendering # {} /\ {} \cap M = {}
      BY <1>2, <1>3
    <3>2. Has(told', Rendering) /\ Followed(told', {}, Rendering)
      BY <1>0, <1>2, <1>3, <3>1, TidingsOrder
    <3> QED
      BY <3>2
  <2>3. \A Y : Has(told, Y) => Has(told', Y)
    BY <1>0, <1>2, <1>3, TidingsOrder
  <2> QED
    BY <1>1, <2>1, <2>2, <2>3 DEF RecordsOK
<1> QED
  BY <1>4, <1>5, <1>6, <1>7

LEMMA ComingTold ==
    ASSUME ToldOK, ObjectsKnown, DevicesTold, RecordsOK, Comes
    PROVE  ToldOK' /\ ObjectsKnown' /\ DevicesTold' /\ RecordsOK'
<1>0. told \in Seq(Changes \cup Services) /\ Added \subseteq Services /\ Appeared \subseteq Services
      /\ Told("added") \in Added /\ Told("appeared") \in Appeared
  BY Distinct DEF ToldOK, Services
<1>1. /\ linked' \in SUBSET Controllers /\ untold' = linked' /\ (service' = "bare" => linked' = {})
      /\ UNCHANGED <<missed, manager_state, objects, _connections, active, source, items, bubbles>>
      /\ service' \in {"bare", "adapter"} /\ service # "adapter" /\ linked = {}
  BY DEF Comes, appletRest, showVars, ToldOK
<1>2. PICK M : /\ M \subseteq Added \cup Appeared /\ M # {} /\ Tidings(M)
               /\ service' = "adapter" => Told("added") \in M
               /\ service' # "adapter" => Told("added") \notin M
               /\ service = "off" => Told("appeared") \in M
  <2>1. CASE service = "bare" /\ service' = "adapter"
    <3>1. told' = told \o <<Told("added")>>
      BY <2>1 DEF Comes, Tells
    <3>2. told' = Append(told, Told("added"))
      BY <1>0, <3>1, Telling
    <3>3. Tidings({Told("added")})
      BY <3>2 DEF Tidings
    <3> QED
      BY <1>0, <2>1, <3>3
  <2>2. CASE service = "off" /\ service' = "bare"
    <3>1. told' = told \o <<Told("appeared")>>
      BY <2>2 DEF Comes, Tells
    <3>2. told' = Append(told, Told("appeared"))
      BY <1>0, <3>1, Telling
    <3>3. Tidings({Told("appeared")})
      BY <3>2 DEF Tidings
    <3> QED
      BY <1>0, <2>2, <3>3, Distinct
  <2>3. CASE service = "off" /\ service' = "adapter"
    <3>1. \/ told' = told \o <<Told("added"), Told("appeared")>>
          \/ told' = told \o <<Told("appeared"), Told("added")>>
      BY <2>3 DEF Comes, Tells, Orders
    <3>2. \/ told' = Append(Append(told, Told("added")), Told("appeared"))
          \/ told' = Append(Append(told, Told("appeared")), Told("added"))
      BY <1>0, <3>1, Telling
    <3>3. Tidings({Told("added"), Told("appeared")})
      BY <3>2 DEF Tidings
    <3> QED
      BY <1>0, <2>3, <3>3
  <2> QED
    BY <2>1, <2>2, <2>3 DEF Comes
<1>3. /\ M \subseteq Services /\ Removed \cap M = {} /\ Vanished \cap M = {} /\ Changes \cap M = {}
      /\ \A d \in Controllers : On(d) \cap M = {} /\ Off(d) \cap M = {}
      /\ service' = "adapter" => M \cap Added # {}
      /\ service' # "adapter" => Added \cap M = {}
      /\ service = "off" => M \cap Appeared # {}
  BY <1>0, <1>2, Distinct DEF Added
<1>4. ToldOK'
  <2>1. told' \in Seq(Changes \cup Services)
    BY <1>0, <1>2, <1>3, TidingsOrder
  <2> QED
    BY <1>1, <2>1 DEF ToldOK
<1>5. ObjectsKnown'
  <2>1. service' = "adapter" => Followed(told', Removed, Added) /\ Has(told', Added)
    BY <1>0, <1>2, <1>3, TidingsOrder
  <2>2. service' # "adapter" => Followed(told', Added, Removed)
    BY <1>0, <1>1, <1>2, <1>3, TidingsOrder DEF ObjectsKnown
  <2>3. objects => Has(told', Removed)
    BY <1>0, <1>1, <1>2, <1>3, TidingsOrder DEF ObjectsKnown
  <2>4. Separated(told', Removed, Added, Changes)
    BY <1>0, <1>2, <1>3, TidingsOrder DEF ObjectsKnown
  <2>5. ~objects => Preceded(told', Added, Changes)
    BY <1>0, <1>2, <1>3, TidingsOrder DEF ObjectsKnown
  <2>6. Followed(told', Vanished, Appeared)
    <3>1. CASE service = "off"
      BY <1>0, <1>2, <1>3, <3>1, TidingsOrder
    <3>2. CASE service # "off"
      BY <1>0, <1>2, <1>3, <3>2, TidingsOrder DEF ObjectsKnown
    <3> QED
      BY <3>1, <3>2
  <2>7. Resolved(told', Added, Vanished, Removed)
    BY <1>0, <1>2, <1>3, TidingsOrder DEF ObjectsKnown
  <2> QED
    BY <1>1, <2>1, <2>2, <2>3, <2>4, <2>5, <2>6, <2>7 DEF ObjectsKnown
<1>6. DevicesTold'
  <2> SUFFICES ASSUME NEW e \in Controllers
               PROVE  /\ Followed(told', On(e), Off(e) \cup Removed)
                      /\ e \notin missed => Followed(told', On(e), Off(e))
    BY <1>1 DEF DevicesTold
  <2>1. /\ Followed(told, On(e), Off(e) \cup Removed)
        /\ e \notin missed => Followed(told, On(e), Off(e))
    BY <1>1 DEF DevicesTold
  <2> QED
    BY <1>0, <1>2, <1>3, <2>1, TidingsOrder
<1>7. RecordsOK'
  <2>1. \A e \in Controllers : Has(told', Services \cup On(e) \cup Off(e))
    <3> SUFFICES ASSUME NEW e \in Controllers PROVE Has(told', Services \cup On(e) \cup Off(e))
      OBVIOUS
    <3> DEFINE Y == Services \cup On(e) \cup Off(e)
    <3>1. M \cap Y # {} /\ {} \cap M = {}
      BY <1>2, <1>3
    <3> HIDE DEF Y
    <3>2. Has(told', Y) /\ Followed(told', {}, Y)
      BY <1>0, <1>2, <1>3, <3>1, TidingsOrder
    <3> QED
      BY <3>2 DEF Y
  <2>2. \A Y : Has(told, Y) => Has(told', Y)
    BY <1>0, <1>2, <1>3, TidingsOrder
  <2>3. ~Has(told', Rendering) => Shows(items)'
    BY <1>1, <2>2 DEF RecordsOK, Shows
  <2> QED
    BY <1>1, <2>1, <2>2, <2>3 DEF RecordsOK
<1> QED
  BY <1>4, <1>5, <1>6, <1>7

LEMMA LockTypedStep ==
    ASSUME LockTyped, [ConnectionsNext]_connectionVars
    PROVE  LockTyped'
<1>0. wake_lock \in Int /\ suspended \in BOOLEAN /\ failed \in BOOLEAN /\ (suspended => wake_lock >= 1 \/ failed)
  BY DEF LockTyped
<1>1. CASE \E b \in BOOLEAN : Lock(b)
  <2>1. \/ wake_lock >= 1 /\ wake_lock' = wake_lock + 1 /\ suspended' = suspended /\ failed' = failed
        \/ wake_lock = 0 /\ wake_lock' = 1 /\ suspended' = TRUE /\ failed' = failed
        \/ wake_lock > 1 /\ wake_lock' = wake_lock - 1 /\ suspended' = suspended /\ failed' = failed
        \/ wake_lock = 1 /\ wake_lock' = 0 /\ suspended' = FALSE /\ failed' = failed
        \/ wake_lock = 1 /\ wake_lock' = 1 /\ failed' = TRUE /\ suspended' = suspended
        \/ wake_lock' = wake_lock /\ suspended' = suspended /\ failed' = failed
    BY <1>1 DEF Lock, Suspend, Resume, lockVars
  <2>2. wake_lock' \in Int
    BY <1>0, <2>1
  <2>3. suspended' \in BOOLEAN /\ failed' \in BOOLEAN
    BY <1>0, <2>1, Zenon
  <2>4. \/ wake_lock' >= 1 \/ failed' = TRUE \/ suspended' = FALSE
        \/ ~(wake_lock >= 1) /\ suspended' = suspended /\ failed' = failed
    BY <1>0, <2>1
  <2>5. suspended' => wake_lock' >= 1 \/ failed'
    BY <1>0, <2>3, <2>4, Zenon
  <2> QED
    BY <2>2, <2>3, <2>5 DEF LockTyped
<1>2. CASE UnloadLock \/ LoadLock
  <2>1. \/ wake_lock' = -1 /\ wake_lock = 0 /\ suspended' = suspended /\ failed' = failed
        \/ wake_lock' = -1 /\ suspended' = FALSE /\ failed' = failed
        \/ wake_lock' = -1 /\ failed' = TRUE /\ suspended' = suspended
        \/ wake_lock' = 0 /\ wake_lock = -1 /\ suspended' = suspended /\ failed' = failed
    BY <1>2 DEF UnloadLock, LoadLock
  <2>2. wake_lock' \in Int
    BY <1>0, <2>1
  <2>3. suspended' \in BOOLEAN /\ failed' \in BOOLEAN
    BY <1>0, <2>1, Zenon
  <2>4. \/ wake_lock' >= 1 \/ failed' = TRUE \/ suspended' = FALSE
        \/ ~(wake_lock >= 1) /\ suspended' = suspended /\ failed' = failed
    BY <1>0, <2>1
  <2>5. suspended' => wake_lock' >= 1 \/ failed'
    BY <1>0, <2>3, <2>4, Zenon
  <2> QED
    BY <2>2, <2>3, <2>5 DEF LockTyped
<1>3. CASE UNCHANGED lockVars
  BY <1>3 DEF LockTyped, lockVars
<1> QED
  BY <1>1, <1>2, <1>3 DEF ConnectionsNext, connectionVars, EnumerateLater, Goes, Comes, ConnectedChanges, AdapterEvent,
     ManagerState, BatteryUpdate, DeviceCreated, Links, ComesLinked, Unlinks, appletRest

\* What keeps the belief: as many believed, and none added but a connection that is handled.
LEMMA SameBelief ==
    ASSUME BelievedWell, missed' = {} => missed = {}, UNCHANGED lockVars,
           missed' = {} => /\ \A d \in Controllers : Separated(told', On(d), Off(d), On(d))
                           /\ Believed \subseteq Believed'
    PROVE  BelievedWell'
<1> SUFFICES ASSUME missed' = {}
             PROVE  \E T \in SUBSET Believed' : IsFiniteSet(T) /\ (failed' \/ wake_lock' <= Cardinality(T))
  BY DEF BelievedWell
<1>1. PICK T \in SUBSET Believed : IsFiniteSet(T) /\ (failed \/ wake_lock <= Cardinality(T))
  BY DEF BelievedWell
<1>2. T \in SUBSET Believed'
  BY <1>1
<1> QED
  BY <1>1, <1>2 DEF lockVars

\* A controller that connects or disconnects is counted.
LEMMA ChangeBelieved ==
    ASSUME ToldOK, DevicesTold, LockTyped, BelievedWell, NEW on \in BOOLEAN, ConnectedChanges(on)
    PROVE  BelievedWell'
<1>0. /\ told \in Seq(Changes \cup Services) /\ Head(told) \in Changes \cup Services
      /\ told # <<>> /\ told' = Tail(told) /\ UNCHANGED <<linked, missed>> /\ Lock(on)
  BY FirstTold DEF ToldOK, ConnectedChanges, Handle
<1> SUFFICES ASSUME missed = {}
             PROVE  /\ \A d \in Controllers : Separated(told', On(d), Off(d), On(d))
                    /\ \E T \in SUBSET Believed' : IsFiniteSet(T) /\ (failed' \/ wake_lock' <= Cardinality(T))
  BY <1>0 DEF BelievedWell
<1>1. PICK d \in Controllers : Head(told) \in (IF on THEN On(d) ELSE Off(d))
  BY <1>0, Kinds DEF ConnectedChanges, Handle
<1>2. \A e \in Controllers : Separated(told, On(e), Off(e), On(e))
  BY DEF BelievedWell
<1>3. \A e \in Controllers : Separated(told', On(e), Off(e), On(e))
  BY <1>0, <1>2, TailOrder
<1>4. PICK T \in SUBSET Believed : IsFiniteSet(T) /\ (failed \/ wake_lock <= Cardinality(T))
  BY DEF BelievedWell
<1>5. T \ {d} \subseteq Believed'
  <2> SUFFICES ASSUME NEW e \in T, e # d PROVE e \in Believed'
    OBVIOUS
  <2>1. e \in Controllers /\ Preceded(told, Off(e), On(e)) /\ (e \in linked \/ Has(told, Off(e)))
    BY <1>4 DEF Believed
  <2>2. Head(told) \notin Off(e)
    BY <1>1, <2>1, Distinct
  <2>3. Preceded(told', Off(e), On(e)) /\ (Has(told, Off(e)) => Has(told', Off(e)))
    BY <1>0, <2>1, <2>2, TailOrder
  <2> QED
    BY <1>0, <2>1, <2>3 DEF Believed
<1>6. IsFiniteSet(T \ {d}) /\ IsFiniteSet(T \cup {d}) /\ Cardinality(T) \in Nat
  BY <1>4, FS_Difference, FS_Singleton, FS_AddElement, FS_CardinalityType
<1>7. CASE on
  <2>1. d \notin T
    <3>1. Preceded(told, Off(d), On(d)) => Head(told) \notin On(d)
      BY <1>0, TailOrder
    <3> QED
      BY <1>1, <1>4, <1>7, <3>1 DEF Believed
  <2>2. d \in Believed'
    <3>1. Preceded(told', Off(d), On(d))
      <4>1. Separated(told, On(d), Off(d), On(d)) /\ Head(told) \in On(d)
        BY <1>1, <1>2, <1>7
      <4> QED
        BY <1>0, <4>1, TailOrder
    <3>2. d \in linked \/ Has(told', Off(d))
      <4>1. d \notin linked => Followed(told, On(d), Off(d))
        BY DEF DevicesTold
      <4> QED
        BY <1>0, <1>1, <1>7, <4>1, TailOrder
    <3> QED
      BY <1>0, <3>1, <3>2 DEF Believed
  <2>3. T \cup {d} \in SUBSET Believed'
    BY <1>5, <2>2
  <2>4. Cardinality(T \cup {d}) = Cardinality(T) + 1
    BY <1>4, <2>1, FS_AddElement
  <2>5. failed' \/ wake_lock' <= Cardinality(T) + 1
    BY <1>0, <1>4, <1>6, <1>7 DEF Lock, Suspend, lockVars, LockTyped
  <2> QED
    BY <1>3, <1>6, <2>3, <2>4, <2>5
<1>8. CASE ~on
  <2>1. T \ {d} \in SUBSET Believed'
    BY <1>5
  <2>2. Cardinality(T \ {d}) \in Nat /\ Cardinality(T) <= Cardinality(T \ {d}) + 1
    <3>1. CASE d \in T
      BY <1>4, <1>6, <3>1, FS_RemoveElement, FS_CardinalityType
    <3>2. CASE d \notin T
      <4>1. T \ {d} = T
        BY <3>2
      <4> QED
        BY <1>6, <4>1
    <3> QED
      BY <3>1, <3>2
  <2>3. failed' \/ wake_lock' <= Cardinality(T \ {d})
    BY <1>0, <1>4, <1>6, <1>8, <2>2 DEF Lock, Resume, lockVars, LockTyped
  <2> QED
    BY <1>3, <1>6, <2>1, <2>3
<1> QED
  BY <1>7, <1>8

LEMMA ServiceBelieved ==
    ASSUME ToldOK, BelievedWell, told # <<>>, told' = Tail(told), \A e \in Controllers : Head(told) \notin Off(e),
           UNCHANGED <<linked, missed>>, UNCHANGED lockVars
    PROVE  BelievedWell'
<1>0. told \in Seq(Changes \cup Services)
  BY DEF ToldOK
<1>1. ASSUME missed = {} PROVE \A d \in Controllers : Separated(told', On(d), Off(d), On(d))
  BY <1>0, <1>1, TailOrder DEF BelievedWell
<1>2. Believed \subseteq Believed'
  <2> SUFFICES ASSUME NEW e \in Believed PROVE e \in Believed'
    OBVIOUS
  <2>1. e \in Controllers /\ Preceded(told, Off(e), On(e)) /\ (e \in linked \/ Has(told, Off(e)))
    BY DEF Believed
  <2>2. Head(told) \notin Off(e)
    BY <2>1
  <2>3. Preceded(told', Off(e), On(e)) /\ (Has(told, Off(e)) => Has(told', Off(e)))
    BY <1>0, <2>1, <2>2, TailOrder
  <2> QED
    BY <2>1, <2>3 DEF Believed
<1> QED
  BY <1>1, <1>2, SameBelief

LEMMA LinkBelieved ==
    ASSUME ToldOK, DevicesTold, BelievedWell, NEW d \in Controllers, Links(d) \/ ComesLinked(d) \/ Unlinks(d)
    PROVE  BelievedWell'
<1>1. PICK m : /\ told' = told \o <<m>> /\ UNCHANGED missed /\ UNCHANGED lockVars
               /\ \/ m = About(d, "connected") /\ d \notin linked /\ linked' = linked \cup {d}
                  \/ m = About(d, "created") /\ d \notin linked /\ linked' = linked \cup {d}
                  \/ m = About(d, "disconnected") /\ d \in linked /\ linked' = linked \ {d}
  BY DEF Links, ComesLinked, Unlinks, Tells, appletRest
<1>2. \/ m \in On(d) /\ d \notin linked /\ linked' = linked \cup {d}
      \/ m \in Created(d) /\ d \notin linked /\ linked' = linked \cup {d}
      \/ m \in Off(d) /\ d \in linked /\ linked' = linked \ {d}
  BY <1>1, Distinct
<1>3. m \in Changes \cup Services /\ told \in Seq(Changes \cup Services)
  BY <1>2, Distinct DEF ToldOK
<1>4. told' = Append(told, m)
  BY <1>1, <1>3, Telling
<1>5. \A e \in Controllers : e # d => m \notin On(e) \cup Off(e)
  BY <1>2, Distinct
<1>6. On(d) \cap Off(d) = {} /\ Created(d) \cap (On(d) \cup Off(d)) = {}
  BY Distinct
<1>7. ASSUME missed = {}, NEW e \in Controllers PROVE Separated(told', On(e), Off(e), On(e))
  <2>1. Separated(told, On(e), Off(e), On(e))
    BY <1>7 DEF BelievedWell
  <2>2. m \in On(e) => Followed(told, On(e), Off(e))
    BY <1>2, <1>5, <1>6, <1>7 DEF DevicesTold
  <2> QED
    BY <1>3, <1>4, <2>1, <2>2, AppendSeparated
<1>8. Believed \subseteq Believed'
  <2> SUFFICES ASSUME NEW e \in Believed PROVE e \in Believed'
    OBVIOUS
  <2>1. e \in Controllers /\ Preceded(told, Off(e), On(e)) /\ (e \in linked \/ Has(told, Off(e)))
    BY DEF Believed
  <2>2. m \in On(e) => Has(told, Off(e))
    BY <1>2, <1>5, <1>6, <2>1
  <2>3. Preceded(told', Off(e), On(e))
    BY <1>3, <1>4, <2>1, <2>2, AppendPreceded
  <2>4. Has(told', Off(e)) <=> Has(told, Off(e)) \/ m \in Off(e)
    BY <1>3, <1>4, AppendHas
  <2>5. e \in linked' \/ Has(told', Off(e))
    BY <1>2, <2>1, <2>4
  <2> QED
    BY <2>1, <2>3, <2>5 DEF Believed
<1> QED
  BY <1>1, <1>7, <1>8, SameBelief

LEMMA TidingsBelieved ==
    ASSUME ToldOK, BelievedWell, Goes \/ Comes
    PROVE  BelievedWell'
<1>0. told \in Seq(Changes \cup Services)
  BY DEF ToldOK
<1>1. UNCHANGED lockVars /\ (missed' = {} => missed = {} /\ linked \subseteq linked')
  BY DEF Goes, Comes, appletRest, ToldOK
<1>2. PICK M \in SUBSET Services : Tidings(M)
  <2>1. /\ Told("removed") \in Services /\ Told("vanished") \in Services
        /\ Told("added") \in Services /\ Told("appeared") \in Services
    BY Distinct DEF Services
  <2>2. PICK a, b \in Services : told' = told \o <<a>> \/ told' = told \o <<a, b>>
    BY <2>1 DEF Goes, Comes, Tells, Orders
  <2>3. told' = Append(told, a) \/ told' = Append(Append(told, a), b)
    BY <1>0, <2>2, Telling
  <2>4. CASE told' = Append(told, a)
    <3>1. Tidings({a})
      BY <2>4 DEF Tidings
    <3> QED
      BY <3>1
  <2>5. CASE told' = Append(Append(told, a), b)
    <3>1. Tidings({a, b})
      BY <2>5 DEF Tidings
    <3> QED
      BY <3>1
  <2> QED
    BY <2>3, <2>4, <2>5
<1>3. \A d \in Controllers : On(d) \cap M = {} /\ Off(d) \cap M = {}
  BY Distinct
<1>4. ASSUME missed' = {} PROVE \A d \in Controllers : Separated(told', On(d), Off(d), On(d))
  BY <1>0, <1>1, <1>2, <1>3, <1>4, TidingsOrder DEF BelievedWell
<1>5. ASSUME missed' = {} PROVE Believed \subseteq Believed'
  <2> SUFFICES ASSUME NEW e \in Believed PROVE e \in Believed'
    OBVIOUS
  <2>1. e \in Controllers /\ Preceded(told, Off(e), On(e)) /\ (e \in linked \/ Has(told, Off(e)))
    BY DEF Believed
  <2>2. Preceded(told', Off(e), On(e)) /\ (Has(told, Off(e)) => Has(told', Off(e)))
    BY <1>0, <1>2, <1>3, <2>1, TidingsOrder
  <2> QED
    BY <1>1, <1>5, <2>1, <2>2 DEF Believed
<1> QED
  BY <1>1, <1>4, <1>5, SameBelief

LEMMA LoadBelieved ==
    ASSUME BelievedWell, UNCHANGED <<linked, told, missed>>, UNCHANGED lockVars \/ wake_lock' <= 0
    PROVE  BelievedWell'
<1> SUFFICES ASSUME missed = {}
             PROVE  \E T \in SUBSET Believed' : IsFiniteSet(T) /\ (failed' \/ wake_lock' <= Cardinality(T))
  BY DEF BelievedWell
<1>1. Believed' = Believed
  BY DEF Believed
<1>2. PICK T \in SUBSET Believed : IsFiniteSet(T) /\ (failed \/ wake_lock <= Cardinality(T))
  BY DEF BelievedWell
<1>3. CASE UNCHANGED lockVars
  BY <1>1, <1>2, <1>3 DEF lockVars
<1>4. CASE wake_lock' <= 0
  <2>1. {} \in SUBSET Believed' /\ IsFiniteSet({}) /\ Cardinality({}) = 0
    BY FS_EmptySet
  <2> QED
    BY <1>4, <2>1
<1> QED
  BY <1>3, <1>4

LEMMA ConnectionsStep ==
    ASSUME ConnectionsInv, [ConnectionsNext]_connectionVars
    PROVE  ConnectionsInv'
<1>0. ToldOK /\ ObjectsKnown /\ DevicesTold /\ RecordsOK /\ LockTyped /\ BelievedWell /\ LockTyped'
  BY LockTypedStep DEF ConnectionsInv
<1> SUFFICES ToldOK' /\ ObjectsKnown' /\ DevicesTold' /\ RecordsOK' /\ BelievedWell'
  BY <1>0 DEF ConnectionsInv
<1>1. CASE UNCHANGED connectionVars
  <2> USE <1>1 DEF connectionVars, bluezVars, showVars, lockVars
  <2>1. ToldOK' /\ ObjectsKnown' /\ DevicesTold' /\ RecordsOK'
    BY <1>0 DEF ToldOK, ObjectsKnown, DevicesTold, RecordsOK, Shows
  <2> QED
    BY <1>0, <2>1, LoadBelieved
<1>2. CASE EnumerateLater
  <2>1. UNCHANGED <<linked, told, missed>> /\ UNCHANGED lockVars
    BY <1>2 DEF EnumerateLater, bluezVars
  <2> QED
    BY <1>0, <1>2, <2>1, EnumerationShows, LoadBelieved
<1>3. CASE LoadLock \/ UnloadLock
  <2>1. /\ UNCHANGED <<linked, untold, told, missed, service, manager_state, objects, items, _connections, active, source,
                       bubbles>>
        /\ wake_lock' <= 0
    BY <1>3 DEF LoadLock, UnloadLock, bluezVars, showVars
  <2>2. ToldOK' /\ ObjectsKnown' /\ DevicesTold' /\ RecordsOK'
    BY <1>0, <2>1 DEF ToldOK, ObjectsKnown, DevicesTold, RecordsOK, Shows
  <2> QED
    BY <1>0, <2>1, <2>2, LoadBelieved
<1>4. CASE \E d \in Controllers : BatteryUpdate(d)
  <2>1. /\ UNCHANGED <<linked, untold, told, missed, service, manager_state, objects, items, _connections, active, source>>
        /\ UNCHANGED lockVars /\ bubbles' \subseteq bubbles
    BY <1>4 DEF BatteryUpdate, bluezVars, showVars
  <2>2. ToldOK' /\ ObjectsKnown' /\ DevicesTold' /\ RecordsOK'
    BY <1>0, <2>1 DEF ToldOK, ObjectsKnown, DevicesTold, RecordsOK, Shows
  <2> QED
    BY <1>0, <2>1, <2>2, LoadBelieved
<1>5. CASE \E d \in Controllers : Links(d)
  BY <1>0, <1>5, LinkTold, LinkBelieved
<1>12. CASE \E d \in Controllers : ComesLinked(d)
  BY <1>0, <1>12, NewcomerTold, LinkBelieved
<1>13. CASE DeviceCreated
  <2>1. told # <<>> /\ told' = Tail(told) /\ UNCHANGED <<linked, missed>> /\ UNCHANGED lockVars /\ Head(told).what = "created"
    BY <1>13 DEF DeviceCreated, Handle
  <2>2. PICK d \in Controllers : Head(told) \in Created(d)
    BY <1>0, <2>1, FirstTold, Kinds
  <2>3. \A e \in Controllers : Head(told) \notin Off(e)
    BY <2>2, Distinct
  <2> QED
    BY <1>0, <1>13, <2>1, <2>3, CreationHandled, ServiceBelieved
<1>6. CASE \E d \in Controllers : Unlinks(d)
  BY <1>0, <1>6, UnlinkTold, LinkBelieved
<1>7. CASE Goes
  BY <1>0, <1>7, GoingTold, TidingsBelieved
<1>8. CASE Comes
  BY <1>0, <1>8, ComingTold, TidingsBelieved
<1>9. CASE \E b \in BOOLEAN : ConnectedChanges(b)
  BY <1>0, <1>9, ChangeHandled, ChangeBelieved
<1>10. CASE \E b \in BOOLEAN : AdapterEvent(b)
  <2>1. PICK b \in BOOLEAN : AdapterEvent(b)
    BY <1>10
  <2>2. /\ told # <<>> /\ told' = Tail(told) /\ UNCHANGED <<linked, missed>> /\ UNCHANGED lockVars
        /\ Head(told).what \in {"added", "removed"}
    BY <2>1 DEF AdapterEvent, Handle
  <2>3. \A e \in Controllers : Head(told) \notin Off(e)
    <3>1. Head(told) \in Services
      BY <1>0, <2>2, FirstTold, Kinds DEF Services
    <3> QED
      BY <3>1, Distinct
  <2> QED
    BY <1>0, <2>1, <2>2, <2>3, AdapterHandled, ServiceBelieved
<1>11. CASE \E b \in BOOLEAN : ManagerState(b)
  <2>1. PICK b \in BOOLEAN : ManagerState(b)
    BY <1>11
  <2>2. /\ told # <<>> /\ told' = Tail(told) /\ UNCHANGED <<linked, missed>> /\ UNCHANGED lockVars
        /\ Head(told).what \in {"appeared", "vanished"}
    BY <2>1 DEF ManagerState, Handle
  <2>3. \A e \in Controllers : Head(told) \notin Off(e)
    <3>1. Head(told) \in Services
      BY <1>0, <2>2, FirstTold, Kinds DEF Services
    <3> QED
      BY <3>1, Distinct
  <2> QED
    BY <1>0, <2>1, <2>2, <2>3, StateHandled, ServiceBelieved
<1> QED
  BY <1>1, <1>2, <1>3, <1>4, <1>5, <1>6, <1>7, <1>8, <1>9, <1>10, <1>11, <1>12, <1>13 DEF ConnectionsNext

LEMMA ConnectionsInvariant == Spec => []ConnectionsInv
<1>1. Init => ConnectionsInv
  <2> SUFFICES ASSUME ConnectionsInit PROVE ConnectionsInv
    BY DEF Init
  <2> DEFINE m == Told("appeared")
  <2>1. told = <<m>>
    BY DEF ConnectionsInit
  <2>2. m \in Appeared /\ m \in Services /\ m \in Rendering /\ m \notin Added \cup Removed \cup Vanished \cup Changes
    BY Distinct DEF Services
  <2>3. \A d \in Controllers : m \notin On(d) \cup Off(d)
    BY <2>2, Distinct
  <2> HIDE DEF m
  <2>4. DOMAIN told = {1} /\ told[1] = m /\ told \in Seq(Changes \cup Services)
    BY <2>1, <2>2
  <2>5. ToldOK
    BY <2>4 DEF ToldOK, ConnectionsInit
  <2>6. ObjectsKnown
    BY <2>2, <2>4 DEF ObjectsKnown, ConnectionsInit, Followed, Separated, Resolved, Has
  <2>7. DevicesTold
    <3>1. \A d \in Controllers : m \notin Added \cup Removed \cup Vanished \cup Created(d)
      BY <2>2, Distinct
    <3> QED
      BY <2>3, <2>4, <3>1 DEF DevicesTold, ConnectionsInit, Followed
  <2>8. RecordsOK
    BY <2>2, <2>4 DEF RecordsOK, ConnectionsInit, Has
  <2>9. LockTyped /\ BelievedWell
    <3>1. {} \in SUBSET Believed /\ IsFiniteSet({}) /\ Cardinality({}) = 0
      BY FS_EmptySet
    <3> QED
      <4>1. \A d \in Controllers : Separated(told, On(d), Off(d), On(d))
        BY <2>4 DEF Separated
      <4>2. wake_lock = 0 /\ suspended = FALSE /\ failed = FALSE
        BY DEF ConnectionsInit
      <4>3. BelievedWell
        BY <3>1, <4>1, <4>2 DEF BelievedWell
      <4>4. LockTyped
        <5>1. wake_lock \in Int
          BY <4>2
        <5>2. suspended \in BOOLEAN /\ failed \in BOOLEAN /\ ~suspended
          BY <4>2, Zenon
        <5> QED
          BY <5>1, <5>2 DEF LockTyped
      <4> QED
        BY <4>3, <4>4
  <2> QED
    BY <2>5, <2>6, <2>7, <2>8, <2>9 DEF ConnectionsInv
<1>2. ConnectionsInv /\ [Next]_vars => ConnectionsInv'
  BY GroupSteps, ConnectionsStep
<1> QED
  BY <1>1, <1>2, PTL DEF Spec

(* However the messages about devices, adapters and BlueZ itself are ordered, the icon, the
   tool tip, the menu and the bubbles show in the end no device that is not connected, and
   each one that is but for those that were when their objects came (ShowConnected,
   DisconnectItems, ConnectionNotifier). *)
THEOREM ShownInTheEnd == Spec => []ConnectionsShown
<1>1. ConnectionsInv => ConnectionsShown
  <2> SUFFICES ASSUME ConnectionsInv, told = <<>>, ~source
               PROVE  /\ Shows(_connections) /\ Shows(items)
                      /\ active <=> _connections # {}
                      /\ bubbles \subseteq linked \cup missed
    BY DEF ConnectionsShown
  <2>1. \A Y : ~Has(told, Y)
    BY DEF Has
  <2>2. linked \subseteq Controllers /\ RecordsOK
    BY DEF ConnectionsInv, ToldOK
  <2> QED
    BY <2>1, <2>2 DEF RecordsOK, Shows
<1> QED
  BY <1>1, ConnectionsInvariant, PTL

(* The screensaver is suspended for no more devices than the plugin believes connected, so
   that it is resumed with the last of them (GameControllerWakelock). *)
THEOREM ReleasedInTheEnd == Spec => []ScreensaverReleased
<1>1. ConnectionsInv => ScreensaverReleased
  <2> SUFFICES ASSUME ConnectionsInv, told = <<>>, suspended, linked = {}, ~failed, missed = {} PROVE FALSE
    BY DEF ScreensaverReleased
  <2>1. Believed = {}
    BY DEF Believed, Has
  <2>2. PICK T \in SUBSET Believed : failed \/ wake_lock <= Cardinality(T)
    BY DEF ConnectionsInv, BelievedWell
  <2>3. Cardinality(T) = 0
    BY <2>1, <2>2, FS_EmptySet
  <2> QED
    BY <2>2, <2>3 DEF ConnectionsInv, LockTyped
<1> QED
  BY <1>1, ConnectionsInvariant, PTL

(***************************************************************************)
(* Reconnection: what the applet has heard of adapters and devices.        *)
(***************************************************************************)
Messages == [what : {"Powered", "added", "removed"}, about : SUBSET Homes]
            \cup [what : {"appeared", "vanished", "created", "forgotten"}, about : SUBSET Recent]
Kind(what) == {m \in Messages : m.what = what}
Of(what, x) == {m \in Kind(what) : x \in m.about}
Rebuilding == Messages \ (Kind("Powered") \cup Kind("vanished"))

\* Of an adapter or device x, the last message that comes or goes says whether it is there;
\* where there is none, that is known.
HeardIn(q, x, come, gone, is, knows) ==
    /\ is => Followed(q, Of(gone, x), Of(come, x))
    /\ ~is => Followed(q, Of(come, x), Of(gone, x))
    /\ ~Has(q, Of(come, x) \cup Of(gone, x)) => (knows <=> is)

MessagesOK ==
    /\ messages \in Seq(Messages)
    /\ powered \subseteq here /\ here \subseteq Homes /\ present \subseteq Recent
    /\ up \in BOOLEAN /\ (~up => here = {})
    /\ up => Followed(messages, Kind("vanished"), Kind("appeared"))

ObjectsHeard ==
    /\ knownHomes \subseteq Homes /\ knownDevices \subseteq Recent
    /\ \A a \in Homes : HeardIn(messages, a, "added", "removed", a \in here, a \in knownHomes)
    /\ \A d \in Recent : HeardIn(messages, d, "created", "forgotten", d \in present, d \in knownDevices)

\* An adapter that was powered after it came tells it after it came.
PowerTold == \A a \in powered : ~late => Followed(messages, Of("added", a), Of("Powered", a))

TimerOK ==
    /\ event_source => autoconnect /\ state
    /\ died => event_source
    /\ autoconnect /\ state /\ powered # {} /\ ~late =>
         event_source \/ \E a \in Homes : Has(messages, Of("Powered", a))

\* The menu is as it would be built now, or will be built again.
Offer == IF status THEN Items(stored, knownHomes, knownDevices) ELSE {}
MenuOK == menu = Offer \/ Has(messages, Rebuilding)

ReconnectInv == MessagesOK /\ ObjectsHeard /\ PowerTold /\ TimerOK /\ MenuOK

\* Messages said in a row
LEMMA Saying ==
    ASSUME NEW S, NEW q \in Seq(S), NEW s \in Seq(S)
    PROVE  /\ q \o s \in Seq(S)
           /\ \A Y : Has(q \o s, Y) <=> Has(q, Y) \/ Has(s, Y)
           /\ \A X, Y : ~Has(s, X) /\ (Followed(q, X, Y) \/ Has(s, Y)) => Followed(q \o s, X, Y)
<1>1. /\ q \o s \in Seq(S) /\ Len(q) \in Nat /\ Len(s) \in Nat
      /\ DOMAIN q = 1 .. Len(q) /\ DOMAIN s = 1 .. Len(s) /\ DOMAIN (q \o s) = 1 .. (Len(q) + Len(s))
      /\ \A i \in 1 .. Len(q) : (q \o s)[i] = q[i]
      /\ \A i \in 1 .. Len(s) : (q \o s)[Len(q) + i] = s[i]
  OBVIOUS
<1>2. \A i \in 1 .. (Len(q) + Len(s)) :
        i \notin 1 .. Len(q) => i - Len(q) \in 1 .. Len(s) /\ (q \o s)[i] = s[i - Len(q)]
  <2> SUFFICES ASSUME NEW i \in 1 .. (Len(q) + Len(s)), i \notin 1 .. Len(q)
               PROVE  i - Len(q) \in 1 .. Len(s) /\ (q \o s)[i] = s[i - Len(q)]
    OBVIOUS
  <2>1. i - Len(q) \in 1 .. Len(s) /\ Len(q) + (i - Len(q)) = i
    BY <1>1
  <2> QED
    BY <1>1, <2>1
<1>3. \A i \in 1 .. Len(s) : Len(q) + i \in 1 .. (Len(q) + Len(s))
  BY <1>1
<1>4. \A Y : Has(q \o s, Y) <=> Has(q, Y) \/ Has(s, Y)
  <2> SUFFICES ASSUME NEW Y PROVE Has(q \o s, Y) <=> Has(q, Y) \/ Has(s, Y)
    OBVIOUS
  <2>1. Has(q \o s, Y) => Has(q, Y) \/ Has(s, Y)
    BY <1>1, <1>2 DEF Has
  <2>2. Has(q, Y) => Has(q \o s, Y)
    BY <1>1 DEF Has
  <2>3. Has(s, Y) => Has(q \o s, Y)
    BY <1>1, <1>3 DEF Has
  <2> QED
    BY <2>1, <2>2, <2>3
<1>5. ASSUME NEW X, NEW Y, ~Has(s, X), Followed(q, X, Y) \/ Has(s, Y) PROVE Followed(q \o s, X, Y)
  <2> SUFFICES ASSUME NEW i \in 1 .. (Len(q) + Len(s)), (q \o s)[i] \in X
               PROVE  \E j \in 1 .. (Len(q) + Len(s)) : j > i /\ (q \o s)[j] \in Y
    BY <1>1 DEF Followed
  <2>1. i \in 1 .. Len(q) /\ q[i] \in X
    BY <1>1, <1>2, <1>5 DEF Has
  <2>2. CASE Followed(q, X, Y)
    BY <1>1, <2>1, <2>2 DEF Followed
  <2>3. CASE Has(s, Y)
    <3>1. PICK k \in 1 .. Len(s) : s[k] \in Y
      BY <1>1, <2>3 DEF Has
    <3>2. Len(q) + k > i /\ (q \o s)[Len(q) + k] \in Y
      BY <1>1, <2>1, <3>1
    <3> QED
      BY <1>3, <3>2
  <2> QED
    BY <1>5, <2>2, <2>3
<1> QED
  BY <1>1, <1>4, <1>5

LEMMA HasThese ==
    ASSUME NEW Y
    PROVE  /\ \A a : Has(<<a>>, Y) <=> a \in Y
           /\ \A a, b : Has(<<a, b>>, Y) <=> a \in Y \/ b \in Y
<1>1. ASSUME NEW a PROVE Has(<<a>>, Y) <=> a \in Y
  BY DEF Has
<1>2. ASSUME NEW a, NEW b PROVE Has(<<a, b>>, Y) <=> a \in Y \/ b \in Y
  <2> DEFINE s == <<a, b>>
  <2>1. DOMAIN s = {1, 2} /\ s[1] = a /\ s[2] = b
    OBVIOUS
  <2> HIDE DEF s
  <2>2. Has(s, Y) <=> a \in Y \/ b \in Y
    BY <2>1 DEF Has
  <2> QED
    BY <2>2 DEF s
<1> QED
  BY <1>1, <1>2

\* A message is of one kind.
LEMMA MessageKinds ==
    ASSUME NEW what, NEW about,
           \/ what \in {"Powered", "added", "removed"} /\ about \subseteq Homes
           \/ what \in {"appeared", "vanished", "created", "forgotten"} /\ about \subseteq Recent
    PROVE  /\ Message(what, about) \in Messages
           /\ \A w : Message(what, about) \in Kind(w) <=> w = what
           /\ \A w, x : Message(what, about) \in Of(w, x) <=> w = what /\ x \in about
           /\ Message(what, about) \in Rebuilding <=> what \notin {"Powered", "vanished"}
<1>1. /\ Message(what, about) \in Messages /\ Message(what, about).what = what
      /\ Message(what, about).about = about
  BY DEF Message, Messages
<1> QED
  BY <1>1 DEF Kind, Of, Rebuilding

LEMMA HeardSaying ==
    ASSUME NEW q \in Seq(Messages), NEW s \in Seq(Messages), NEW x, NEW come, NEW gone,
           NEW is \in BOOLEAN, NEW was \in BOOLEAN, NEW knows \in BOOLEAN,
           HeardIn(q, x, come, gone, was, knows),
           is => ~Has(s, Of(gone, x)) /\ (was \/ Has(s, Of(come, x))),
           ~is => ~Has(s, Of(come, x)) /\ (~was \/ Has(s, Of(gone, x)))
    PROVE  HeardIn(q \o s, x, come, gone, is, knows)
<1> DEFINE C == Of(come, x)
           G == Of(gone, x)
<1>1. /\ was => Followed(q, G, C)
      /\ ~was => Followed(q, C, G)
      /\ ~Has(q, C \cup G) => (knows <=> was)
  BY DEF HeardIn
<1>2. /\ is => ~Has(s, G) /\ (was \/ Has(s, C))
      /\ ~is => ~Has(s, C) /\ (~was \/ Has(s, G))
  OBVIOUS
<1> HIDE DEF C, G
<1>3. is => Followed(q \o s, G, C)
  BY <1>1, <1>2, Saying
<1>4. ~is => Followed(q \o s, C, G)
  BY <1>1, <1>2, Saying
<1>5. ASSUME ~Has(q \o s, C \cup G) PROVE knows <=> is
  <2>1. ~Has(q, C \cup G) /\ ~Has(s, C \cup G)
    BY <1>5, Saying
  <2>2. ~Has(s, C) /\ ~Has(s, G)
    BY <2>1 DEF Has
  <2> QED
    BY <1>1, <1>2, <2>1, <2>2
<1> QED
  BY <1>3, <1>4, <1>5 DEF HeardIn, C, G

LEMMA HeardTaking ==
    ASSUME NEW q \in Seq(Messages), q # <<>>, NEW x, NEW come, NEW gone, come # gone,
           NEW is \in BOOLEAN, NEW knew \in BOOLEAN, NEW knows \in BOOLEAN,
           HeardIn(q, x, come, gone, is, knew),
           knows <=> (Head(q) \in Of(come, x) \/ (knew /\ Head(q) \notin Of(gone, x)))
    PROVE  HeardIn(Tail(q), x, come, gone, is, knows)
<1> DEFINE C == Of(come, x)
           G == Of(gone, x)
<1>1. /\ is => Followed(q, G, C)
      /\ ~is => Followed(q, C, G)
      /\ ~Has(q, C \cup G) => (knew <=> is)
  BY DEF HeardIn
<1>2. C \cap G = {}
  BY DEF Of, Kind
<1>3. knows <=> (Head(q) \in C \/ (knew /\ Head(q) \notin G))
  OBVIOUS
<1> HIDE DEF C, G
<1>4. /\ is => Followed(Tail(q), G, C) /\ (Head(q) \in G => Has(Tail(q), C))
      /\ ~is => Followed(Tail(q), C, G) /\ (Head(q) \in C => Has(Tail(q), G))
  BY <1>1, TailOrder
<1>5. ASSUME ~Has(Tail(q), C \cup G) PROVE knows <=> is
  <2>1. ~Has(Tail(q), C) /\ ~Has(Tail(q), G)
    BY <1>5 DEF Has
  <2>2. Has(q, C \cup G) => Head(q) \in C \cup G
    BY <1>5, TailOrder
  <2> QED
    BY <1>1, <1>2, <1>3, <1>4, <2>1, <2>2
<1> QED
  BY <1>4, <1>5 DEF HeardIn, C, G

\* An adapter that is powered and that the applet does not know yet will tell it.
LEMMA PowerToCome ==
    ASSUME NEW q \in Seq(Messages), NEW h, NEW k, NEW p \in SUBSET h, h \subseteq Homes,
           \A a \in Homes : HeardIn(q, a, "added", "removed", a \in h, a \in k),
           \A a \in p : Followed(q, Of("added", a), Of("Powered", a)), k \cap p = {}, p # {}
    PROVE  \E a \in Homes : Has(q, Of("Powered", a))
<1>1. PICK a \in p : a \notin k
  OBVIOUS
<1>2. a \in Homes /\ a \in h /\ HeardIn(q, a, "added", "removed", a \in h, a \in k)
  BY <1>1
<1>3. Has(q, Of("added", a) \cup Of("removed", a)) /\ Followed(q, Of("removed", a), Of("added", a))
  BY <1>1, <1>2 DEF HeardIn
<1>4. Has(q, Of("added", a))
  BY <1>3 DEF Has, Followed
<1>5. Has(q, Of("Powered", a))
  BY <1>4 DEF Has, Followed
<1> QED
  BY <1>2, <1>5

LEMMA MessagesTaken ==
    ASSUME MessagesOK, ObjectsHeard, PowerTold, messages # <<>>, messages' = Tail(messages), UNCHANGED bluezState,
           UNCHANGED late, knownHomes' \subseteq Homes, knownDevices' \subseteq Recent,
           \A a \in Homes : a \in knownHomes' <=>
             Head(messages) \in Of("added", a) \/ (a \in knownHomes /\ Head(messages) \notin Of("removed", a)),
           \A d \in Recent : d \in knownDevices' <=>
             Head(messages) \in Of("created", d) \/ (d \in knownDevices /\ Head(messages) \notin Of("forgotten", d))
    PROVE  MessagesOK' /\ ObjectsHeard' /\ PowerTold'
<1>0. messages \in Seq(Messages) /\ messages' \in Seq(Messages)
      /\ up' = up /\ here' = here /\ powered' = powered /\ present' = present /\ late' = late
  BY DEF MessagesOK, bluezState
<1>1. \A X, Y : Followed(messages, X, Y) => Followed(messages', X, Y)
  BY <1>0, TailOrder
<1>2. MessagesOK'
  BY <1>0, <1>1 DEF MessagesOK
<1>3. ASSUME NEW a \in Homes PROVE HeardIn(messages', a, "added", "removed", a \in here, a \in knownHomes')
  <2> DEFINE is == a \in here
             knew == a \in knownHomes
             knows == a \in knownHomes'
  <2>1. is \in BOOLEAN /\ knew \in BOOLEAN /\ knows \in BOOLEAN
        /\ HeardIn(messages, a, "added", "removed", is, knew)
        /\ (knows <=> (Head(messages) \in Of("added", a) \/ (knew /\ Head(messages) \notin Of("removed", a))))
    BY DEF ObjectsHeard
  <2> HIDE DEF is, knew, knows
  <2>2. HeardIn(messages', a, "added", "removed", is, knows)
    BY <1>0, <2>1, HeardTaking
  <2> QED
    BY <2>2 DEF is, knows
<1>4. ASSUME NEW d \in Recent PROVE HeardIn(messages', d, "created", "forgotten", d \in present, d \in knownDevices')
  <2> DEFINE is == d \in present
             knew == d \in knownDevices
             knows == d \in knownDevices'
  <2>1. is \in BOOLEAN /\ knew \in BOOLEAN /\ knows \in BOOLEAN
        /\ HeardIn(messages, d, "created", "forgotten", is, knew)
        /\ (knows <=> (Head(messages) \in Of("created", d) \/ (knew /\ Head(messages) \notin Of("forgotten", d))))
    BY DEF ObjectsHeard
  <2> HIDE DEF is, knew, knows
  <2>2. HeardIn(messages', d, "created", "forgotten", is, knows)
    BY <1>0, <2>1, HeardTaking
  <2> QED
    BY <2>2 DEF is, knows
<1>5. ObjectsHeard'
  BY <1>0, <1>3, <1>4 DEF ObjectsHeard
<1>6. PowerTold'
  BY <1>0, <1>1 DEF PowerTold
<1> QED
  BY <1>2, <1>5, <1>6

\* Where reading the adapters finds none powered though one is, that is still to be heard.
LEMMA ReadingPower ==
    ASSUME MessagesOK', ObjectsHeard', PowerTold', UNCHANGED <<powered, here, knownHomes>>,
           FALSE \in AnyPowered(knownHomes), powered' # {}, ~late'
    PROVE  \E a \in Homes : Has(messages', Of("Powered", a))
<1>1. knownHomes \cap powered = {}
  BY DEF AnyPowered
<1>2. /\ messages' \in Seq(Messages) /\ powered' \in SUBSET here' /\ here' \subseteq Homes
      /\ \A a \in Homes : HeardIn(messages', a, "added", "removed", a \in here', a \in knownHomes')
      /\ \A a \in powered' : Followed(messages', Of("added", a), Of("Powered", a))
      /\ knownHomes' \cap powered' = {}
  BY <1>1 DEF MessagesOK, ObjectsHeard, PowerTold
<1> QED
  BY <1>2, PowerToCome

LEMMA TimerStarts ==
    ASSUME MessagesOK', ObjectsHeard', PowerTold', UNCHANGED <<powered, here, knownHomes>>,
           autoconnect', state', event_source' \in AnyPowered(knownHomes), ~died'
    PROVE  TimerOK'
<1>1. event_source' \in BOOLEAN
  BY DEF AnyPowered
<1>2. CASE event_source' = TRUE
  BY <1>2 DEF TimerOK
<1>3. CASE event_source' = FALSE
  BY <1>3, ReadingPower DEF TimerOK
<1> QED
  BY <1>1, <1>2, <1>3

LEMMA StateTaken ==
    ASSUME ReconnectInv, NEW on \in BOOLEAN, StateChanges(on)
    PROVE  ReconnectInv'
<1>0. MessagesOK /\ ObjectsHeard /\ PowerTold /\ TimerOK /\ MenuOK
  BY DEF ReconnectInv
<1>1. /\ messages # <<>> /\ messages' = Tail(messages) /\ messages \in Seq(Messages) /\ Head(messages) \in Messages
      /\ Head(messages).what = (IF on THEN "appeared" ELSE "vanished")
      /\ UNCHANGED <<knownHomes, knownDevices, status, autoconnect, late, stored>> /\ UNCHANGED bluezState
      /\ state' = on
  BY <1>0, Taking DEF StateChanges, Takes, MessagesOK
<1>2. \A w, x : w \notin {"appeared", "vanished"} => Head(messages) \notin Of(w, x)
  BY <1>1 DEF Of, Kind
<1>3. MessagesOK' /\ ObjectsHeard' /\ PowerTold'
  <2>1. knownHomes' \subseteq Homes /\ knownDevices' \subseteq Recent
    BY <1>0, <1>1 DEF ObjectsHeard
  <2> QED
    BY <1>0, <1>1, <1>2, <2>1, MessagesTaken
<1>4. TimerOK'
  <2>1. CASE ~autoconnect
    <3>1. ~event_source /\ event_source' = event_source /\ died' = died
      BY <1>0, <2>1 DEF StateChanges, TimerOK, timerVars
    <3> QED
      BY <1>0, <1>1, <2>1, <3>1 DEF TimerOK
  <2>2. CASE autoconnect /\ on
    <3>1. event_source' \in AnyPowered(knownHomes) /\ died' = FALSE
      BY <2>2 DEF StateChanges, StartTimer
    <3> QED
      BY <1>1, <1>3, <2>2, <3>1, TimerStarts DEF bluezState
  <2>3. CASE autoconnect /\ ~on
    <3>1. event_source' = FALSE /\ died' = FALSE
      BY <2>3 DEF StateChanges, StopTimer
    <3> QED
      BY <1>1, <2>3, <3>1 DEF TimerOK
  <2> QED
    BY <2>1, <2>2, <2>3
<1>5. MenuOK'
  <2>1. CASE on
    BY <1>1, <2>1 DEF StateChanges, Rebuild, MenuOK, Offer
  <2>2. CASE ~on
    <3>1. menu' = {}
      BY <2>2 DEF StateChanges
    <3>2. CASE Has(messages', Rebuilding)
      BY <3>2 DEF MenuOK
    <3>3. CASE ~Has(messages', Rebuilding)
      <4>1. Head(messages) \in Kind("vanished")
        BY <1>1, <2>2 DEF Kind
      <4>2. up => Has(messages', Kind("appeared"))
        BY <1>0, <1>1, <4>1, TailOrder DEF MessagesOK
      <4>3. /\ Kind("appeared") \subseteq Rebuilding
            /\ \A a : Of("added", a) \cup Of("removed", a) \subseteq Rebuilding
        BY DEF Kind, Of, Rebuilding
      <4>4. here' = {}
        BY <1>0, <1>1, <3>3, <4>2, <4>3 DEF Has, MessagesOK, bluezState
      <4>5. \A a \in Homes : a \notin knownHomes'
        BY <1>3, <3>3, <4>3, <4>4 DEF Has, ObjectsHeard, HeardIn
      <4>6. knownHomes' = {}
        BY <1>3, <4>5 DEF ObjectsHeard
      <4>7. Offer' = {}
        BY <4>6 DEF Offer, Items
      <4> QED
        BY <3>1, <4>7 DEF MenuOK
    <3> QED
      BY <3>2, <3>3
  <2> QED
    BY <2>1, <2>2
<1> QED
  BY <1>3, <1>4, <1>5 DEF ReconnectInv

LEMMA PoweredTaken ==
    ASSUME ReconnectInv, PoweredChanges
    PROVE  ReconnectInv'
<1>0. MessagesOK /\ ObjectsHeard /\ PowerTold /\ TimerOK /\ MenuOK
  BY DEF ReconnectInv
<1>1. /\ messages # <<>> /\ messages' = Tail(messages) /\ messages \in Seq(Messages) /\ Head(messages) \in Messages
      /\ Head(messages).what = "Powered"
      /\ UNCHANGED <<knownHomes, knownDevices, status, autoconnect, state, late, stored, menu>>
      /\ UNCHANGED bluezState
  BY <1>0, Taking DEF PoweredChanges, Takes, MessagesOK
<1>2. \A w, x : w # "Powered" => Head(messages) \notin Of(w, x)
  BY <1>1 DEF Of, Kind
<1>3. MessagesOK' /\ ObjectsHeard' /\ PowerTold'
  <2>1. knownHomes' \subseteq Homes /\ knownDevices' \subseteq Recent
    BY <1>0, <1>1 DEF ObjectsHeard
  <2> QED
    BY <1>0, <1>1, <1>2, <2>1, MessagesTaken
<1>4. TimerOK'
  <2>1. CASE ~autoconnect \/ (~state /\ event_source' = event_source /\ died' = died)
    <3>1. ~event_source /\ event_source' = event_source /\ died' = died
      BY <1>0, <2>1 DEF PoweredChanges, TimerOK, timerVars
    <3> QED
      BY <1>0, <1>1, <2>1, <3>1 DEF TimerOK
  <2>2. CASE autoconnect /\ FALSE \in AnyPowered(knownHomes) /\ event_source' = FALSE /\ died' = FALSE
    BY <1>1, <1>3, <2>2, ReadingPower DEF TimerOK, bluezState
  <2>3. CASE autoconnect /\ state /\ event_source' \in AnyPowered(knownHomes) /\ died' = FALSE
    BY <1>1, <1>3, <2>3, TimerStarts DEF bluezState
  <2> QED
    BY <2>1, <2>2, <2>3 DEF PoweredChanges, OnPowered, StartTimer, StopTimer, timerVars
<1>5. MenuOK'
  <2>1. Offer' = Offer
    BY <1>1 DEF Offer
  <2>2. Head(messages) \notin Rebuilding
    BY <1>1 DEF Rebuilding, Kind
  <2>3. Has(messages, Rebuilding) => Has(messages', Rebuilding)
    BY <1>1, <2>2, TailOrder
  <2> QED
    BY <1>0, <1>1, <2>1, <2>3 DEF MenuOK
<1> QED
  BY <1>3, <1>4, <1>5 DEF ReconnectInv

LEMMA ObjectsTaken ==
    ASSUME ReconnectInv, ObjectsChange
    PROVE  ReconnectInv'
<1>0. MessagesOK /\ ObjectsHeard /\ PowerTold /\ TimerOK /\ MenuOK
  BY DEF ReconnectInv
<1>1. /\ messages # <<>> /\ messages' = Tail(messages) /\ messages \in Seq(Messages) /\ Head(messages) \in Messages
      /\ Head(messages).what \in {"added", "removed", "created", "forgotten"}
      /\ UNCHANGED <<status, autoconnect, state, event_source, died, late, stored>> /\ UNCHANGED bluezState
  BY <1>0, Taking DEF ObjectsChange, Takes, MessagesOK, timerVars
<1>2. \A w, x : Head(messages) \in Of(w, x) <=> Head(messages).what = w /\ x \in Head(messages).about
  BY <1>1 DEF Of, Kind
<1>3. /\ \/ Head(messages).what = "added" /\ knownHomes' = knownHomes \cup Head(messages).about
         \/ Head(messages).what = "removed" /\ knownHomes' = knownHomes \ Head(messages).about
         \/ Head(messages).what \in {"created", "forgotten"} /\ knownHomes' = knownHomes
      /\ \/ Head(messages).what = "created" /\ knownDevices' = knownDevices \cup Head(messages).about
         \/ Head(messages).what = "forgotten" /\ knownDevices' = knownDevices \ Head(messages).about
         \/ Head(messages).what \in {"added", "removed"} /\ knownDevices' = knownDevices
  BY DEF ObjectsChange, Takes
<1>4. MessagesOK' /\ ObjectsHeard' /\ PowerTold'
  <2>1. /\ Head(messages).what = "added" => Head(messages).about \subseteq Homes
        /\ Head(messages).what = "created" => Head(messages).about \subseteq Recent
    BY <1>1 DEF Messages
  <2>2. knownHomes' \subseteq Homes /\ knownDevices' \subseteq Recent
    BY <1>0, <1>3, <2>1 DEF ObjectsHeard
  <2>3. \A a \in Homes : a \in knownHomes' <=>
          Head(messages) \in Of("added", a) \/ (a \in knownHomes /\ Head(messages) \notin Of("removed", a))
    BY <1>2, <1>3
  <2>4. \A d \in Recent : d \in knownDevices' <=>
          Head(messages) \in Of("created", d) \/ (d \in knownDevices /\ Head(messages) \notin Of("forgotten", d))
    BY <1>2, <1>3
  <2> QED
    BY <1>0, <1>1, <2>2, <2>3, <2>4, MessagesTaken
<1>5. TimerOK'
  <2>1. \A a \in Homes : Has(messages, Of("Powered", a)) => Has(messages', Of("Powered", a))
    BY <1>1, <1>2, TailOrder
  <2> QED
    BY <1>0, <1>1, <2>1 DEF TimerOK, bluezState
<1>6. MenuOK'
  BY <1>1 DEF MenuOK, Offer, ObjectsChange, Rebuild
<1> QED
  BY <1>4, <1>5, <1>6 DEF ReconnectInv

\* The steps of the applet that handle no message
LEMMA AppletActs ==
    ASSUME ReconnectInv, UNCHANGED <<messages, knownHomes, knownDevices, state, late>>, UNCHANGED bluezState,
           menu' = Offer' \/ UNCHANGED <<menu, stored, status>>,
           \/ UNCHANGED <<autoconnect, event_source>>
           \/ ~event_source' /\ (~autoconnect' \/ ~state)
           \/ autoconnect' /\ state /\ event_source' \in AnyPowered(knownHomes),
           died' = FALSE \/ (UNCHANGED event_source /\ (died' = died \/ event_source))
    PROVE  ReconnectInv'
<1>0. MessagesOK /\ ObjectsHeard /\ PowerTold /\ TimerOK /\ MenuOK
  BY DEF ReconnectInv
<1>1. MessagesOK' /\ ObjectsHeard' /\ PowerTold'
  BY <1>0 DEF MessagesOK, ObjectsHeard, PowerTold, bluezState
<1>2. TimerOK'
  <2>1. CASE UNCHANGED <<autoconnect, event_source>>
    BY <1>0, <2>1 DEF TimerOK, bluezState
  <2>2. CASE ~event_source' /\ (~autoconnect' \/ ~state)
    BY <1>0, <2>2 DEF TimerOK
  <2>3. CASE autoconnect' /\ state /\ event_source' \in AnyPowered(knownHomes) /\ died' = FALSE
    BY <1>1, <2>3, TimerStarts DEF bluezState
  <2>4. CASE autoconnect' /\ state /\ event_source' \in AnyPowered(knownHomes) /\ event_source
    <3>1. CASE died' = FALSE
      BY <2>3, <2>4, <3>1
    <3>2. CASE UNCHANGED event_source
      BY <1>0, <2>4, <3>2 DEF TimerOK, bluezState
    <3> QED
      BY <3>1, <3>2
  <2>5. CASE autoconnect' /\ state /\ event_source' \in AnyPowered(knownHomes) /\ died' = died /\ ~event_source
    BY <1>0, <1>1, <2>5, TimerStarts DEF TimerOK, bluezState
  <2> QED
    BY <2>1, <2>2, <2>3, <2>4, <2>5
<1>3. MenuOK'
  BY <1>0 DEF MenuOK, Offer
<1> QED
  BY <1>1, <1>2, <1>3 DEF ReconnectInv

LEMMA BlueZSays ==
    ASSUME ReconnectInv, NEW s \in Seq(Messages), messages' = messages \o s, UNCHANGED appletState,
           powered' \subseteq here', here' \subseteq Homes, present' \subseteq Recent,
           up' \in BOOLEAN, ~up' => here' = {},
           up' => ~Has(s, Kind("vanished")) /\ (up \/ Has(s, Kind("appeared"))),
           late => late',
           \A a \in Homes : /\ a \in here' => ~Has(s, Of("removed", a)) /\ (a \in here \/ Has(s, Of("added", a)))
                            /\ a \notin here' => ~Has(s, Of("added", a)) /\ (a \notin here \/ Has(s, Of("removed", a))),
           \A d \in Recent :
             /\ d \in present' => ~Has(s, Of("forgotten", d)) /\ (d \in present \/ Has(s, Of("created", d)))
             /\ d \notin present' => ~Has(s, Of("created", d)) /\ (d \notin present \/ Has(s, Of("forgotten", d))),
           ~late' => \A a \in powered' : ~Has(s, Of("added", a)) /\ (a \in powered \/ Has(s, Of("Powered", a)))
    PROVE  ReconnectInv'
<1>0. /\ MessagesOK /\ ObjectsHeard /\ PowerTold /\ TimerOK /\ MenuOK /\ messages \in Seq(Messages)
      /\ knownHomes' = knownHomes /\ knownDevices' = knownDevices
  BY DEF ReconnectInv, MessagesOK, appletState
<1>1. /\ messages' \in Seq(Messages)
      /\ \A Y : Has(messages', Y) <=> Has(messages, Y) \/ Has(s, Y)
      /\ \A X, Y : ~Has(s, X) /\ (Followed(messages, X, Y) \/ Has(s, Y)) => Followed(messages', X, Y)
  BY <1>0, Saying
<1>2. MessagesOK'
  <2>1. up' => Followed(messages', Kind("vanished"), Kind("appeared"))
    BY <1>0, <1>1 DEF MessagesOK
  <2> QED
    BY <1>1, <2>1 DEF MessagesOK
<1>3. ASSUME NEW a \in Homes PROVE HeardIn(messages', a, "added", "removed", a \in here', a \in knownHomes')
  <2> DEFINE is == a \in here'
             was == a \in here
             knows == a \in knownHomes
  <2>1. /\ is \in BOOLEAN /\ was \in BOOLEAN /\ knows \in BOOLEAN
        /\ HeardIn(messages, a, "added", "removed", was, knows)
        /\ is => ~Has(s, Of("removed", a)) /\ (was \/ Has(s, Of("added", a)))
        /\ ~is => ~Has(s, Of("added", a)) /\ (~was \/ Has(s, Of("removed", a)))
    BY <1>0 DEF ObjectsHeard
  <2> HIDE DEF is, was, knows
  <2>2. HeardIn(messages \o s, a, "added", "removed", is, knows)
    BY <1>0, <2>1, HeardSaying
  <2> QED
    BY <1>0, <2>2 DEF is, knows
<1>4. ASSUME NEW d \in Recent PROVE HeardIn(messages', d, "created", "forgotten", d \in present', d \in knownDevices')
  <2> DEFINE is == d \in present'
             was == d \in present
             knows == d \in knownDevices
  <2>1. /\ is \in BOOLEAN /\ was \in BOOLEAN /\ knows \in BOOLEAN
        /\ HeardIn(messages, d, "created", "forgotten", was, knows)
        /\ is => ~Has(s, Of("forgotten", d)) /\ (was \/ Has(s, Of("created", d)))
        /\ ~is => ~Has(s, Of("created", d)) /\ (~was \/ Has(s, Of("forgotten", d)))
    BY <1>0 DEF ObjectsHeard
  <2> HIDE DEF is, was, knows
  <2>2. HeardIn(messages \o s, d, "created", "forgotten", is, knows)
    BY <1>0, <2>1, HeardSaying
  <2> QED
    BY <1>0, <2>2 DEF is, knows
<1>5. ObjectsHeard'
  BY <1>0, <1>3, <1>4 DEF ObjectsHeard
<1>6. PowerTold'
  BY <1>0, <1>1 DEF PowerTold
<1>7. TimerOK'
  <2>1. UNCHANGED <<autoconnect, state, event_source, died>>
    BY DEF appletState, timerVars
  <2>2. ASSUME powered' # {}, ~late' PROVE powered # {} \/ \E a \in Homes : Has(s, Of("Powered", a))
    BY <2>2
  <2> QED
    BY <1>0, <1>1, <2>1, <2>2 DEF TimerOK
<1>8. MenuOK'
  <2>1. Offer' = Offer /\ menu' = menu
    BY DEF appletState, Offer
  <2> QED
    BY <1>0, <1>1, <2>1 DEF MenuOK
<1> QED
  BY <1>2, <1>5, <1>6, <1>7, <1>8 DEF ReconnectInv

\* The messages in the steps of BlueZ
LEMMA RowsTyped ==
    ASSUME NEW S, NEW a \in S
    PROVE  /\ <<a>> \in Seq(S)
           /\ \A b \in S : <<a, b>> \in Seq(S)
OBVIOUS

LEMMA PowersSays ==
    ASSUME ReconnectInv, NEW a \in Homes, Powers(a)
    PROVE  ReconnectInv'
<1> DEFINE m == Message("Powered", {a})
<1>1. /\ a \in here /\ messages' = messages \o <<m>> /\ UNCHANGED <<up, here, present, late>> /\ UNCHANGED appletState
      /\ powered' = (IF a \in powered THEN powered \ {a} ELSE powered \cup {a})
  BY DEF Powers, Says
<1>2. m \in Messages /\ \A w : (m \in Kind(w) <=> w = "Powered") /\ \A x : m \in Of(w, x) <=> w = "Powered" /\ x \in {a}
  BY MessageKinds
<1> HIDE DEF m
<1>3. <<m>> \in Seq(Messages) /\ \A Y : Has(<<m>>, Y) <=> m \in Y
  BY <1>2, RowsTyped, HasThese
<1>4. /\ powered \subseteq here /\ here \subseteq Homes /\ present \subseteq Recent /\ up \in BOOLEAN /\ (~up => here = {})
  BY DEF ReconnectInv, MessagesOK
<1>5. \A b \in powered' : b \in powered \/ b = a
  BY <1>1
<1>6. powered' \subseteq here' /\ here' \subseteq Homes /\ present' \subseteq Recent
  BY <1>1, <1>4, <1>5
<1>7. \A w, x : Has(<<m>>, Of(w, x)) <=> w = "Powered" /\ x = a
  BY <1>2, <1>3
<1>8. ~Has(<<m>>, Kind("vanished"))
  BY <1>2, <1>3
<1>9. \A b : ~Has(<<m>>, Of("removed", b)) /\ ~Has(<<m>>, Of("added", b))
  BY <1>7
<1>10. \A b : ~Has(<<m>>, Of("forgotten", b)) /\ ~Has(<<m>>, Of("created", b))
  BY <1>7
<1>11. \A b \in powered' : b \in powered \/ Has(<<m>>, Of("Powered", b))
  BY <1>5, <1>7
<1> QED
  BY <1>1, <1>3, <1>4, <1>6, <1>8, <1>9, <1>10, <1>11, BlueZSays

LEMMA LeavesSays ==
    ASSUME ReconnectInv, NEW a \in Homes, AdapterLeaves(a)
    PROVE  ReconnectInv'
<1> DEFINE D == {d \in present : HomeOf[d] = a}
           m == Message("forgotten", D)
           n == Message("removed", {a})
<1>0. /\ powered \subseteq here /\ here \subseteq Homes /\ present \subseteq Recent /\ up \in BOOLEAN /\ (~up => here = {})
  BY DEF ReconnectInv, MessagesOK
<1>1. /\ messages' = messages \o <<m, n>> /\ UNCHANGED <<up, late>> /\ UNCHANGED appletState
      /\ here' = here \ {a} /\ powered' = powered \ {a}
  BY DEF AdapterLeaves, Says, Gone
<1>2. \A d : d \in present' <=> d \in present /\ d \notin D
  BY DEF AdapterLeaves
<1>3. D \subseteq Recent
  BY <1>0
<1> HIDE DEF D
<1>4. /\ m \in Messages
      /\ \A w : (m \in Kind(w) <=> w = "forgotten") /\ \A x : m \in Of(w, x) <=> w = "forgotten" /\ x \in D
  BY <1>3, MessageKinds
<1>5. /\ n \in Messages
      /\ \A w : (n \in Kind(w) <=> w = "removed") /\ \A x : n \in Of(w, x) <=> w = "removed" /\ x \in {a}
  BY MessageKinds
<1> HIDE DEF m, n
<1>6. <<m, n>> \in Seq(Messages) /\ \A Y : Has(<<m, n>>, Y) <=> m \in Y \/ n \in Y
  BY <1>4, <1>5, RowsTyped, HasThese
<1>7. powered' \subseteq here' /\ here' \subseteq Homes /\ present' \subseteq Recent /\ (~up' => here' = {})
  BY <1>0, <1>1, <1>2
<1>8. ~Has(<<m, n>>, Kind("vanished"))
  BY <1>4, <1>5, <1>6
<1>9. \A b \in Homes :
        /\ b \in here' => ~Has(<<m, n>>, Of("removed", b)) /\ (b \in here \/ Has(<<m, n>>, Of("added", b)))
        /\ b \notin here' => ~Has(<<m, n>>, Of("added", b)) /\ (b \notin here \/ Has(<<m, n>>, Of("removed", b)))
  <2>1. \A w, b : Has(<<m, n>>, Of(w, b)) <=> (w = "forgotten" /\ b \in D) \/ (w = "removed" /\ b = a)
    BY <1>4, <1>5, <1>6
  <2>2. \A b : ~Has(<<m, n>>, Of("added", b)) /\ (Has(<<m, n>>, Of("removed", b)) <=> b = a)
    BY <2>1
  <2> QED
    BY <1>1, <2>2
<1>10. \A d \in Recent :
         /\ d \in present' => ~Has(<<m, n>>, Of("forgotten", d)) /\ (d \in present \/ Has(<<m, n>>, Of("created", d)))
         /\ d \notin present' =>
              ~Has(<<m, n>>, Of("created", d)) /\ (d \notin present \/ Has(<<m, n>>, Of("forgotten", d)))
  BY <1>2, <1>4, <1>5, <1>6
<1>11. \A b \in powered' : ~Has(<<m, n>>, Of("added", b)) /\ b \in powered
  BY <1>1, <1>4, <1>5, <1>6
<1> QED
  BY <1>0, <1>1, <1>6, <1>7, <1>8, <1>9, <1>10, <1>11, BlueZSays

LEMMA ArrivesSays ==
    ASSUME ReconnectInv, NEW a \in Homes, AdapterArrives(a)
    PROVE  ReconnectInv'
<1> DEFINE D == present' \ present
           m == Message("added", {a})
           n == Message("created", D)
<1>0. /\ powered \subseteq here /\ here \subseteq Homes /\ present \subseteq Recent /\ up \in BOOLEAN /\ (~up => here = {})
  BY DEF ReconnectInv, MessagesOK
<1>1. /\ messages' = messages \o <<m, n>> /\ UNCHANGED up /\ UNCHANGED appletState /\ up /\ a \notin here
      /\ here' = here \cup {a} /\ powered' \in {powered, powered \cup {a}} /\ late' = (late \/ powered' # powered)
  BY DEF AdapterArrives, Says
<1>2. present \subseteq present' /\ present' \subseteq Recent
  BY <1>0 DEF AdapterArrives
<1>3. /\ m \in Messages
      /\ \A w : (m \in Kind(w) <=> w = "added") /\ \A x : m \in Of(w, x) <=> w = "added" /\ x \in {a}
  BY MessageKinds
<1>4. /\ n \in Messages
      /\ \A w : (n \in Kind(w) <=> w = "created") /\ \A x : n \in Of(w, x) <=> w = "created" /\ x \in D
  BY <1>2, MessageKinds
<1>5. \A d : d \in D <=> d \in present' /\ d \notin present
  OBVIOUS
<1> HIDE DEF m, n, D
<1>6. <<m, n>> \in Seq(Messages) /\ \A Y : Has(<<m, n>>, Y) <=> m \in Y \/ n \in Y
  BY <1>3, <1>4, RowsTyped, HasThese
<1>7. powered' \subseteq here' /\ here' \subseteq Homes /\ (~up' => here' = {})
  BY <1>0, <1>1
<1>8. ~Has(<<m, n>>, Kind("vanished"))
  BY <1>3, <1>4, <1>6
<1>9. \A b \in Homes :
        /\ b \in here' => ~Has(<<m, n>>, Of("removed", b)) /\ (b \in here \/ Has(<<m, n>>, Of("added", b)))
        /\ b \notin here' => ~Has(<<m, n>>, Of("added", b)) /\ (b \notin here \/ Has(<<m, n>>, Of("removed", b)))
  BY <1>1, <1>3, <1>4, <1>6
<1>10. \A d \in Recent :
         /\ d \in present' => ~Has(<<m, n>>, Of("forgotten", d)) /\ (d \in present \/ Has(<<m, n>>, Of("created", d)))
         /\ d \notin present' =>
              ~Has(<<m, n>>, Of("created", d)) /\ (d \notin present \/ Has(<<m, n>>, Of("forgotten", d)))
  BY <1>2, <1>3, <1>4, <1>5, <1>6
<1>11. ~late' => ~late /\ powered' = powered
  BY <1>1
<1>12. ~late' => \A b \in powered' : ~Has(<<m, n>>, Of("added", b)) /\ b \in powered
  BY <1>0, <1>1, <1>3, <1>4, <1>6, <1>11
<1> QED
  BY <1>0, <1>1, <1>2, <1>6, <1>7, <1>8, <1>9, <1>10, <1>11, <1>12, BlueZSays

LEMMA DeviceSays ==
    ASSUME ReconnectInv, NEW d \in Recent, DeviceChanges(d)
    PROVE  ReconnectInv'
<1>0. /\ powered \subseteq here /\ here \subseteq Homes /\ present \subseteq Recent /\ up \in BOOLEAN /\ (~up => here = {})
  BY DEF ReconnectInv, MessagesOK
<1>1. PICK w \in {"forgotten", "created"} :
        /\ messages' = messages \o <<Message(w, {d})>>
        /\ IF w = "created" THEN d \notin present /\ present' = present \cup {d}
           ELSE d \in present /\ present' = present \ {d}
  BY DEF DeviceChanges, Says
<1>2. UNCHANGED <<up, here, powered, late>> /\ UNCHANGED appletState
  BY DEF DeviceChanges
<1> DEFINE m == Message(w, {d})
<1>3. m \in Messages /\ \A v : (m \in Kind(v) <=> v = w) /\ \A x : m \in Of(v, x) <=> v = w /\ x \in {d}
  BY MessageKinds
<1>4. messages' = messages \o <<m>>
  BY <1>1
<1> HIDE DEF m
<1>5. <<m>> \in Seq(Messages) /\ \A Y : Has(<<m>>, Y) <=> m \in Y
  BY <1>3, RowsTyped, HasThese
<1>6. present' \subseteq Recent /\ ~Has(<<m>>, Kind("vanished"))
  BY <1>0, <1>1, <1>3, <1>5
<1>7. \A u, x : Has(<<m>>, Of(u, x)) <=> u = w /\ x = d
  BY <1>3, <1>5
<1>8. \A b : ~Has(<<m>>, Of("removed", b)) /\ ~Has(<<m>>, Of("added", b))
  BY <1>1, <1>7
<1>9. \A e \in Recent :
        /\ e \in present' => ~Has(<<m>>, Of("forgotten", e)) /\ (e \in present \/ Has(<<m>>, Of("created", e)))
        /\ e \notin present' => ~Has(<<m>>, Of("created", e)) /\ (e \notin present \/ Has(<<m>>, Of("forgotten", e)))
  <2>1. CASE w = "created"
    BY <1>1, <1>7, <2>1
  <2>2. CASE w = "forgotten"
    BY <1>1, <1>7, <2>2
  <2> QED
    BY <2>1, <2>2
<1> QED
  BY <1>0, <1>2, <1>4, <1>5, <1>6, <1>8, <1>9, BlueZSays

LEMMA StopsSays ==
    ASSUME ReconnectInv, Stops
    PROVE  ReconnectInv'
<1> DEFINE m == Message("forgotten", present)
           n == Message("removed", here)
           v == Message("vanished", {})
<1>0. /\ powered \subseteq here /\ here \subseteq Homes /\ present \subseteq Recent /\ up \in BOOLEAN /\ (~up => here = {})
  BY DEF ReconnectInv, MessagesOK
<1>1. /\ up' = FALSE /\ here' = {} /\ powered' = {} /\ present' = {} /\ UNCHANGED late /\ UNCHANGED appletState
      /\ \E s \in {<<v>> \o <<m, n>>, <<m, n>> \o <<v>>} : messages' = messages \o s
  BY DEF Stops, Says
<1>2. /\ m \in Messages
      /\ \A w : (m \in Kind(w) <=> w = "forgotten") /\ \A x : m \in Of(w, x) <=> w = "forgotten" /\ x \in present
  BY <1>0, MessageKinds
<1>3. /\ n \in Messages
      /\ \A w : (n \in Kind(w) <=> w = "removed") /\ \A x : n \in Of(w, x) <=> w = "removed" /\ x \in here
  BY <1>0, MessageKinds
<1>4. /\ v \in Messages
      /\ \A w : (v \in Kind(w) <=> w = "vanished") /\ \A x : v \in Of(w, x) <=> w = "vanished" /\ x \in {}
  BY MessageKinds
<1> HIDE DEF m, n, v
<1>5. PICK s : messages' = messages \o s /\ s \in {<<v>> \o <<m, n>>, <<m, n>> \o <<v>>}
  BY <1>1
<1>6. s \in Seq(Messages) /\ \A Y : Has(s, Y) <=> m \in Y \/ n \in Y \/ v \in Y
  <2>1. /\ <<v>> \in Seq(Messages) /\ \A Y : Has(<<v>>, Y) <=> v \in Y
        /\ <<m, n>> \in Seq(Messages) /\ \A Y : Has(<<m, n>>, Y) <=> m \in Y \/ n \in Y
    BY <1>2, <1>3, <1>4, RowsTyped, HasThese
  <2>2. CASE s = <<v>> \o <<m, n>>
    BY <2>1, <2>2, Saying
  <2>3. CASE s = <<m, n>> \o <<v>>
    BY <2>1, <2>3, Saying
  <2> QED
    BY <1>5, <2>2, <2>3
<1>7. \A w, x : Has(s, Of(w, x)) <=> (w = "forgotten" /\ x \in present) \/ (w = "removed" /\ x \in here)
  BY <1>2, <1>3, <1>4, <1>6
<1>8. \A b \in Homes : ~Has(s, Of("added", b)) /\ (b \notin here \/ Has(s, Of("removed", b)))
  BY <1>7
<1>9. \A d \in Recent : ~Has(s, Of("created", d)) /\ (d \notin present \/ Has(s, Of("forgotten", d)))
  BY <1>7
<1> QED
  BY <1>1, <1>5, <1>6, <1>8, <1>9, BlueZSays

LEMMA StartsSays ==
    ASSUME ReconnectInv, Starts
    PROVE  ReconnectInv'
<1> DEFINE m == Message("appeared", {})
<1>0. /\ powered \subseteq here /\ here \subseteq Homes /\ present \subseteq Recent /\ up \in BOOLEAN /\ (~up => here = {})
  BY DEF ReconnectInv, MessagesOK
<1>1. /\ messages' = messages \o <<m>> /\ ~up /\ up' = TRUE /\ UNCHANGED <<here, powered, present, late>>
      /\ UNCHANGED appletState
  BY DEF Starts, Says
<1>2. m \in Messages /\ \A w : (m \in Kind(w) <=> w = "appeared") /\ \A x : m \in Of(w, x) <=> w = "appeared" /\ x \in {}
  BY MessageKinds
<1> HIDE DEF m
<1>3. <<m>> \in Seq(Messages) /\ \A Y : Has(<<m>>, Y) <=> m \in Y
  BY <1>2, RowsTyped, HasThese
<1>4. ~Has(<<m>>, Kind("vanished")) /\ Has(<<m>>, Kind("appeared"))
  BY <1>2, <1>3
<1>5. \A w, x : ~Has(<<m>>, Of(w, x))
  BY <1>2, <1>3
<1>6. powered' \subseteq here' /\ here' \subseteq Homes /\ present' \subseteq Recent
  BY <1>0, <1>1
<1> QED
  BY <1>1, <1>3, <1>4, <1>5, <1>6, BlueZSays

LEMMA ReconnectStep ==
    ASSUME ReconnectInv, [ReconnectNext]_reconnectVars
    PROVE  ReconnectInv'
<1>1. CASE UNCHANGED reconnectVars
  BY <1>1, AppletActs DEF reconnectVars, bluezState
<1>2. CASE PowerState
  BY <1>2, AppletActs DEF PowerState, Offer, bluezState, timerVars
<1>3. CASE \E d \in Recent : Run(d) \/ Connect(d)
  <2>1. /\ UNCHANGED <<messages, knownHomes, knownDevices, state, status, late, autoconnect, event_source>>
        /\ UNCHANGED bluezState
        /\ Rebuild(knownHomes, knownDevices) \/ UNCHANGED <<menu, stored>>
        /\ died' = died \/ event_source
    BY <1>3 DEF Run, TimerRuns, Connect, Notify, bluezState, timerVars
  <2> QED
    BY <2>1, AppletActs DEF Rebuild, Offer
<1>4. CASE \E b \in BOOLEAN : LoadAutoConnect(b)
  <2>1. PICK b \in BOOLEAN : LoadAutoConnect(b)
    BY <1>4
  <2>2. CASE b /\ state
    BY <2>1, <2>2, AppletActs DEF LoadAutoConnect, StartTimer
  <2>3. CASE ~(b /\ state)
    BY <2>1, <2>3, AppletActs DEF LoadAutoConnect, StopTimer
  <2> QED
    BY <2>2, <2>3
<1>5. CASE IntervalChanges
  BY <1>5, AppletActs DEF IntervalChanges, StartTimer, timerVars
<1> QED
  BY <1>1, <1>2, <1>3, <1>4, <1>5, StateTaken, PoweredTaken, ObjectsTaken, PowersSays, LeavesSays, ArrivesSays,
     DeviceSays, StopsSays, StartsSays DEF ReconnectNext

LEMMA ReconnectInvariant == Spec => []ReconnectInv
<1>1. Init => ReconnectInv
  <2> SUFFICES ASSUME ReconnectInit PROVE ReconnectInv
    BY DEF Init
  <2> DEFINE m == Message("appeared", {})
  <2>1. messages = <<m>>
    BY DEF ReconnectInit
  <2>2. /\ m \in Messages /\ m \in Rebuilding /\ m \notin Kind("vanished")
        /\ \A w, x : m \notin Of(w, x)
    BY MessageKinds
  <2> HIDE DEF m
  <2>3. messages \in Seq(Messages) /\ \A Y : Has(messages, Y) <=> m \in Y
    BY <2>1, <2>2, RowsTyped, HasThese
  <2>4. \A X, Y : m \notin X => Followed(messages, X, Y)
    BY <2>3 DEF Followed, Has
  <2>5. MessagesOK
    BY <2>2, <2>3, <2>4 DEF MessagesOK, ReconnectInit
  <2>6. ObjectsHeard
    BY <2>2, <2>4 DEF ObjectsHeard, HeardIn, ReconnectInit
  <2>7. PowerTold /\ TimerOK
    BY DEF PowerTold, TimerOK, ReconnectInit
  <2>8. MenuOK
    BY <2>2, <2>3 DEF MenuOK
  <2> QED
    BY <2>5, <2>6, <2>7, <2>8 DEF ReconnectInv
<1>2. ReconnectInv /\ [Next]_vars => ReconnectInv'
  BY GroupSteps, ReconnectStep
<1> QED
  BY <1>1, <1>2, PTL DEF Spec

(* AutoConnect's timer runs while there is a powered adapter, unless one came powered or the
   last try raised, and RecentConns offers the last connections whose adapter and device
   there are, once what BlueZ has told about both is handled, in whatever order it came
   (AutoConnect, RecentConns). *)
THEOREM OfferedAgain == Spec => []ReconnectOffered
<1>1. ReconnectInv => ReconnectOffered
  <2> SUFFICES ASSUME ReconnectInv, messages = <<>>
               PROVE  /\ autoconnect /\ state /\ powered # {} /\ ~late /\ ~died => TimerRuns
                      /\ TimerRuns => autoconnect /\ state
                      /\ menu = IF status THEN Items(stored, here, present) ELSE {}
    BY DEF ReconnectOffered
  <2>1. \A Y : ~Has(messages, Y)
    BY DEF Has
  <2>2. \A a \in Homes : a \in knownHomes <=> a \in here
    BY <2>1 DEF ReconnectInv, ObjectsHeard, HeardIn
  <2>3. \A d \in Recent : d \in knownDevices <=> d \in present
    BY <2>1 DEF ReconnectInv, ObjectsHeard, HeardIn
  <2>4. knownHomes = here
    BY <2>2 DEF ReconnectInv, MessagesOK, ObjectsHeard
  <2>5. menu = IF status THEN Items(stored, knownHomes, knownDevices) ELSE {}
    BY <2>1 DEF ReconnectInv, MenuOK, Offer
  <2>6. TimerOK
    BY DEF ReconnectInv
  <2>7. knownDevices = present
    BY <2>3 DEF ReconnectInv, MessagesOK, ObjectsHeard
  <2> QED
    BY <2>1, <2>4, <2>5, <2>6, <2>7 DEF TimerOK, TimerRuns
<1> QED
  BY <1>1, ReconnectInvariant, PTL

(***************************************************************************)
(* Traffic: no monitor is left of a device or a name that is connected     *)
(* again, so that each monitor counts for its own device.                  *)
(***************************************************************************)
Monitors == [dev : Peers, name : Names, last : Nat]
Interfaces == [dev : Peers, name : Names]
Apart(m, k) == m.dev # k.dev /\ m.name # k.name

UsageTyped ==
    /\ owner \in [Names -> Peers \cup {Nobody}] /\ bytes \in [Names -> Nat]
    /\ monitors \in Seq(Monitors) /\ interfaces \in Seq(Interfaces)
    /\ usage \in [Peers -> Nat] /\ moved \in [Peers -> Nat]
    /\ listed \subseteq Peers /\ overlap \in BOOLEAN
    /\ ~active_dialog => DOMAIN rows = {}

\* One monitor, or one to be made, of each device and of each name
AllApart(q, p) ==
    /\ \A i, j \in DOMAIN q : i # j => Apart(q[i], q[j])
    /\ \A i, j \in DOMAIN p : i # j => Apart(p[i], p[j])
    /\ \A i \in DOMAIN q, j \in DOMAIN p : Apart(q[i], p[j])

\* The interface is the device's own, and what it has counted beyond the monitor's last look
\* is not in the device's usage yet.
Owes(m, last) ==
    /\ owner[m.name] \in {m.dev, Nobody} /\ last <= bytes[m.name]
    /\ usage[m.dev] + (bytes[m.name] - last) <= moved[m.dev]
AllOwe ==
    /\ \A d \in Peers : usage[d] <= moved[d]
    /\ \A i \in DOMAIN monitors : Owes(monitors[i], monitors[i].last)
    /\ \A i \in DOMAIN interfaces : Owes(interfaces[i], 0)

\* Shown(d), of the monitors of a sequence
ShownIn(q, d) ==
    LET its == {i \in DOMAIN q : q[i].dev = d}
    IN  IF its = {} THEN Nobody ELSE q[Min(its)].name
RowsShown == \A d \in DOMAIN rows : rows[d] = ShownIn(monitors, d)

UsageInv == UsageTyped /\ (~overlap => AllApart(monitors, interfaces) /\ AllOwe /\ RowsShown)

\* What the dialog shows of a device with one monitor, and of one with none
LEMMA ShowsMonitor ==
    ASSUME NEW q \in Seq(Monitors), NEW i \in DOMAIN q, \A j \in DOMAIN q : j # i => q[j].dev # q[i].dev
    PROVE  ShownIn(q, q[i].dev) = q[i].name
<1>1. {j \in DOMAIN q : q[j].dev = q[i].dev} = {i}
  OBVIOUS
<1>2. i \in Int
  OBVIOUS
<1>3. Min({i}) = i
  BY <1>2 DEF Min
<1> QED
  BY <1>1, <1>3 DEF ShownIn

LEMMA ShowsNobody ==
    ASSUME NEW q, NEW d, \A j \in DOMAIN q : q[j].dev # d
    PROVE  ShownIn(q, d) = Nobody
BY DEF ShownIn

\* The same monitors show the same.
LEMMA ShowsAlike ==
    ASSUME NEW q \in Seq(Monitors), NEW r \in Seq(Monitors), NEW d,
           \A i, j \in DOMAIN q : i # j => q[i].dev # q[j].dev,
           \A i, j \in DOMAIN r : i # j => r[i].dev # r[j].dev,
           \A i \in DOMAIN q : q[i].dev = d => \E j \in DOMAIN r : r[j].dev = d /\ r[j].name = q[i].name,
           \A i \in DOMAIN r : r[i].dev = d => \E j \in DOMAIN q : q[j].dev = d
    PROVE  ShownIn(q, d) = ShownIn(r, d)
<1>1. CASE \E i \in DOMAIN q : q[i].dev = d
  <2>1. PICK i \in DOMAIN q : q[i].dev = d
    BY <1>1
  <2>2. PICK j \in DOMAIN r : r[j].dev = d /\ r[j].name = q[i].name
    BY <2>1
  <2>3. ShownIn(q, d) = q[i].name
    BY <2>1, ShowsMonitor
  <2>4. ShownIn(r, d) = r[j].name
    BY <2>2, ShowsMonitor
  <2> QED
    BY <2>2, <2>3, <2>4
<1>2. CASE ~ \E i \in DOMAIN q : q[i].dev = d
  BY <1>2, ShowsNobody
<1> QED
  BY <1>1, <1>2

\* A monitor is removed.
LEMMA Removing ==
    ASSUME NEW S, NEW q \in Seq(S), NEW i \in DOMAIN q
    PROVE  /\ RemoveAt(q, i) \in Seq(S) /\ Len(RemoveAt(q, i)) = Len(q) - 1
           /\ \A k \in DOMAIN RemoveAt(q, i) :
                LET j == IF k < i THEN k ELSE k + 1 IN j \in DOMAIN q /\ j # i /\ RemoveAt(q, i)[k] = q[j]
           /\ \A k, l \in DOMAIN RemoveAt(q, i) :
                k # l => (IF k < i THEN k ELSE k + 1) # (IF l < i THEN l ELSE l + 1)
           /\ \A j \in DOMAIN q : j # i => \E k \in DOMAIN RemoveAt(q, i) : RemoveAt(q, i)[k] = q[j]
<1> DEFINE a == SubSeq(q, 1, i - 1)
           b == SubSeq(q, i + 1, Len(q))
           r == a \o b
<1>1. Len(q) \in Nat /\ DOMAIN q = 1 .. Len(q) /\ i \in 1 .. Len(q)
  OBVIOUS
<1>2. /\ a \in Seq(S) /\ Len(a) = i - 1 /\ \A k \in 1 .. (i - 1) : a[k] = q[k]
  BY <1>1
<1>3. /\ b \in Seq(S) /\ Len(b) = Len(q) - i /\ \A k \in 1 .. (Len(q) - i) : b[k] = q[i + k]
  BY <1>1
<1> HIDE DEF a, b
<1>4. /\ r \in Seq(S) /\ DOMAIN r = 1 .. (Len(q) - 1) /\ Len(r) = Len(q) - 1
      /\ \A k \in 1 .. (Len(q) - 1) : r[k] = IF k < i THEN a[k] ELSE b[k - (i - 1)]
  <2>1. /\ r \in Seq(S) /\ DOMAIN r = 1 .. (Len(a) + Len(b))
        /\ \A k \in 1 .. (Len(a) + Len(b)) : r[k] = IF k <= Len(a) THEN a[k] ELSE b[k - Len(a)]
    BY <1>2, <1>3
  <2>2. Len(a) + Len(b) = Len(q) - 1
    BY <1>1, <1>2, <1>3
  <2>3. \A k \in 1 .. (Len(q) - 1) : k <= Len(a) <=> k < i
    BY <1>1, <1>2
  <2>4. \A p, s \in Seq(S) : Len(p \o s) = Len(p) + Len(s)
    OBVIOUS
  <2>5. Len(r) = Len(q) - 1
    BY <1>2, <1>3, <2>2, <2>4
  <2> QED
    BY <1>2, <2>1, <2>2, <2>3, <2>5
<1>5. \A k \in 1 .. (Len(q) - 1) : r[k] = q[IF k < i THEN k ELSE k + 1]
  <2> SUFFICES ASSUME NEW k \in 1 .. (Len(q) - 1) PROVE r[k] = q[IF k < i THEN k ELSE k + 1]
    OBVIOUS
  <2>1. CASE k < i
    <3>1. k \in 1 .. (i - 1)
      BY <1>1, <2>1
    <3> QED
      BY <1>2, <1>4, <2>1, <3>1
  <2>2. CASE ~(k < i)
    <3>1. k - (i - 1) \in 1 .. (Len(q) - i) /\ i + (k - (i - 1)) = k + 1
      BY <1>1, <2>2
    <3> QED
      BY <1>3, <1>4, <2>2, <3>1
  <2> QED
    BY <2>1, <2>2
<1>6. r = RemoveAt(q, i)
  BY DEF RemoveAt, a, b
<1> HIDE DEF r
<1>7. \A k \in 1 .. (Len(q) - 1) : (IF k < i THEN k ELSE k + 1) \in 1 .. Len(q) /\ (IF k < i THEN k ELSE k + 1) # i
  BY <1>1
<1>8. \A k, l \in 1 .. (Len(q) - 1) : k # l => (IF k < i THEN k ELSE k + 1) # (IF l < i THEN l ELSE l + 1)
  BY <1>1
<1>9. ASSUME NEW j \in 1 .. Len(q), j # i PROVE \E k \in 1 .. (Len(q) - 1) : r[k] = q[j]
  <2>1. CASE j < i
    <3>1. j \in 1 .. (Len(q) - 1)
      BY <1>1, <2>1
    <3> QED
      BY <1>5, <2>1, <3>1
  <2>2. CASE ~(j < i)
    <3>1. j - 1 \in 1 .. (Len(q) - 1) /\ ~(j - 1 < i) /\ (j - 1) + 1 = j
      BY <1>1, <1>9, <2>2
    <3>2. r[j - 1] = q[j]
      BY <1>5, <3>1
    <3> QED
      BY <3>1, <3>2
  <2> QED
    BY <2>1, <2>2
<1> QED
  BY <1>1, <1>4, <1>5, <1>6, <1>7, <1>8, <1>9

\* A monitor looks at its interface.
LEMMA Noting ==
    ASSUME NEW q \in Seq(Monitors), NEW i \in DOMAIN q, NEW x \in Nat
    PROVE  [q EXCEPT ![i].last = x] \in Seq(Monitors)
<1>1. q[i] \in Monitors
  OBVIOUS
<1>2. [q[i] EXCEPT !.last = x] \in Monitors
  BY <1>1 DEF Monitors
<1> QED
  BY <1>2

LEMMA TrafficTyped ==
    ASSUME UsageTyped, [UsageNext]_usageVars
    PROVE  UsageTyped'
<1>0. /\ owner \in [Names -> Peers \cup {Nobody}] /\ bytes \in [Names -> Nat]
      /\ monitors \in Seq(Monitors) /\ interfaces \in Seq(Interfaces)
      /\ usage \in [Peers -> Nat] /\ moved \in [Peers -> Nat]
      /\ listed \subseteq Peers /\ overlap \in BOOLEAN
  BY DEF UsageTyped
<1>m. ASSUME NEW d \in Peers, NEW n \in Names, MonitorInterface(d, n), UNCHANGED active_dialog
      PROVE  monitors' \in Seq(Monitors) /\ (~active_dialog' => DOMAIN rows' = {})
  <2>1. [dev |-> d, name |-> n, last |-> 0] \in Monitors
    BY DEF Monitors
  <2>2. monitors' \in Seq(Monitors)
    BY <1>0, <1>m, <2>1, Appending DEF MonitorInterface
  <2> QED
    BY <1>m, <2>2 DEF MonitorInterface, UsageTyped
<1>1. CASE UNCHANGED usageVars
  BY <1>1 DEF usageVars, UsageTyped
<1>2. CASE OnInterface
  <2>1. /\ interfaces # <<>> /\ interfaces' = Tail(interfaces)
        /\ UNCHANGED <<owner, bytes, usage, listed, active_dialog, loaded, moved, overlap>>
        /\ MonitorInterface(Head(interfaces).dev, Head(interfaces).name) \/ UNCHANGED <<monitors, rows>>
    BY <1>2 DEF OnInterface
  <2>2. interfaces' \in Seq(Interfaces) /\ Head(interfaces) \in Interfaces
    BY <1>0, <2>1, Taking
  <2>3. Head(interfaces).dev \in Peers /\ Head(interfaces).name \in Names
    BY <2>2 DEF Interfaces
  <2>4. monitors' \in Seq(Monitors) /\ (~active_dialog' => DOMAIN rows' = {})
    BY <1>m, <2>1, <2>3 DEF UsageTyped
  <2> QED
    BY <2>1, <2>2, <2>4 DEF UsageTyped
<1>3. CASE activate_ui
  BY <1>3 DEF activate_ui, UsageTyped
<1>4. CASE on_response
  BY <1>4 DEF on_response, Closed, UsageTyped
<1>5. CASE \E i \in 1 .. MaxMonitors : Poll(i)
  <2>1. PICK i \in DOMAIN monitors : Poll(i)
    BY <1>5 DEF Poll
  <2>2. monitors[i].dev \in Peers /\ monitors[i].name \in Names /\ monitors[i].last \in Nat
    <3>1. monitors[i] \in Monitors
      BY <1>0
    <3> QED
      BY <3>1 DEF Monitors
  <2>3. bytes[monitors[i].name] \in Nat /\ Grown(monitors[i]) \in Nat
    BY <1>0, <2>2 DEF Grown
  <2>4. CASE /\ monitors' = [monitors EXCEPT ![i].last = bytes[monitors[i].name]]
             /\ usage' = [usage EXCEPT ![monitors[i].dev] = @ + Grown(monitors[i])]
             /\ listed' = listed \cup {monitors[i].dev} /\ UNCHANGED rows
    <3>1. monitors' \in Seq(Monitors)
      BY <1>0, <2>3, <2>4, Noting
    <3>2. usage' \in [Peers -> Nat]
      BY <1>0, <2>2, <2>3, <2>4
    <3> QED
      BY <2>1, <2>2, <2>4, <3>1, <3>2 DEF Poll, UsageTyped
  <2>5. CASE monitors' = RemoveAt(monitors, i) /\ RowRemoved(monitors[i].dev) /\ UNCHANGED <<usage, listed>>
    <3>1. monitors' \in Seq(Monitors)
      BY <1>0, <2>5, Removing
    <3>2. UNCHANGED active_dialog /\ (~active_dialog => UNCHANGED rows)
      BY <2>1, <2>5 DEF Poll, RowRemoved, UsageTyped
    <3> QED
      BY <2>1, <2>5, <3>1, <3>2 DEF Poll, UsageTyped
  <2> QED
    BY <2>1, <2>4, <2>5 DEF Poll
<1>6. ASSUME NEW d \in Peers, on_reset(d) PROVE UsageTyped'
  <2>1. usage' \in [Peers -> Nat]
    BY <1>0, <1>6 DEF on_reset
  <2>2. moved' \in [Peers -> Nat]
    BY <1>0, <1>6 DEF on_reset
  <2> QED
    BY <1>6, <2>1, <2>2 DEF on_reset, UsageTyped
<1>7. ASSUME NEW n \in Names, NEW d \in Peers, Opens(n, d) PROVE UsageTyped'
  <2>1. owner' \in [Names -> Peers \cup {Nobody}] /\ bytes' \in [Names -> Nat]
    BY <1>0, <1>7 DEF Opens
  <2> DEFINE x == [dev |-> d, name |-> n]
  <2>2. x \in Interfaces /\ (interfaces' = Append(interfaces, x) \/ interfaces' = interfaces)
    BY <1>7 DEF Interfaces, Opens
  <2> HIDE DEF x
  <2>3. interfaces' \in Seq(Interfaces)
    <3>1. Append(interfaces, x) \in Seq(Interfaces) /\ interfaces \in Seq(Interfaces)
      BY <1>0, <2>2, Appending
    <3> QED
      BY <2>2, <3>1
  <2>4. monitors' \in Seq(Monitors) /\ (~active_dialog' => DOMAIN rows' = {})
    BY <1>m, <1>7 DEF Opens, UsageTyped
  <2>5. overlap' \in BOOLEAN
    BY <1>7 DEF Opens
  <2>6. UNCHANGED <<usage, listed, moved>>
    BY <1>7 DEF Opens
  <2> QED
    BY <1>0, <2>1, <2>3, <2>4, <2>5, <2>6 DEF UsageTyped
<1>8. CASE \E n \in Names : Closes(n)
  BY <1>8 DEF Closes, UsageTyped
<1>9. CASE \E n \in Names : Moves(n)
  <2>1. PICK n \in Names : Moves(n)
    BY <1>9
  <2>2. owner[n] \in Peers
    BY <1>0, <2>1 DEF Moves
  <2>3. bytes' \in [Names -> Nat] /\ moved' \in [Peers -> Nat]
    BY <1>0, <2>1, <2>2 DEF Moves
  <2> QED
    BY <2>1, <2>3 DEF Moves, UsageTyped
<1>10. CASE \E on \in BOOLEAN : Load(on)
  BY <1>10 DEF Load, Closed, UsageTyped
<1> QED
  BY <1>1, <1>2, <1>3, <1>4, <1>5, <1>6, <1>7, <1>8, <1>9, <1>10 DEF UsageNext

\* Where each monitor is of a device and a name of its own
LEMMA ApartGrows ==
    ASSUME NEW q \in Seq(Monitors), NEW p, AllApart(q, p), NEW m \in Monitors,
           \A i \in DOMAIN q : Apart(q[i], m), \A i \in DOMAIN p : Apart(m, p[i])
    PROVE  AllApart(Append(q, m), p)
<1>1. \A i \in DOMAIN Append(q, m) : (i \in DOMAIN q /\ Append(q, m)[i] = q[i]) \/ (i = Len(q) + 1 /\ Append(q, m)[i] = m)
  BY Appending
<1>2. \A i \in DOMAIN q : Apart(m, q[i])
  BY DEF Apart
<1> QED
  BY <1>1, <1>2 DEF AllApart

LEMMA ApartWaits ==
    ASSUME NEW q, NEW p \in Seq(Interfaces), AllApart(q, p), NEW x \in Interfaces,
           \A i \in DOMAIN q : Apart(q[i], x), \A i \in DOMAIN p : Apart(x, p[i])
    PROVE  AllApart(q, Append(p, x))
<1>1. \A i \in DOMAIN Append(p, x) : (i \in DOMAIN p /\ Append(p, x)[i] = p[i]) \/ (i = Len(p) + 1 /\ Append(p, x)[i] = x)
  BY Appending
<1>2. \A i \in DOMAIN p : Apart(p[i], x)
  BY DEF Apart
<1> QED
  BY <1>1, <1>2 DEF AllApart

LEMMA MonitorAdded ==
    ASSUME UsageTyped, RowsShown, NEW d \in Peers, NEW n \in Names, MonitorInterface(d, n), UNCHANGED active_dialog,
           AllApart(monitors, interfaces), \A i \in DOMAIN monitors : monitors[i].dev # d
    PROVE  RowsShown'
<1>1. CASE ~active_dialog
  BY <1>1 DEF UsageTyped, MonitorInterface, RowsShown
<1>2. CASE active_dialog
  <2> DEFINE m == [dev |-> d, name |-> n, last |-> 0]
  <2>1. m \in Monitors /\ m.dev = d /\ m.name = n
    BY DEF Monitors
  <2>2. monitors \in Seq(Monitors) /\ monitors' = Append(monitors, m)
    BY DEF UsageTyped, MonitorInterface
  <2>3. rows' = With(rows, Row(d, n))
    BY <1>2 DEF MonitorInterface
  <2> HIDE DEF m
  <2>4. DOMAIN rows' = DOMAIN rows \cup {d} /\ rows'[d] = n /\ \A e \in DOMAIN rows : e # d => rows'[e] = rows[e]
    BY <2>3 DEF With, Row
  <2>5. /\ monitors' \in Seq(Monitors) /\ DOMAIN monitors' = DOMAIN monitors \cup {Len(monitors) + 1}
        /\ monitors'[Len(monitors) + 1] = m /\ \A i \in DOMAIN monitors : monitors'[i] = monitors[i]
    BY <2>1, <2>2, Appending
  <2>6. /\ \A i, j \in DOMAIN monitors : i # j => monitors[i].dev # monitors[j].dev
        /\ \A i, j \in DOMAIN monitors' : i # j => monitors'[i].dev # monitors'[j].dev
    BY <2>1, <2>5 DEF AllApart, Apart
  <2>7. ShownIn(monitors', d) = n
    BY <2>1, <2>5, <2>6, ShowsMonitor
  <2>8. ASSUME NEW e, e # d PROVE ShownIn(monitors, e) = ShownIn(monitors', e)
    <3>1. \A i \in DOMAIN monitors : i \in DOMAIN monitors' /\ monitors'[i] = monitors[i]
      BY <2>5
    <3>2. \A i \in DOMAIN monitors' : monitors'[i].dev = e => i \in DOMAIN monitors
      BY <2>1, <2>5, <2>8
    <3>3. \A i \in DOMAIN monitors :
            monitors[i].dev = e => \E j \in DOMAIN monitors' : monitors'[j].dev = e /\ monitors'[j].name = monitors[i].name
      BY <3>1
    <3>4. \A i \in DOMAIN monitors' : monitors'[i].dev = e => \E j \in DOMAIN monitors : monitors[j].dev = e
      BY <3>1, <3>2
    <3> QED
      BY <2>2, <2>5, <2>6, <3>3, <3>4, ShowsAlike
  <2> QED
    BY <2>4, <2>7, <2>8 DEF RowsShown
<1> QED
  BY <1>1, <1>2

LEMMA InterfaceHeard ==
    ASSUME UsageInv, ~overlap, OnInterface
    PROVE  AllApart(monitors', interfaces') /\ AllOwe' /\ RowsShown'
<1> DEFINE x == Head(interfaces)
<1>0. /\ UsageTyped /\ AllApart(monitors, interfaces) /\ AllOwe /\ RowsShown
      /\ monitors \in Seq(Monitors) /\ interfaces \in Seq(Interfaces)
      /\ UNCHANGED <<owner, bytes, usage, moved, active_dialog>> /\ interfaces # <<>> /\ interfaces' = Tail(interfaces)
      /\ MonitorInterface(x.dev, x.name) \/ UNCHANGED <<monitors, rows>>
  BY DEF UsageInv, UsageTyped, OnInterface
<1>1. /\ x \in Interfaces /\ x = interfaces[1] /\ 1 \in DOMAIN interfaces /\ interfaces' \in Seq(Interfaces)
      /\ \A i \in DOMAIN interfaces' : i + 1 \in DOMAIN interfaces /\ i + 1 # 1 /\ interfaces'[i] = interfaces[i + 1]
  <2>1. \A i \in DOMAIN Tail(interfaces) : i + 1 # 1
    BY <1>0, Taking
  <2> QED
    BY <1>0, <2>1, Taking
<1>2. x.dev \in Peers /\ x.name \in Names
  BY <1>1 DEF Interfaces
<1> HIDE DEF x
<1>3. \A i, j \in DOMAIN interfaces' : i # j => i + 1 # j + 1
  BY <1>1
<1>4. /\ AllApart(monitors, interfaces')
      /\ \A i \in DOMAIN monitors : Apart(monitors[i], x)
      /\ \A i \in DOMAIN interfaces' : Apart(x, interfaces'[i])
  BY <1>0, <1>1, <1>3 DEF AllApart
<1>5. \A i \in DOMAIN interfaces' : Owes(interfaces'[i], 0)
  BY <1>0, <1>1 DEF AllOwe
<1>6. CASE UNCHANGED <<monitors, rows>>
  <2>1. RowsShown'
    BY <1>0, <1>6 DEF RowsShown
  <2>2. AllOwe'
    BY <1>0, <1>5, <1>6 DEF AllOwe, Owes
  <2> QED
    BY <1>4, <1>6, <2>1, <2>2
<1>7. CASE MonitorInterface(x.dev, x.name)
  <2> DEFINE m == [dev |-> x.dev, name |-> x.name, last |-> 0]
  <2>1. m \in Monitors /\ m.dev = x.dev /\ m.name = x.name /\ m.last = 0
    BY <1>2 DEF Monitors
  <2>2. monitors' = Append(monitors, m)
    BY <1>7 DEF MonitorInterface
  <2> HIDE DEF m
  <2>3. AllApart(monitors', interfaces')
    <3>1. /\ \A i \in DOMAIN monitors : Apart(monitors[i], m)
          /\ \A i \in DOMAIN interfaces' : Apart(m, interfaces'[i])
      BY <1>4, <2>1 DEF Apart
    <3> QED
      BY <1>0, <1>4, <2>1, <2>2, <3>1, ApartGrows
  <2>4. RowsShown'
    BY <1>0, <1>2, <1>4, <1>7, MonitorAdded DEF Apart
  <2>5. \A i \in DOMAIN monitors' : (i \in DOMAIN monitors /\ monitors'[i] = monitors[i]) \/ monitors'[i] = m
    BY <1>0, <2>1, <2>2, Appending
  <2>6. Owes(x, 0)
    BY <1>0, <1>1 DEF AllOwe
  <2>7. Owes(m, m.last)
    BY <2>1, <2>6 DEF Owes
  <2>8. AllOwe'
    BY <1>0, <1>5, <2>5, <2>7 DEF AllOwe, Owes
  <2> QED
    BY <2>3, <2>4, <2>8
<1> QED
  BY <1>0, <1>6, <1>7

LEMMA Looked ==
    ASSUME UsageInv, ~overlap, NEW i \in DOMAIN monitors, Poll(i), owner[monitors[i].name] # Nobody
    PROVE  AllApart(monitors', interfaces') /\ AllOwe' /\ RowsShown'
<1> DEFINE m == monitors[i]
           read == bytes[m.name]
           owes(k, last) == /\ owner'[k.name] \in {k.dev, Nobody} /\ last <= bytes'[k.name]
                            /\ usage'[k.dev] + (bytes'[k.name] - last) <= moved'[k.dev]
<1>0. /\ AllApart(monitors, interfaces) /\ AllOwe /\ RowsShown
      /\ monitors \in Seq(Monitors) /\ interfaces \in Seq(Interfaces) /\ usage \in [Peers -> Nat]
      /\ bytes \in [Names -> Nat] /\ moved \in [Peers -> Nat]
  BY DEF UsageInv, UsageTyped
<1>1. UNCHANGED <<owner, bytes, interfaces, moved, rows>>
      /\ monitors' = [monitors EXCEPT ![i].last = read] /\ usage' = [usage EXCEPT ![m.dev] = @ + Grown(m)]
  BY DEF Poll
<1>2. m.dev \in Peers /\ m.name \in Names /\ m.last \in Nat
  <2>1. m \in Monitors
    BY <1>0
  <2> QED
    BY <2>1 DEF Monitors
<1>3. read \in Nat
  BY <1>0, <1>2
<1> HIDE DEF read
<1>4. /\ monitors' \in Seq(Monitors) /\ DOMAIN monitors' = DOMAIN monitors
      /\ \A j \in DOMAIN monitors : j # i => monitors'[j] = monitors[j]
      /\ monitors'[i].dev = m.dev /\ monitors'[i].name = m.name /\ monitors'[i].last = read
  <2> DEFINE k == [monitors[i] EXCEPT !.last = read]
  <2>1. monitors[i] \in Monitors
    BY <1>0
  <2>2. k \in Monitors /\ k.dev = m.dev /\ k.name = m.name /\ k.last = read
    BY <1>3, <2>1 DEF Monitors
  <2>3. monitors' = [monitors EXCEPT ![i] = k]
    BY <1>1
  <2> HIDE DEF k
  <2>4. /\ monitors' \in Seq(Monitors) /\ DOMAIN monitors' = DOMAIN monitors
        /\ \A j \in DOMAIN monitors : j # i => monitors'[j] = monitors[j]
        /\ monitors'[i] = k
    BY <1>0, <2>2, <2>3
  <2> QED
    BY <2>2, <2>4
<1>5. \A j \in DOMAIN monitors : monitors'[j].dev = monitors[j].dev /\ monitors'[j].name = monitors[j].name
  BY <1>4
<1>6. AllApart(monitors', interfaces')
  BY <1>0, <1>1, <1>4, <1>5 DEF AllApart, Apart
<1>7. /\ owner[m.name] \in {m.dev, Nobody} /\ m.last <= read
      /\ usage[m.dev] + (read - m.last) <= moved[m.dev]
  BY <1>0 DEF AllOwe, Owes, read
<1>8. Grown(m) = read - m.last
  BY <1>2, <1>3, <1>7 DEF Grown, read
<1>9. usage'[m.dev] <= moved[m.dev] /\ \A d \in Peers : d # m.dev => usage'[d] = usage[d]
  BY <1>0, <1>1, <1>2, <1>7, <1>8
<1>10. \A d \in Peers : usage'[d] <= moved'[d]
  BY <1>0, <1>1, <1>9 DEF AllOwe
<1>11. ASSUME NEW j \in DOMAIN monitors' PROVE owes(monitors'[j], monitors'[j].last)
  <2>1. CASE j = i
    <3>1. usage'[m.dev] + (read - read) <= moved[m.dev] /\ read <= read
      BY <1>0, <1>1, <1>2, <1>3, <1>7, <1>8, <1>9
    <3> QED
      BY <1>1, <1>4, <1>7, <2>1, <3>1 DEF Owes, read
  <2>2. CASE j # i
    <3>1. j \in DOMAIN monitors /\ monitors'[j] = monitors[j] /\ monitors[j].dev # m.dev /\ monitors[j].dev \in Peers
      <4>1. j \in DOMAIN monitors /\ monitors'[j] = monitors[j] /\ monitors[j] \in Monitors
        BY <1>0, <1>4, <2>2
      <4> QED
        BY <1>0, <2>2, <4>1 DEF AllApart, Apart, Monitors
    <3>2. Owes(monitors[j], monitors[j].last)
      BY <1>0, <3>1 DEF AllOwe
    <3> QED
      BY <1>1, <1>9, <3>1, <3>2 DEF Owes
  <2> QED
    BY <2>1, <2>2
<1>12. ASSUME NEW j \in DOMAIN interfaces' PROVE owes(interfaces'[j], 0)
  <2>1. interfaces' = interfaces /\ interfaces[j].dev # m.dev /\ interfaces[j].dev \in Peers
    <3>1. interfaces' = interfaces /\ interfaces[j] \in Interfaces
      BY <1>0, <1>1
    <3> QED
      BY <1>0, <1>1, <3>1 DEF AllApart, Apart, Interfaces
  <2>2. Owes(interfaces[j], 0)
    BY <1>0, <2>1 DEF AllOwe
  <2> QED
    BY <1>1, <1>9, <2>1, <2>2 DEF Owes
<1>13. AllOwe'
  BY <1>10, <1>11, <1>12 DEF AllOwe, Owes
<1>14. ASSUME NEW d PROVE ShownIn(monitors, d) = ShownIn(monitors', d)
  <2>1. /\ \A j, k \in DOMAIN monitors : j # k => monitors[j].dev # monitors[k].dev
        /\ \A j, k \in DOMAIN monitors' : j # k => monitors'[j].dev # monitors'[k].dev
    BY <1>0, <1>4, <1>5 DEF AllApart, Apart
  <2>2. \A j \in DOMAIN monitors : monitors[j].dev = d =>
          \E k \in DOMAIN monitors' : monitors'[k].dev = d /\ monitors'[k].name = monitors[j].name
    BY <1>4, <1>5
  <2>3. \A j \in DOMAIN monitors' : monitors'[j].dev = d => \E k \in DOMAIN monitors : monitors[k].dev = d
    BY <1>4, <1>5
  <2>4. monitors \in Seq(Monitors) /\ monitors' \in Seq(Monitors)
    BY <1>0, <1>4
  <2> QED
    BY <2>1, <2>2, <2>3, <2>4, ShowsAlike
<1>15. RowsShown'
  BY <1>0, <1>1, <1>14 DEF RowsShown
<1> QED
  BY <1>6, <1>13, <1>15

LEMMA MonitorGone ==
    ASSUME UsageInv, ~overlap, NEW i \in DOMAIN monitors, Poll(i), owner[monitors[i].name] = Nobody
    PROVE  AllApart(monitors', interfaces') /\ AllOwe' /\ RowsShown'
<1> DEFINE m == monitors[i]
           from(k) == IF k < i THEN k ELSE k + 1
<1>0. /\ AllApart(monitors, interfaces) /\ AllOwe /\ RowsShown /\ monitors \in Seq(Monitors)
  BY DEF UsageInv, UsageTyped
<1>1. /\ UNCHANGED <<owner, bytes, interfaces, moved, usage>>
      /\ monitors' = RemoveAt(monitors, i) /\ RowRemoved(m.dev)
  BY DEF Poll
<1>2. /\ monitors' \in Seq(Monitors)
      /\ \A k \in DOMAIN monitors' : from(k) \in DOMAIN monitors /\ from(k) # i /\ monitors'[k] = monitors[from(k)]
      /\ \A k, l \in DOMAIN monitors' : k # l => from(k) # from(l)
      /\ \A j \in DOMAIN monitors : j # i => \E k \in DOMAIN monitors' : monitors'[k] = monitors[j]
  <2> DEFINE r == RemoveAt(monitors, i)
  <2>1. r \in Seq(Monitors)
    BY <1>0, Removing
  <2>2. \A k \in DOMAIN r : from(k) \in DOMAIN monitors /\ from(k) # i /\ r[k] = monitors[from(k)]
    BY <1>0, Removing
  <2>3. \A k, l \in DOMAIN r : k # l => from(k) # from(l)
    BY <1>0, Removing
  <2>4. \A j \in DOMAIN monitors : j # i => \E k \in DOMAIN r : r[k] = monitors[j]
    BY <1>0, Removing
  <2>5. monitors' = r
    BY <1>1
  <2> HIDE DEF r, from
  <2> QED
    BY <2>1, <2>2, <2>3, <2>4, <2>5
<1> HIDE DEF from
<1>3. AllApart(monitors', interfaces')
  BY <1>0, <1>1, <1>2 DEF AllApart
<1>4. AllOwe'
  BY <1>0, <1>1, <1>2 DEF AllOwe, Owes
<1>5. \A k \in DOMAIN monitors' : monitors'[k].dev # m.dev
  BY <1>0, <1>2 DEF AllApart, Apart
<1>6. ShownIn(monitors', m.dev) = Nobody
  BY <1>5, ShowsNobody
<1>7. ASSUME NEW d, d # m.dev PROVE ShownIn(monitors, d) = ShownIn(monitors', d)
  <2>1. /\ \A j, k \in DOMAIN monitors : j # k => monitors[j].dev # monitors[k].dev
        /\ \A j, k \in DOMAIN monitors' : j # k => monitors'[j].dev # monitors'[k].dev
    BY <1>0, <1>3 DEF AllApart, Apart
  <2>2. \A j \in DOMAIN monitors : monitors[j].dev = d =>
          \E k \in DOMAIN monitors' : monitors'[k].dev = d /\ monitors'[k].name = monitors[j].name
    <3>1. \A j \in DOMAIN monitors : monitors[j].dev = d => j # i
      BY <1>7
    <3> QED
      BY <1>2, <3>1
  <2>3. \A j \in DOMAIN monitors' : monitors'[j].dev = d => \E k \in DOMAIN monitors : monitors[k].dev = d
    BY <1>2
  <2> QED
    BY <1>0, <1>2, <2>1, <2>2, <2>3, ShowsAlike
<1>8. DOMAIN rows' = DOMAIN rows /\ \A d \in DOMAIN rows : rows'[d] = IF d = m.dev THEN Nobody ELSE rows[d]
  BY <1>1 DEF RowRemoved, With, Row
<1>9. RowsShown'
  BY <1>0, <1>6, <1>7, <1>8 DEF RowsShown
<1> QED
  BY <1>3, <1>4, <1>9

LEMMA InterfaceOpened ==
    ASSUME UsageInv, NEW n \in Names, NEW d \in Peers, Opens(n, d), ~overlap'
    PROVE  ~overlap /\ AllApart(monitors', interfaces') /\ AllOwe' /\ RowsShown'
<1> DEFINE all == monitors \o interfaces
           owes(m, last) == /\ owner'[m.name] \in {m.dev, Nobody} /\ last <= bytes'[m.name]
                            /\ usage'[m.dev] + (bytes'[m.name] - last) <= moved'[m.dev]
<1>0. /\ UsageTyped /\ monitors \in Seq(Monitors) /\ interfaces \in Seq(Interfaces)
      /\ owner \in [Names -> Peers \cup {Nobody}] /\ bytes \in [Names -> Nat]
      /\ usage \in [Peers -> Nat] /\ moved \in [Peers -> Nat]
  BY DEF UsageInv, UsageTyped
<1>1. ~overlap /\ \A m \in Elements(all) : m.dev # d /\ m.name # n
  BY DEF Opens
<1>2. AllApart(monitors, interfaces) /\ AllOwe /\ RowsShown
  BY <1>1 DEF UsageInv
<1>3. \A i \in DOMAIN monitors : monitors[i].dev # d /\ monitors[i].name # n
  <2>1. \A i \in DOMAIN monitors : i \in DOMAIN all /\ all[i] = monitors[i]
    BY <1>0
  <2> QED
    BY <1>1, <2>1 DEF Elements
<1>4. \A i \in DOMAIN interfaces : interfaces[i].dev # d /\ interfaces[i].name # n
  <2>1. \A i \in DOMAIN interfaces : Len(monitors) + i \in DOMAIN all /\ all[Len(monitors) + i] = interfaces[i]
    BY <1>0
  <2> QED
    BY <1>1, <2>1 DEF Elements
<1>5. /\ owner' = [owner EXCEPT ![n] = d] /\ bytes' = [bytes EXCEPT ![n] = 0] /\ UNCHANGED <<usage, moved, active_dialog>>
      /\ \/ interfaces' = Append(interfaces, [dev |-> d, name |-> n]) /\ UNCHANGED <<monitors, rows>>
         \/ MonitorInterface(d, n) /\ UNCHANGED interfaces
  BY DEF Opens
<1>6. \A m : m.name \in Names /\ m.name # n => owner'[m.name] = owner[m.name] /\ bytes'[m.name] = bytes[m.name]
  BY <1>0, <1>5
<1>7. /\ owner'[n] = d /\ bytes'[n] = 0 /\ usage'[d] + (0 - 0) <= moved'[d]
  BY <1>0, <1>2, <1>5 DEF AllOwe
<1>8. \A e \in Peers : usage'[e] <= moved'[e]
  BY <1>2, <1>5 DEF AllOwe
<1>10. ASSUME NEW i \in DOMAIN monitors
       PROVE  owes(monitors[i], monitors[i].last)
  <2>1. Owes(monitors[i], monitors[i].last)
    BY <1>2 DEF AllOwe
  <2>2. monitors[i].name \in Names
    <3>1. monitors[i] \in Monitors
      BY <1>0
    <3> QED
      BY <3>1 DEF Monitors
  <2> QED
    BY <1>3, <1>5, <1>6, <2>1, <2>2 DEF Owes
<1>11. ASSUME NEW i \in DOMAIN interfaces
       PROVE  owes(interfaces[i], 0)
  <2>1. Owes(interfaces[i], 0)
    BY <1>2 DEF AllOwe
  <2>2. interfaces[i].name \in Names
    <3>1. interfaces[i] \in Interfaces
      BY <1>0
    <3> QED
      BY <3>1 DEF Interfaces
  <2> QED
    BY <1>4, <1>5, <1>6, <2>1, <2>2 DEF Owes
<1>12. CASE interfaces' = Append(interfaces, [dev |-> d, name |-> n]) /\ UNCHANGED <<monitors, rows>>
  <2> DEFINE x == [dev |-> d, name |-> n]
  <2>1. x \in Interfaces /\ x.dev = d /\ x.name = n /\ interfaces' = Append(interfaces, x)
        /\ monitors' = monitors /\ rows' = rows
    BY <1>12 DEF Interfaces
  <2> HIDE DEF x
  <2>2. /\ \A i \in DOMAIN monitors : Apart(monitors[i], x)
        /\ \A i \in DOMAIN interfaces : Apart(x, interfaces[i])
    BY <1>3, <1>4, <2>1 DEF Apart
  <2>3. AllApart(monitors', interfaces')
    BY <1>0, <1>2, <2>1, <2>2, ApartWaits
  <2>4. \A i \in DOMAIN interfaces' : (i \in DOMAIN interfaces /\ interfaces'[i] = interfaces[i]) \/ interfaces'[i] = x
    BY <1>0, <2>1, Appending
  <2>5. \A i \in DOMAIN interfaces' : owes(interfaces'[i], 0)
    BY <1>7, <1>11, <2>1, <2>4 DEF Owes
  <2>6. AllOwe'
    BY <1>8, <1>10, <2>1, <2>5 DEF AllOwe, Owes
  <2> QED
    BY <1>1, <1>2, <2>1, <2>3, <2>6 DEF RowsShown
<1>13. CASE MonitorInterface(d, n) /\ UNCHANGED interfaces
  <2> DEFINE m == [dev |-> d, name |-> n, last |-> 0]
  <2>1. m \in Monitors /\ m.dev = d /\ m.name = n /\ m.last = 0 /\ monitors' = Append(monitors, m)
        /\ interfaces' = interfaces
    BY <1>13 DEF Monitors, MonitorInterface
  <2> HIDE DEF m
  <2>2. /\ \A i \in DOMAIN monitors : Apart(monitors[i], m)
        /\ \A i \in DOMAIN interfaces : Apart(m, interfaces[i])
    BY <1>3, <1>4, <2>1 DEF Apart
  <2>3. AllApart(monitors', interfaces')
    BY <1>0, <1>2, <2>1, <2>2, ApartGrows
  <2>4. \A i \in DOMAIN monitors' : (i \in DOMAIN monitors /\ monitors'[i] = monitors[i]) \/ monitors'[i] = m
    BY <1>0, <2>1, Appending
  <2>5. \A i \in DOMAIN monitors' : owes(monitors'[i], monitors'[i].last)
    BY <1>7, <1>10, <2>1, <2>4 DEF Owes
  <2>6. AllOwe'
    BY <1>8, <1>11, <2>1, <2>5 DEF AllOwe, Owes
  <2>7. RowsShown'
    BY <1>0, <1>2, <1>3, <1>5, <1>13, MonitorAdded
  <2> QED
    BY <1>1, <2>3, <2>6, <2>7
<1> QED
  BY <1>5, <1>12, <1>13

LEMMA ByteMoved ==
    ASSUME UsageInv, ~overlap, NEW n \in Names, Moves(n)
    PROVE  AllApart(monitors', interfaces') /\ AllOwe' /\ RowsShown'
<1>0. /\ AllApart(monitors, interfaces) /\ AllOwe /\ RowsShown
      /\ monitors \in Seq(Monitors) /\ interfaces \in Seq(Interfaces)
      /\ owner \in [Names -> Peers \cup {Nobody}] /\ bytes \in [Names -> Nat]
      /\ usage \in [Peers -> Nat] /\ moved \in [Peers -> Nat]
  BY DEF UsageInv, UsageTyped
<1>1. /\ UNCHANGED <<owner, monitors, interfaces, usage, rows>>
      /\ bytes' = [bytes EXCEPT ![n] = @ + 1] /\ moved' = [moved EXCEPT ![owner[n]] = @ + 1]
      /\ owner[n] \in Peers
  BY <1>0 DEF Moves
<1>2. /\ \A d \in Peers : moved'[d] = IF d = owner[n] THEN moved[d] + 1 ELSE moved[d]
      /\ \A k \in Names : bytes'[k] = IF k = n THEN bytes[k] + 1 ELSE bytes[k]
  BY <1>0, <1>1
<1>3. \A d \in Peers : usage'[d] <= moved'[d]
  BY <1>0, <1>1, <1>2 DEF AllOwe
<1> DEFINE owes(m, last) == /\ owner'[m.name] \in {m.dev, Nobody} /\ last <= bytes'[m.name]
                            /\ usage'[m.dev] + (bytes'[m.name] - last) <= moved'[m.dev]
<1>4. ASSUME NEW m, m.dev \in Peers, m.name \in Names, NEW last \in Nat, Owes(m, last)
      PROVE  owes(m, last)
  <2>1. /\ owner[m.name] \in {m.dev, Nobody} /\ last <= bytes[m.name]
        /\ usage[m.dev] + (bytes[m.name] - last) <= moved[m.dev]
        /\ bytes[m.name] \in Nat /\ usage[m.dev] \in Nat /\ moved[m.dev] \in Nat
    BY <1>0, <1>4 DEF Owes
  <2>2. CASE m.name = n
    <3>1. owner[n] = m.dev
      BY <1>1, <2>1, <2>2, NetUsageAssumption
    <3>2. bytes'[m.name] = bytes[m.name] + 1 /\ moved'[m.dev] = moved[m.dev] + 1
      BY <1>2, <1>4, <2>2, <3>1
    <3> QED
      BY <1>1, <1>4, <2>1, <3>2
  <2>3. CASE m.name # n
    <3>1. bytes'[m.name] = bytes[m.name] /\ moved[m.dev] <= moved'[m.dev] /\ moved'[m.dev] \in Nat
      BY <1>2, <1>4, <2>1, <2>3
    <3> QED
      BY <1>1, <1>4, <2>1, <3>1
  <2> QED
    BY <2>2, <2>3
<1>5. \A i \in DOMAIN monitors : owes(monitors[i], monitors[i].last)
  <2> SUFFICES ASSUME NEW i \in DOMAIN monitors PROVE owes(monitors[i], monitors[i].last)
    OBVIOUS
  <2>1. monitors[i] \in Monitors /\ Owes(monitors[i], monitors[i].last)
    BY <1>0 DEF AllOwe
  <2>2. monitors[i].dev \in Peers /\ monitors[i].name \in Names /\ monitors[i].last \in Nat
    BY <2>1 DEF Monitors
  <2> QED
    BY <1>4, <2>1, <2>2
<1>6. \A i \in DOMAIN interfaces : owes(interfaces[i], 0)
  <2> SUFFICES ASSUME NEW i \in DOMAIN interfaces PROVE owes(interfaces[i], 0)
    OBVIOUS
  <2>1. interfaces[i] \in Interfaces /\ Owes(interfaces[i], 0)
    BY <1>0 DEF AllOwe
  <2>2. interfaces[i].dev \in Peers /\ interfaces[i].name \in Names
    BY <2>1 DEF Interfaces
  <2> QED
    BY <1>4, <2>1, <2>2
<1>7. AllOwe'
  BY <1>1, <1>3, <1>5, <1>6 DEF AllOwe, Owes
<1> QED
  BY <1>0, <1>1, <1>7 DEF RowsShown

LEMMA UsageReset ==
    ASSUME UsageInv, ~overlap, NEW d \in Peers, on_reset(d)
    PROVE  AllApart(monitors', interfaces') /\ AllOwe' /\ RowsShown'
<1>0. /\ AllApart(monitors, interfaces) /\ AllOwe /\ RowsShown
      /\ monitors \in Seq(Monitors) /\ interfaces \in Seq(Interfaces) /\ bytes \in [Names -> Nat]
      /\ usage \in [Peers -> Nat] /\ moved \in [Peers -> Nat]
  BY DEF UsageInv, UsageTyped
<1>1. /\ UNCHANGED <<owner, bytes, monitors, interfaces, rows>>
      /\ usage' = [usage EXCEPT ![d] = 0]
      /\ moved' = [moved EXCEPT ![d] = IF @ > usage[d] THEN @ - usage[d] ELSE 0]
  BY DEF on_reset
<1>2. ASSUME NEW e \in Peers, NEW x \in Nat, usage[e] + x <= moved[e] PROVE usage'[e] + x <= moved'[e]
  <2>1. usage[e] \in Nat /\ moved[e] \in Nat
    BY <1>0
  <2>2. CASE e = d
    <3>1. usage'[e] = 0 /\ moved'[e] = IF moved[e] > usage[e] THEN moved[e] - usage[e] ELSE 0
      BY <1>0, <1>1, <2>2
    <3> QED
      BY <1>2, <2>1, <3>1
  <2>3. CASE e # d
    <3>1. usage'[e] = usage[e] /\ moved'[e] = moved[e]
      BY <1>0, <1>1, <2>3
    <3> QED
      BY <1>2, <3>1
  <2> QED
    BY <2>2, <2>3
<1>3. \A e \in Peers : usage'[e] <= moved'[e]
  <2> SUFFICES ASSUME NEW e \in Peers PROVE usage'[e] <= moved'[e]
    OBVIOUS
  <2>1. usage[e] + 0 <= moved[e] /\ usage[e] \in Nat
    BY <1>0 DEF AllOwe
  <2>2. usage'[e] + 0 <= moved'[e] /\ usage'[e] \in Nat
    BY <1>0, <1>1, <1>2, <2>1
  <2> QED
    BY <2>2
<1> DEFINE owes(m, last) == /\ owner'[m.name] \in {m.dev, Nobody} /\ last <= bytes'[m.name]
                            /\ usage'[m.dev] + (bytes'[m.name] - last) <= moved'[m.dev]
<1>4. ASSUME NEW m, m.dev \in Peers, m.name \in Names, NEW last \in Nat, Owes(m, last)
      PROVE  owes(m, last)
  <2>1. last <= bytes[m.name] /\ usage[m.dev] + (bytes[m.name] - last) <= moved[m.dev] /\ bytes[m.name] \in Nat
    BY <1>0, <1>4 DEF Owes
  <2>2. bytes[m.name] - last \in Nat
    BY <1>4, <2>1
  <2>3. usage'[m.dev] + (bytes[m.name] - last) <= moved'[m.dev]
    BY <1>2, <1>4, <2>1, <2>2
  <2> QED
    BY <1>1, <1>4, <2>3 DEF Owes
<1>5. \A i \in DOMAIN monitors : owes(monitors[i], monitors[i].last)
  <2> SUFFICES ASSUME NEW i \in DOMAIN monitors PROVE owes(monitors[i], monitors[i].last)
    OBVIOUS
  <2>1. monitors[i] \in Monitors /\ Owes(monitors[i], monitors[i].last)
    BY <1>0 DEF AllOwe
  <2>2. monitors[i].dev \in Peers /\ monitors[i].name \in Names /\ monitors[i].last \in Nat
    BY <2>1 DEF Monitors
  <2> QED
    BY <1>4, <2>1, <2>2
<1>6. \A i \in DOMAIN interfaces : owes(interfaces[i], 0)
  <2> SUFFICES ASSUME NEW i \in DOMAIN interfaces PROVE owes(interfaces[i], 0)
    OBVIOUS
  <2>1. interfaces[i] \in Interfaces /\ Owes(interfaces[i], 0)
    BY <1>0 DEF AllOwe
  <2>2. interfaces[i].dev \in Peers /\ interfaces[i].name \in Names
    BY <2>1 DEF Interfaces
  <2> QED
    BY <1>4, <2>1, <2>2
<1>7. AllOwe'
  BY <1>1, <1>3, <1>5, <1>6 DEF AllOwe, Owes
<1> QED
  BY <1>0, <1>1, <1>7 DEF RowsShown

LEMMA TrafficStep ==
    ASSUME UsageInv, [UsageNext]_usageVars
    PROVE  UsageInv'
<1>0. UsageTyped /\ UsageTyped' /\ monitors \in Seq(Monitors)
  BY TrafficTyped DEF UsageInv, UsageTyped
<1> SUFFICES ASSUME ~overlap' PROVE AllApart(monitors', interfaces') /\ AllOwe' /\ RowsShown'
  BY <1>0 DEF UsageInv
<1>1. ASSUME ~overlap PROVE AllApart(monitors, interfaces) /\ AllOwe /\ RowsShown
  BY <1>1 DEF UsageInv
<1>2. CASE UNCHANGED usageVars
  BY <1>1, <1>2 DEF usageVars, AllOwe, Owes, RowsShown
<1>3. CASE OnInterface
  BY <1>3, InterfaceHeard DEF OnInterface
<1>4. CASE activate_ui
  <2>1. UNCHANGED <<owner, bytes, interfaces, monitors, usage, moved, overlap>>
        /\ rows' = [d \in listed |-> Shown(d)]
    BY <1>4 DEF activate_ui
  <2>2. RowsShown'
    BY <2>1 DEF RowsShown, Shown, ShownIn
  <2> QED
    BY <1>1, <2>1, <2>2 DEF AllOwe, Owes
<1>5. CASE on_response
  <2>1. UNCHANGED <<owner, bytes, interfaces, monitors, usage, moved, overlap>> /\ DOMAIN rows' = {}
    BY <1>5 DEF on_response, Closed
  <2> QED
    BY <1>1, <2>1 DEF AllOwe, Owes, RowsShown
<1>6. CASE \E i \in 1 .. MaxMonitors : Poll(i)
  <2>1. PICK i \in DOMAIN monitors : Poll(i)
    BY <1>6 DEF Poll
  <2>2. ~overlap
    BY <2>1 DEF Poll
  <2> QED
    BY <2>1, <2>2, Looked, MonitorGone
<1>7. CASE \E d \in Peers : on_reset(d)
  <2>1. PICK d \in Peers : on_reset(d)
    BY <1>7
  <2>2. ~overlap
    BY <2>1 DEF on_reset
  <2> QED
    BY <2>1, <2>2, UsageReset
<1>8. CASE \E d \in Peers, n \in Names : Opens(n, d)
  <2>1. PICK d \in Peers, n \in Names : Opens(n, d)
    BY <1>8
  <2> QED
    BY <2>1, InterfaceOpened
<1>9. CASE \E n \in Names : Closes(n)
  <2>1. PICK n \in Names : Closes(n)
    BY <1>9
  <2>2. /\ UNCHANGED <<bytes, interfaces, monitors, usage, moved, rows, overlap>>
        /\ owner' = [owner EXCEPT ![n] = Nobody] /\ owner \in [Names -> Peers \cup {Nobody}]
    BY <1>0, <2>1 DEF Closes, UsageTyped
  <2>3. \A k : owner'[k] = owner[k] \/ (k = n /\ owner'[k] = Nobody)
    BY <2>2
  <2>4. AllOwe'
    BY <1>1, <2>2, <2>3 DEF AllOwe, Owes
  <2>5. RowsShown'
    BY <1>1, <2>2 DEF RowsShown
  <2>6. AllApart(monitors', interfaces')
    BY <1>1, <2>2
  <2> QED
    BY <2>4, <2>5, <2>6
<1>10. CASE \E n \in Names : Moves(n)
  <2>1. PICK n \in Names : Moves(n)
    BY <1>10
  <2>2. ~overlap
    BY <2>1 DEF Moves
  <2> QED
    BY <2>1, <2>2, ByteMoved
<1>11. CASE \E on \in BOOLEAN : Load(on)
  <2>1. UNCHANGED <<owner, bytes, interfaces, usage, moved, overlap>> /\ monitors' = <<>> /\ DOMAIN rows' = {}
    BY <1>11 DEF Load, Closed
  <2>2. DOMAIN monitors' = {}
    BY <2>1
  <2> QED
    BY <1>1, <2>1, <2>2 DEF AllApart, AllOwe, Owes, RowsShown
<1> QED
  BY <1>2, <1>3, <1>4, <1>5, <1>6, <1>7, <1>8, <1>9, <1>10, <1>11 DEF UsageNext

LEMMA TrafficInvariant == Spec => []UsageInv
<1>1. Init => UsageInv
  <2> SUFFICES ASSUME UsageInit PROVE UsageInv
    BY DEF Init
  <2>1. UsageTyped
    <3>1. /\ owner \in [Names -> Peers \cup {Nobody}] /\ bytes \in [Names -> Nat] /\ usage \in [Peers -> Nat]
      BY DEF UsageInit
    <3>2. monitors = <<>> /\ interfaces = <<>> /\ listed = {} /\ overlap = FALSE
      BY DEF UsageInit
    <3>3. moved = usage /\ DOMAIN rows = {}
      BY DEF UsageInit
    <3>4. <<>> \in Seq(Monitors) /\ <<>> \in Seq(Interfaces)
      OBVIOUS
    <3>5. monitors \in Seq(Monitors) /\ interfaces \in Seq(Interfaces)
      BY <3>2, <3>4
    <3> QED
      BY <3>1, <3>2, <3>3, <3>5 DEF UsageTyped
  <2>2. DOMAIN monitors = {} /\ DOMAIN interfaces = {} /\ DOMAIN rows = {}
    BY DEF UsageInit
  <2>3. \A d \in Peers : usage[d] <= moved[d]
    BY DEF UsageInit
  <2> QED
    BY <2>1, <2>2, <2>3 DEF UsageInv, AllApart, AllOwe, RowsShown
<1>2. UsageInv /\ [Next]_vars => UsageInv'
  BY GroupSteps, TrafficStep
<1> QED
  BY <1>1, <1>2, PTL DEF Spec

(* As long as no device and no name of an interface is connected again before the monitor of
   the last connection has noticed its end, a device is said to have moved no byte that it has
   not, and the dialog shows of each device the interface of its monitor (NetUsage, Monitor). *)
THEOREM CountedApart == Spec => []UsageIsOwn
<1>1. UsageInv => UsageIsOwn
  BY DEF UsageInv, UsageIsOwn, AllOwe, RowsShown, Shown, ShownIn
<1> QED
  BY <1>1, TrafficInvariant, PTL

(* Audio profiles: the menu.                                               *)
(***************************************************************************)
CardStates == [index : 0 .. MaxCards, profile : BOOLEAN]

\* Each item that the plugin knows of is in the menu, of a headset with a card; one of them
\* has the greatest number.
MenuWell(menus, texts, knows) ==
    /\ DOMAIN menus \subseteq Headsets
    /\ \A d \in DOMAIN menus : /\ knows[d] # NoCard /\ menus[d] \in Nat
                               /\ menus[d] \in DOMAIN texts /\ texts[menus[d]] = d
    /\ \A i \in DOMAIN texts : texts[i] \in Headsets
    /\ DOMAIN menus = {} \/ \E e \in DOMAIN menus : \A d \in DOMAIN menus : menus[d] <= menus[e]

\* The next number is greater than those of the items that there are.
LEMMA NextIsGreater ==
    ASSUME NEW menus, NEW texts, NEW knows, MenuWell(menus, texts, knows)
    PROVE  NextLine(menus) \in Nat /\ \A d \in DOMAIN menus : menus[d] < NextLine(menus)
<1> DEFINE numbers == {menus[d] : d \in DOMAIN menus}
<1>1. CASE DOMAIN menus = {}
  BY <1>1 DEF NextLine
<1>2. CASE DOMAIN menus # {}
  <2>1. PICK e \in DOMAIN menus : \A d \in DOMAIN menus : menus[d] <= menus[e]
    BY <1>2 DEF MenuWell
  <2> DEFINE top == CHOOSE n \in numbers : \A d \in DOMAIN menus : menus[d] <= n
  <2>2. top \in numbers /\ \A d \in DOMAIN menus : menus[d] <= top
    BY <2>1
  <2>3. NextLine(menus) = 1 + top
    BY <1>2 DEF NextLine
  <2>4. numbers \subseteq Nat
    BY DEF MenuWell
  <2> HIDE DEF top, numbers
  <2> QED
    BY <2>2, <2>3, <2>4 DEF MenuWell
<1> QED
  BY <1>1, <1>2

\* A listing has each of the devices once.
LEMMA ListingHasAll ==
    ASSUME NEW S, IsFiniteSet(S), NEW s \in Listings(S)
    PROVE  /\ s \in Seq(S) /\ Len(s) \in Nat /\ DOMAIN s = 1 .. Len(s)
           /\ \A i \in DOMAIN s : s[i] \in S
           /\ \A d \in S : \E i \in DOMAIN s : s[i] = d
           /\ \A i, j \in DOMAIN s : s[i] = s[j] => i = j
<1>1. Cardinality(S) \in Nat
  BY FS_CardinalityType
<1>2. s \in [1 .. Cardinality(S) -> S]
  BY DEF Listings, Bijection, Injection
<1>3. s \in Seq(S) /\ Len(s) = Cardinality(S) /\ DOMAIN s = 1 .. Cardinality(S)
  BY <1>1, <1>2
<1>4. \A d \in S : \E i \in DOMAIN s : s[i] = d
  BY <1>3 DEF Listings, Bijection, Surjection
<1>5. \A i, j \in DOMAIN s : s[i] = s[j] => i = j
  BY DEF Listings, Bijection, Injection, IsInjective
<1> QED
  BY <1>1, <1>2, <1>3, <1>4, <1>5

\* add_device_profile_menu
LEMMA ItemsAdded ==
    ASSUME NEW menus, NEW texts, NEW knows, MenuWell(menus, texts, knows),
           NEW S \in SUBSET Headsets, IsFiniteSet(S), \A d \in S : knows[d] # NoCard,
           NEW s \in Listings(S), Add(s, menus, texts)
    PROVE  MenuWell(_device_menus', lines', knows) /\ DOMAIN _device_menus' = S \cup DOMAIN menus
<1> DEFINE n == NextLine(menus)
           at(d) == CHOOSE i \in DOMAIN s : s[i] = d
           new == [d \in Range(s) |-> n - 1 + at(d)]
           fresh == [i \in n .. n + Len(s) - 1 |-> s[i - n + 1]]
<1>1. n \in Nat /\ \A d \in DOMAIN menus : menus[d] < n
  BY NextIsGreater
<1>2. /\ Len(s) \in Nat /\ DOMAIN s = 1 .. Len(s) /\ Range(s) = S
      /\ \A i \in DOMAIN s : s[i] \in S
      /\ \A d \in S : \E i \in DOMAIN s : s[i] = d
      /\ \A i, j \in DOMAIN s : s[i] = s[j] => i = j
  BY ListingHasAll DEF Range
<1>3. \A d \in S : at(d) \in DOMAIN s /\ s[at(d)] = d
  BY <1>2
<1>4. _device_menus' = Over(new, menus) /\ lines' = Over(fresh, texts)
  BY DEF Add
<1> HIDE DEF n, at
<1>5. /\ DOMAIN new = S /\ \A d \in S : new[d] = n - 1 + at(d)
  BY <1>2
<1>6. /\ DOMAIN fresh = n .. n + Len(s) - 1
      /\ \A i \in n .. n + Len(s) - 1 : fresh[i] = s[i - n + 1] /\ i - n + 1 \in DOMAIN s
  BY <1>1, <1>2
<1> HIDE DEF new, fresh
<1>7. /\ DOMAIN _device_menus' = S \cup DOMAIN menus
      /\ \A d \in S : _device_menus'[d] = new[d]
      /\ \A d \in DOMAIN menus : d \notin S => _device_menus'[d] = menus[d]
  BY <1>4, <1>5 DEF Over
<1>8. /\ DOMAIN lines' = DOMAIN fresh \cup DOMAIN texts
      /\ \A i \in DOMAIN fresh : lines'[i] = fresh[i]
      /\ \A i \in DOMAIN texts : i \notin DOMAIN fresh => lines'[i] = texts[i]
  BY <1>4, <1>6 DEF Over
<1>9. ASSUME NEW d \in S
      PROVE  /\ _device_menus'[d] \in n .. n + Len(s) - 1
             /\ lines'[_device_menus'[d]] = d
  <2>1. at(d) \in 1 .. Len(s) /\ s[at(d)] = d /\ _device_menus'[d] = n - 1 + at(d)
    BY <1>2, <1>3, <1>5, <1>7, <1>9
  <2>2. n - 1 + at(d) \in n .. n + Len(s) - 1 /\ (n - 1 + at(d)) - n + 1 = at(d)
    BY <1>1, <1>2, <2>1
  <2> QED
    BY <1>6, <1>8, <2>1, <2>2
<1>10. ASSUME NEW d \in DOMAIN menus, d \notin S
       PROVE  /\ _device_menus'[d] = menus[d] /\ menus[d] \in Nat /\ menus[d] < n
              /\ menus[d] \in DOMAIN lines' /\ lines'[menus[d]] = d /\ knows[d] # NoCard
  <2>1. /\ menus[d] \in Nat /\ menus[d] < n /\ menus[d] \in DOMAIN texts /\ texts[menus[d]] = d /\ knows[d] # NoCard
    BY <1>1, <1>10 DEF MenuWell
  <2>2. menus[d] \notin DOMAIN fresh
    BY <1>1, <1>6, <2>1
  <2> QED
    BY <1>7, <1>8, <1>10, <2>1, <2>2
<1>11. \A i \in DOMAIN lines' : lines'[i] \in Headsets
  <2>1. \A i \in DOMAIN fresh : fresh[i] \in S
    BY <1>2, <1>6
  <2> QED
    BY <1>8, <2>1 DEF MenuWell
<1>12. \A d \in DOMAIN _device_menus' :
         /\ knows[d] # NoCard /\ _device_menus'[d] \in Nat
         /\ _device_menus'[d] \in DOMAIN lines' /\ lines'[_device_menus'[d]] = d
  <2>1. \A k \in n .. n + Len(s) - 1 : k \in Nat /\ k \in DOMAIN lines'
    BY <1>1, <1>2, <1>6, <1>8
  <2> QED
    BY <1>7, <1>9, <1>10, <2>1
<1>13. S # {} => \E e \in DOMAIN _device_menus' : \A d \in DOMAIN _device_menus' : _device_menus'[d] <= _device_menus'[e]
  <2> SUFFICES ASSUME S # {} PROVE \E e \in DOMAIN _device_menus' : \A d \in DOMAIN _device_menus' : _device_menus'[d] <= _device_menus'[e]
    OBVIOUS
  <2>1. Len(s) \in DOMAIN s /\ s[Len(s)] \in S
    BY <1>2
  <2>2. at(s[Len(s)]) = Len(s)
    BY <1>2, <1>3, <2>1
  <2>3. _device_menus'[s[Len(s)]] = n - 1 + Len(s)
    BY <1>5, <1>7, <2>1, <2>2
  <2>4. \A d \in S : _device_menus'[d] <= n - 1 + Len(s)
    BY <1>1, <1>2, <1>9
  <2>5. \A d \in DOMAIN menus : d \notin S => _device_menus'[d] <= n - 1 + Len(s)
    BY <1>1, <1>2, <1>10
  <2> QED
    BY <1>7, <2>1, <2>3, <2>4, <2>5
<1>14. S = {} => \A d \in DOMAIN menus : _device_menus'[d] = menus[d]
  BY <1>7
<1>15. DOMAIN _device_menus' = {} \/ \E e \in DOMAIN _device_menus' : \A d \in DOMAIN _device_menus' : _device_menus'[d] <= _device_menus'[e]
  BY <1>7, <1>13, <1>14 DEF MenuWell
<1> QED
  BY <1>7, <1>11, <1>12, <1>15 DEF MenuWell
(***************************************************************************)
(* What is asked of PulseAudio and what it says.                           *)
(***************************************************************************)
Singles == {{d} : d \in Headsets}
PulseRequests == [kind : {"list", "get", "set"}, devs : Singles, card : CardStates] \cup {Subscribe}
PulseAnswers ==
    [kind : {"event", "listed"}, devs : Singles, card : CardStates]
    \cup [kind : {"got"}, devs : Singles, card : CardStates \ {NoCard}]

\* An answer about d, with a card of C; one that makes known the card that there is now, or an
\* event after which it is asked for; and one with an earlier card
Replies(d, C) == [kind : {"listed", "got"}, devs : {{d}}, card : C]
Current(d) == {c \in CardStates : c.index = card[d].index}
Fresh(d) == Replies(d, {card[d]}) \cup [kind : {"event"}, devs : {{d}}, card : Current(d)]
Stale(d) == Replies(d, CardStates \ {NoCard, card[d]})
GetRequest(d) == [kind : {"get"}, devs : {{d}}, card : Current(d)]
ListRequest(d) == [kind : {"list"}, devs : {{d}}, card : {NoCard}]
Gots == [kind : {"got"}, devs : Singles, card : CardStates]

\* A card does not go back to what it was.
NotAfter(c, e) == c.index < e.index \/ (c.index = e.index /\ (c.profile = TRUE => e.profile = TRUE))

AudioTyped ==
    /\ attached \subseteq Headsets /\ cards \subseteq Headsets /\ unheard \subseteq Headsets
    /\ card \in [Headsets -> CardStates] /\ _devices \in [Headsets -> CardStates]
    /\ context \in {"connecting", "ready", "failed"}
    /\ signals \in Seq({"changed", "state"}) /\ Len(signals) <= MaxSignals
    /\ requests \in Seq(PulseRequests) /\ events \in Seq(PulseAnswers)
    /\ \A d \in cards : card[d].index # 0
Flags == reconnecting \in BOOLEAN /\ subscribed \in BOOLEAN /\ audio \in BOOLEAN /\ cleared \in BOOLEAN

MenuOfCards == MenuWell(_device_menus, lines, _devices)
Unloaded == ~audio => lines = Nothing /\ \A d \in Headsets : _devices[d] = NoCard

\* Without a connection nothing is on its way, and no card is known that can have changed.
Unready ==
    context # "ready" =>
        /\ requests = <<>> /\ events = <<>> /\ ~subscribed
        /\ \A d \in cards \ unheard : _devices[d] = NoCard

\* PulseAudio answers in order: once it has told the card that there is, it tells no earlier one.
InOrder(q, d) ==
    /\ \A i \in DOMAIN q : q[i] \in Replies(d, CardStates) => NotAfter(q[i].card, card[d])
    /\ \A i, j \in DOMAIN q : i < j /\ q[i] \in Replies(d, {card[d]}) => q[j] \notin Stale(d)
Answered == \A d \in Headsets : InOrder(events, d)

\* An earlier card that is known, or will be, is corrected later.
CorrectedFor(d) ==
    \/ Has(requests, GetRequest(d))
    \/ /\ Followed(events, Stale(d), Fresh(d))
       /\ _devices[d] \in {NoCard, card[d]} \/ Has(events, Fresh(d))
Corrected == audio => \A d \in cards \ unheard : CorrectedFor(d)

\* A headset with a card has its item, or something that gives it one is on its way.
Coming(d) ==
    \/ Has(signals, {"changed"})
    \/ Has(requests, ListRequest(d)) \/ Has(requests, GetRequest(d))
    \/ Has(events, Replies(d, CardStates \ {NoCard})) \/ Has(events, Fresh(d)) \/ Has(events, Gots)
Filled ==
    audio /\ context = "ready" /\ ~cleared =>
        \A d \in attached \cap (cards \ unheard) : d \in DOMAIN _device_menus \/ Coming(d)

AudioInv ==
    AudioTyped /\ Flags /\ MenuOfCards /\ Unloaded /\ Unready /\ Answered /\ Corrected /\ Filled

LEMMA CardFacts == NoCard \in CardStates /\ NoCard.index = 0 /\ NoCard.profile = FALSE /\ MaxSignals \in Nat \ {0}
BY AudioAssumption DEF NoCard, CardStates

\* The order of the cards of a headset
LEMMA CardOrder ==
    ASSUME NEW c \in CardStates, NEW e \in CardStates
    PROVE  /\ NotAfter(c, c) /\ NotAfter(NoCard, c)
           /\ NotAfter(c, e) /\ NotAfter(e, c) => c = e
           /\ \A f \in CardStates : NotAfter(c, e) /\ NotAfter(e, f) => NotAfter(c, f)
           /\ [c EXCEPT !.profile = TRUE] \in CardStates /\ NotAfter(c, [c EXCEPT !.profile = TRUE])
           /\ [c EXCEPT !.profile = TRUE].index = c.index
           /\ c.index < MaxCards =>
                /\ [index |-> c.index + 1, profile |-> FALSE] \in CardStates
                /\ NotAfter(c, [index |-> c.index + 1, profile |-> FALSE])
<1>0. c.index \in 0 .. MaxCards /\ e.index \in 0 .. MaxCards /\ MaxCards \in Nat
  BY AudioAssumption DEF CardStates
<1>1. \A x, y \in CardStates : x.index = y.index /\ x.profile = y.profile => x = y
  BY DEF CardStates
<1>2. \A x \in CardStates : x.index \in 0 .. MaxCards /\ x.profile \in BOOLEAN
  BY DEF CardStates
<1>3. NotAfter(c, c) /\ NotAfter(NoCard, c)
  BY <1>0, CardFacts DEF NotAfter
<1>4. NotAfter(c, e) /\ NotAfter(e, c) => c = e
  <2> SUFFICES ASSUME NotAfter(c, e), NotAfter(e, c) PROVE c = e
    OBVIOUS
  <2>1. c.index = e.index /\ (c.profile = TRUE <=> e.profile = TRUE)
    BY <1>0 DEF NotAfter
  <2>2. c.profile = e.profile
    BY <1>2, <2>1, Zenon
  <2> QED
    BY <1>1, <2>1, <2>2
<1>5. ASSUME NEW f \in CardStates, NotAfter(c, e), NotAfter(e, f) PROVE NotAfter(c, f)
  <2>1. c.index \in Int /\ e.index \in Int /\ f.index \in Int
    BY <1>0, <1>2
  <2> QED
    BY <1>5, <2>1 DEF NotAfter
<1>6. /\ [c EXCEPT !.profile = TRUE] \in CardStates /\ [c EXCEPT !.profile = TRUE].index = c.index
      /\ [c EXCEPT !.profile = TRUE].profile = TRUE
  BY DEF CardStates
<1>7. NotAfter(c, [c EXCEPT !.profile = TRUE])
  BY <1>6 DEF NotAfter
<1>8. ASSUME c.index < MaxCards
      PROVE  /\ [index |-> c.index + 1, profile |-> FALSE] \in CardStates
             /\ NotAfter(c, [index |-> c.index + 1, profile |-> FALSE])
  BY <1>0, <1>8 DEF CardStates, NotAfter
<1> QED
  BY <1>3, <1>4, <1>5, <1>6, <1>7, <1>8

\* What is told of one headset says nothing of another.
LEMMA AnswerKinds ==
    ASSUME NEW e \in Headsets, NEW c \in CardStates, NEW kind, NEW d \in Headsets
    PROVE  LET m == AboutCard(kind, e, c)
           IN  /\ m.kind = kind /\ m.devs = {e} /\ m.card = c
               /\ \A C : m \in Replies(d, C) <=> kind \in {"listed", "got"} /\ e = d /\ c \in C
               /\ m \in Fresh(d) <=> /\ e = d
                                     /\ \/ kind \in {"listed", "got"} /\ c = card[d]
                                        \/ kind = "event" /\ c.index = card[d].index
               /\ m \in Stale(d) <=> kind \in {"listed", "got"} /\ e = d /\ c \notin {NoCard, card[d]}
               /\ m \in GetRequest(d) <=> kind = "get" /\ e = d /\ c.index = card[d].index
               /\ m \in ListRequest(d) <=> kind = "list" /\ e = d /\ c = NoCard
               /\ m \in Gots <=> kind = "got"
               /\ m \in PulseAnswers <=> kind \in {"event", "listed"} \/ (kind = "got" /\ c # NoCard)
               /\ kind \in {"list", "get", "set"} => m \in PulseRequests
<1> DEFINE m == AboutCard(kind, e, c)
<1>1. m = [kind |-> kind, devs |-> {e}, card |-> c] /\ {e} \in Singles /\ ({e} \in {{d}} <=> e = d)
  BY DEF AboutCard, Singles
<1>2. \A C : m \in Replies(d, C) <=> kind \in {"listed", "got"} /\ e = d /\ c \in C
  BY <1>1 DEF Replies
<1>3. m \in [kind : {"event"}, devs : {{d}}, card : Current(d)] <=> kind = "event" /\ e = d /\ c.index = card[d].index
  BY <1>1 DEF Current
<1>4. m \in GetRequest(d) <=> kind = "get" /\ e = d /\ c.index = card[d].index
  BY <1>1 DEF Current, GetRequest
<1>5. m \in ListRequest(d) <=> kind = "list" /\ e = d /\ c = NoCard
  BY <1>1 DEF ListRequest
<1>6. /\ m \in Gots <=> kind = "got"
      /\ m \in PulseAnswers <=> kind \in {"event", "listed"} \/ (kind = "got" /\ c # NoCard)
      /\ kind \in {"list", "get", "set"} => m \in PulseRequests
  BY <1>1 DEF Gots, PulseAnswers, PulseRequests
<1>7. m.kind = kind /\ m.devs = {e} /\ m.card = c
  BY <1>1
<1> HIDE DEF m
<1>8. m \in Fresh(d) <=> /\ e = d
                         /\ \/ kind \in {"listed", "got"} /\ c = card[d]
                            \/ kind = "event" /\ c.index = card[d].index
  BY <1>2, <1>3 DEF Fresh
<1>9. m \in Stale(d) <=> kind \in {"listed", "got"} /\ e = d /\ c \notin {NoCard, card[d]}
  BY <1>2 DEF Stale
<1> QED
  BY <1>2, <1>4, <1>5, <1>6, <1>7, <1>8, <1>9 DEF m

\* Every message is about one headset, but for the one that subscribes.
LEMMA MessageIsAbout ==
    /\ \A m \in PulseAnswers :
         \E d \in Headsets, c \in CardStates :
            /\ m = AboutCard(m.kind, d, c) /\ m.kind \in {"event", "listed", "got"} /\ (m.kind = "got" => c # NoCard)
    /\ \A m \in PulseRequests :
         \/ m = Subscribe
         \/ m.kind \in {"list", "get", "set"} /\ \E d \in Headsets, c \in CardStates : m = AboutCard(m.kind, d, c)
<1>1. \A m : m.devs \in Singles => \E d \in Headsets : m.devs = {d}
  BY DEF Singles
<1>2. ASSUME NEW m \in PulseAnswers
      PROVE  \E d \in Headsets, c \in CardStates :
               m = AboutCard(m.kind, d, c) /\ m.kind \in {"event", "listed", "got"} /\ (m.kind = "got" => c # NoCard)
  <2>1. /\ m = [kind |-> m.kind, devs |-> m.devs, card |-> m.card] /\ m.devs \in Singles /\ m.card \in CardStates
        /\ m.kind \in {"event", "listed", "got"} /\ (m.kind = "got" => m.card # NoCard)
    BY DEF PulseAnswers
  <2> QED
    BY <1>1, <2>1 DEF AboutCard
<1>3. ASSUME NEW m \in PulseRequests, m # Subscribe
      PROVE  m.kind \in {"list", "get", "set"} /\ \E d \in Headsets, c \in CardStates : m = AboutCard(m.kind, d, c)
  <2>1. /\ m = [kind |-> m.kind, devs |-> m.devs, card |-> m.card] /\ m.devs \in Singles /\ m.card \in CardStates
        /\ m.kind \in {"list", "get", "set"}
    BY <1>3 DEF PulseRequests
  <2> QED
    BY <1>1, <2>1 DEF AboutCard
<1> QED
  BY <1>2, <1>3

\* A queue from which the first is taken
LEMMA FirstTaken ==
    ASSUME NEW S, NEW q \in Seq(S), q # <<>>
    PROVE  /\ Tail(q) \in Seq(S) /\ Head(q) \in S
           /\ \A Y : Has(q, Y) <=> Head(q) \in Y \/ Has(Tail(q), Y)
           /\ \A X, Y : Followed(q, X, Y) =>
                Followed(Tail(q), X, Y) /\ (Head(q) \in X => Has(Tail(q), Y))
<1> DEFINE t == Tail(q)
           h == Head(q)
<1>1. /\ t \in Seq(S) /\ h \in S /\ h = q[1] /\ 1 \in DOMAIN q
      /\ Len(q) \in Nat /\ DOMAIN q = 1 .. Len(q)
      /\ \A i \in DOMAIN t : i + 1 \in DOMAIN q /\ t[i] = q[i + 1] /\ i \in Int
      /\ \A i \in DOMAIN q : i > 1 => i - 1 \in DOMAIN t /\ t[i - 1] = q[i]
  BY Taking
<1> HIDE DEF t, h
<1>2. ASSUME NEW Y PROVE Has(q, Y) <=> h \in Y \/ Has(t, Y)
  <2>1. \A i \in DOMAIN q : i = 1 \/ i > 1
    BY <1>1
  <2> QED
    BY <1>1, <2>1 DEF Has
<1>3. ASSUME NEW X, NEW Y, Followed(q, X, Y) PROVE Followed(t, X, Y) /\ (h \in X => Has(t, Y))
  <2>1. ASSUME NEW i \in DOMAIN t, t[i] \in X PROVE \E j \in DOMAIN t : j > i /\ t[j] \in Y
    <3>1. PICK j \in DOMAIN q : j > i + 1 /\ q[j] \in Y
      BY <1>1, <1>3, <2>1 DEF Followed
    <3>2. j > 1 /\ j - 1 > i
      BY <1>1, <3>1
    <3> QED
      BY <1>1, <3>1, <3>2
  <2>2. ASSUME h \in X PROVE \E j \in DOMAIN t : t[j] \in Y
    <3>1. PICK j \in DOMAIN q : j > 1 /\ q[j] \in Y
      BY <1>1, <1>3, <2>2 DEF Followed
    <3> QED
      BY <1>1, <3>1
  <2> QED
    BY <2>1, <2>2 DEF Followed, Has
<1> QED
  BY <1>1, <1>2, <1>3 DEF t, h

\* The sets of messages about a headset whose card stays
LEMMA SameCard ==
    ASSUME NEW d, card'[d] = card[d]
    PROVE  /\ Fresh(d)' = Fresh(d) /\ Stale(d)' = Stale(d) /\ GetRequest(d)' = GetRequest(d)
           /\ \A q : InOrder(q, d)' <=> InOrder(q, d)
<1>1. Fresh(d)' = Fresh(d) /\ Stale(d)' = Stale(d) /\ GetRequest(d)' = GetRequest(d)
  BY DEF Fresh, Stale, GetRequest, Current, Replies
<1> QED
  BY <1>1 DEF InOrder

LEMMA OrderOfAnswers ==
    ASSUME NEW d \in Headsets, NEW q \in Seq(PulseAnswers), InOrder(q, d)
    PROVE  /\ q # <<>> => /\ InOrder(Tail(q), d)
                          /\ Head(q) \in Replies(d, {card[d]}) => ~Has(Tail(q), Stale(d))
           /\ \A m \in PulseAnswers :
                (m \in Replies(d, CardStates) => NotAfter(m.card, card[d])) /\ m \notin Stale(d) =>
                    InOrder(Append(q, m), d)
<1>1. ASSUME q # <<>>
      PROVE  InOrder(Tail(q), d) /\ (Head(q) \in Replies(d, {card[d]}) => ~Has(Tail(q), Stale(d)))
  <2> DEFINE t == Tail(q)
             h == Head(q)
  <2>1. /\ h = q[1] /\ 1 \in DOMAIN q /\ Len(q) \in Nat
        /\ \A i \in DOMAIN t : i + 1 \in DOMAIN q /\ t[i] = q[i + 1] /\ i \in Int /\ i >= 1
    BY <1>1, Taking
  <2> HIDE DEF t, h
  <2>2. \A i, j \in DOMAIN t : i < j => i + 1 < j + 1
    BY <2>1
  <2>3. InOrder(t, d)
    BY <2>1, <2>2 DEF InOrder
  <2>4. \A i \in DOMAIN t : 1 < i + 1
    BY <2>1
  <2>5. h \in Replies(d, {card[d]}) => ~Has(t, Stale(d))
    BY <2>1, <2>4 DEF InOrder, Has
  <2> QED
    BY <2>3, <2>5 DEF t, h
<1>2. ASSUME NEW m \in PulseAnswers, m \in Replies(d, CardStates) => NotAfter(m.card, card[d]), m \notin Stale(d)
      PROVE  InOrder(Append(q, m), d)
  <2> DEFINE a == Append(q, m)
  <2>1. /\ DOMAIN a = DOMAIN q \cup {Len(q) + 1} /\ a[Len(q) + 1] = m /\ \A i \in DOMAIN q : a[i] = q[i]
        /\ \A i \in DOMAIN a : i \in Int /\ i <= Len(q) + 1
        /\ Len(q) \in Nat
    BY Appending
  <2> HIDE DEF a
  <2>2. \A i, j \in DOMAIN a : i < j => i \in DOMAIN q
    BY <2>1
  <2>3. InOrder(a, d)
    BY <1>2, <2>1, <2>2 DEF InOrder
  <2> QED
    BY <2>3 DEF a
<1> QED
  BY <1>1, <1>2
LEMMA GenerateFills ==
    ASSUME NEW menus, NEW texts, NEW knows \in [Headsets -> CardStates], MenuWell(menus, texts, knows),
           attached \subseteq Headsets, requests \in Seq(PulseRequests),
           NEW subscribe \in Seq(PulseRequests), Generate(menus, texts, knows, subscribe)
    PROVE  /\ cleared' = FALSE /\ MenuWell(_device_menus', lines', knows)
           /\ requests' \in Seq(PulseRequests) /\ \A Y : Has(requests, Y) => Has(requests', Y)
           /\ \A d \in attached : d \in DOMAIN _device_menus' \/ Has(requests', ListRequest(d))
<1> DEFINE shown == {d \in attached : knows[d] # NoCard}
           unknown == {d \in attached : knows[d] = NoCard}
<1>1. IsFiniteSet(shown) /\ IsFiniteSet(unknown)
  BY AudioAssumption, FS_Subset
<1>2. PICK s \in Listings(shown) : Add(s, menus, texts)
  BY DEF Generate
<1>3. PICK new \in Listings(unknown) :
        requests' = requests \o [i \in DOMAIN new |-> AboutCard("list", new[i], NoCard)] \o subscribe
  BY DEF Generate
<1>4. MenuWell(_device_menus', lines', knows) /\ DOMAIN _device_menus' = shown \cup DOMAIN menus
  BY <1>1, <1>2, ItemsAdded
<1> DEFINE asked == [i \in DOMAIN new |-> AboutCard("list", new[i], NoCard)]
<1>5. /\ DOMAIN new = 1 .. Len(new) /\ Len(new) \in Nat
      /\ \A i \in DOMAIN new : new[i] \in unknown
      /\ \A d \in unknown : \E i \in DOMAIN new : new[i] = d
  BY <1>1, <1>3, ListingHasAll
<1>6. \A d \in Headsets : AboutCard("list", d, NoCard) \in PulseRequests /\ AboutCard("list", d, NoCard) \in ListRequest(d)
  BY CardFacts, AnswerKinds
<1>7. asked \in Seq(PulseRequests) /\ DOMAIN asked = DOMAIN new
  <2>1. \A i \in 1 .. Len(new) : AboutCard("list", new[i], NoCard) \in PulseRequests
    BY <1>5, <1>6
  <2>2. asked = [i \in 1 .. Len(new) |-> AboutCard("list", new[i], NoCard)]
    BY <1>5
  <2> HIDE DEF asked
  <2> QED
    BY <1>5, <2>1, <2>2
<1>8. \A d \in unknown : Has(asked, ListRequest(d))
  <2> SUFFICES ASSUME NEW d \in unknown PROVE Has(asked, ListRequest(d))
    OBVIOUS
  <2>1. PICK i \in DOMAIN new : new[i] = d
    BY <1>5
  <2>2. asked[i] \in ListRequest(d)
    BY <1>6, <2>1
  <2> QED
    BY <1>7, <2>2 DEF Has
<1> HIDE DEF asked
<1>9. requests' = (requests \o asked) \o subscribe
  BY <1>3 DEF asked
<1>10. requests \o asked \in Seq(PulseRequests) /\ \A Y : Has(requests \o asked, Y) <=> Has(requests, Y) \/ Has(asked, Y)
  BY <1>7, Saying
<1>11. requests' \in Seq(PulseRequests) /\ \A Y : Has(requests', Y) <=> Has(requests, Y) \/ Has(asked, Y) \/ Has(subscribe, Y)
  BY <1>9, <1>10, Saying
<1>12. \A d \in attached : d \in shown \/ d \in unknown
  OBVIOUS
<1> HIDE DEF shown, unknown
<1>13. cleared' = FALSE
  BY DEF Generate
<1> QED
  BY <1>4, <1>8, <1>11, <1>12, <1>13
\* What a step leaves as it is for one headset
LEMMA KeptFor ==
    ASSUME NEW d, card'[d] = card[d], _devices'[d] = _devices[d], events' = events,
           \A Y : Has(requests, Y) => Has(requests', Y)
    PROVE  /\ CorrectedFor(d) => CorrectedFor(d)'
           /\ Coming(d) /\ (Has(signals, {"changed"}) => Has(signals', {"changed"})) => Coming(d)'
<1>1. Fresh(d)' = Fresh(d) /\ Stale(d)' = Stale(d) /\ GetRequest(d)' = GetRequest(d)
  BY SameCard
<1> QED
  BY <1>1 DEF CorrectedFor, Coming, ListRequest, Replies, Gots

\* What the handling of an event that does not say which card d has leaves for d
LEMMA HeardOfOther ==
    ASSUME NEW d, card'[d] = card[d], _devices'[d] = _devices[d],
           events \in Seq(PulseAnswers), events # <<>>, events' = Tail(events),
           \A Y : Has(requests, Y) => Has(requests', Y),
           Head(events) \in Fresh(d) => Has(requests', GetRequest(d))
    PROVE  /\ CorrectedFor(d) => CorrectedFor(d)'
           /\ Coming(d) /\ UNCHANGED signals /\ Head(events) \notin Replies(d, CardStates \ {NoCard}) \cup Gots
                => Coming(d)'
<1>1. Fresh(d)' = Fresh(d) /\ Stale(d)' = Stale(d) /\ GetRequest(d)' = GetRequest(d)
  BY SameCard
<1>2. /\ \A Y : Has(events, Y) <=> Head(events) \in Y \/ Has(events', Y)
      /\ \A X, Y : Followed(events, X, Y) => Followed(events', X, Y)
  BY FirstTaken
<1>3. CorrectedFor(d) => CorrectedFor(d)'
  <2>1. CASE Has(requests', GetRequest(d))
    BY <1>1, <2>1 DEF CorrectedFor
  <2>2. CASE ~Has(requests', GetRequest(d))
    <3>1. ~Has(requests, GetRequest(d)) /\ Head(events) \notin Fresh(d)
      BY <2>2
    <3>2. Has(events, Fresh(d)) => Has(events', Fresh(d))
      BY <1>2, <3>1
    <3>3. Followed(events, Stale(d), Fresh(d)) => Followed(events', Stale(d), Fresh(d))
      BY <1>2
    <3> QED
      BY <1>1, <3>1, <3>2, <3>3 DEF CorrectedFor
  <2> QED
    BY <2>1, <2>2
<1>4. ASSUME Coming(d), UNCHANGED signals, Head(events) \notin Replies(d, CardStates \ {NoCard}) \cup Gots
      PROVE  Coming(d)'
  <2> DEFINE X == Replies(d, CardStates \ {NoCard})
  <2>1. X' = X /\ Gots' = Gots /\ ListRequest(d)' = ListRequest(d)
    BY DEF Replies, Gots, ListRequest
  <2>2. \/ Has(signals, {"changed"})
        \/ Has(requests, ListRequest(d)) \/ Has(requests, GetRequest(d))
        \/ Has(events, X) \/ Has(events, Fresh(d)) \/ Has(events, Gots)
    BY <1>4 DEF Coming
  <2>3. \/ Has(signals', {"changed"})
        \/ Has(requests', ListRequest(d)) \/ Has(requests', GetRequest(d))
        \/ Has(events', X) \/ Has(events', Fresh(d)) \/ Has(events', Gots)
    <3> HIDE DEF X
    <3>1. Has(requests, ListRequest(d)) => Has(requests', ListRequest(d))
      OBVIOUS
    <3>2. Has(requests, GetRequest(d)) => Has(requests', GetRequest(d))
      OBVIOUS
    <3>3. Has(events, X) => Head(events) \in X \/ Has(events', X)
      BY <1>2
    <3>4. Has(events, Fresh(d)) => Head(events) \in Fresh(d) \/ Has(events', Fresh(d))
      BY <1>2
    <3>5. Has(events, Gots) => Head(events) \in Gots \/ Has(events', Gots)
      BY <1>2
    <3>6. Head(events) \notin X /\ Head(events) \notin Gots
      BY <1>4 DEF X
    <3> QED
      BY <1>4, <2>2, <3>1, <3>2, <3>3, <3>4, <3>5, <3>6
  <2> QED
    BY <1>1, <2>1, <2>3 DEF Coming
<1> QED
  BY <1>3, <1>4

\* The order of the answers, when the first is taken or none
LEMMA AnsweredKept ==
    ASSUME Answered, events \in Seq(PulseAnswers), UNCHANGED card,
           events' = events \/ (events # <<>> /\ events' = Tail(events))
    PROVE  Answered'
<1> SUFFICES ASSUME NEW d \in Headsets PROVE InOrder(events, d)'
  BY DEF Answered
<1>1. InOrder(events', d)
  BY OrderOfAnswers DEF Answered
<1>2. Stale(d)' = Stale(d) /\ Replies(d, {card[d]})' = Replies(d, {card[d]})
      /\ Replies(d, CardStates)' = Replies(d, CardStates)
  BY SameCard DEF Replies
<1> QED
  BY <1>1, <1>2 DEF InOrder

LEMMA EmptyMenu == \A knows : MenuWell(Nothing, Nothing, knows)
<1>1. DOMAIN Nothing = {}
  BY DEF Nothing
<1> QED
  BY <1>1 DEF MenuWell

\* The steps of BlueZ and of the connection that touch nothing on its way
LEMMA AttachesKeeps ==
    ASSUME AudioInv, NEW x \in Headsets, Attaches(x)
    PROVE  AudioInv'
<1>0. AudioTyped /\ Flags /\ MenuOfCards /\ Unloaded /\ Unready /\ Answered /\ Corrected /\ Filled
  BY DEF AudioInv
<1>1. /\ UNCHANGED <<audio, cards, card, context, reconnecting, subscribed, requests, events, unheard, _devices,
                     _device_menus, lines, cleared>>
      /\ signals' = Append(signals, "changed") /\ attached' = (attached \cup {x}) \ (attached \cap {x}) /\ ~Busy
  BY DEF Attaches, pulseVars, menuVars
<1>2. /\ signals' \in Seq({"changed", "state"}) /\ Len(signals') = Len(signals) + 1 /\ Has(signals', {"changed"})
  <2>1. signals \in Seq({"changed", "state"}) /\ "changed" \in {"changed", "state"}
    BY <1>0 DEF AudioTyped
  <2>2. Len(signals) + 1 \in DOMAIN signals' /\ signals'[Len(signals) + 1] = "changed"
    BY <1>1, <2>1, Appending
  <2> QED
    BY <1>1, <2>1, <2>2 DEF Has
<1>3. Len(signals') <= MaxSignals
  <2>1. Len(signals) \in Nat /\ Len(requests) \in Nat /\ Len(events) \in Nat
    BY <1>0 DEF AudioTyped
  <2> QED
    BY <1>1, <1>2, <2>1, CardFacts DEF Busy
<1>4. AudioTyped'
  BY <1>0, <1>1, <1>2, <1>3 DEF AudioTyped
<1>5. Flags' /\ MenuOfCards' /\ Unloaded' /\ Unready' /\ Answered'
  BY <1>0, <1>1, AnsweredKept DEF AudioTyped, Flags, MenuOfCards, Unloaded, Unready
<1>6. Corrected'
  BY <1>0, <1>1, KeptFor DEF Corrected
<1>7. Filled'
  BY <1>2 DEF Filled, Coming
<1> QED
  BY <1>4, <1>5, <1>6, <1>7 DEF AudioInv

LEMMA CardGoesKeeps ==
    ASSUME AudioInv, NEW x \in Headsets, CardGoes(x)
    PROVE  AudioInv'
<1>0. AudioTyped /\ Flags /\ MenuOfCards /\ Unloaded /\ Unready /\ Answered /\ Corrected /\ Filled
  BY DEF AudioInv
<1>1. /\ UNCHANGED <<audio, attached, signals, card, context, reconnecting, subscribed, requests, events, unheard,
                     _devices, _device_menus, lines, cleared>>
      /\ cards' = cards \ {x}
  BY DEF CardGoes, serviceRest, menuVars
<1>2. AudioTyped' /\ Flags' /\ MenuOfCards' /\ Unloaded' /\ Unready' /\ Answered'
  BY <1>0, <1>1, AnsweredKept DEF AudioTyped, Flags, MenuOfCards, Unloaded, Unready
<1>3. Corrected'
  BY <1>0, <1>1, KeptFor DEF Corrected
<1>4. Filled'
  BY <1>0, <1>1, KeptFor DEF Filled
<1> QED
  BY <1>2, <1>3, <1>4 DEF AudioInv

LEMMA ConnectionKeeps ==
    ASSUME AudioInv, Fails \/ Reconnects
    PROVE  AudioInv'
<1>0. AudioTyped /\ Flags /\ MenuOfCards /\ Unloaded /\ Unready /\ Answered /\ Corrected /\ Filled
  BY DEF AudioInv
<1>1. CASE Fails
  <2>1. /\ UNCHANGED <<attached, signals, card, audio, unheard, _devices, _device_menus, lines, cleared>>
        /\ context' = "failed" /\ subscribed' = FALSE /\ requests' = <<>> /\ events' = <<>> /\ cards' = {}
        /\ reconnecting' = (reconnecting \/ context = "ready")
    BY <1>1 DEF Fails, menuVars
  <2>2. requests' \in Seq(PulseRequests) /\ events' \in Seq(PulseAnswers) /\ DOMAIN events' = {}
    BY <2>1
  <2>3. AudioTyped'
    BY <1>0, <2>1, <2>2 DEF AudioTyped
  <2>4. Flags' /\ MenuOfCards' /\ Unloaded' /\ Unready'
    BY <1>0, <2>1 DEF Flags, MenuOfCards, Unloaded, Unready
  <2>5. Answered'
    BY <2>2 DEF Answered, InOrder
  <2>6. Corrected' /\ Filled'
    BY <2>1 DEF Corrected, Filled
  <2> QED
    BY <2>3, <2>4, <2>5, <2>6 DEF AudioInv
<1>2. CASE Reconnects
  <2>1. /\ UNCHANGED <<attached, signals, cards, card, audio, unheard, subscribed, requests, events, _devices,
                       _device_menus, lines, cleared>>
        /\ context' = (IF context = "ready" THEN context ELSE "connecting") /\ reconnecting' = FALSE
    BY <1>2 DEF Reconnects, menuVars
  <2>2. AudioTyped' /\ Flags' /\ MenuOfCards' /\ Unloaded' /\ Unready' /\ Answered'
    BY <1>0, <2>1, AnsweredKept DEF AudioTyped, Flags, MenuOfCards, Unloaded, Unready
  <2>3. Corrected'
    BY <1>0, <2>1, KeptFor DEF Corrected
  <2>4. Filled'
    BY <1>0, <2>1, KeptFor DEF Filled
  <2> QED
    BY <2>2, <2>3, <2>4 DEF AudioInv
<1> QED
  BY <1>1, <1>2

\* on_unload and on_load: nothing that is on its way is an answer when the plugin is loaded.
LEMMA LoadKeeps ==
    ASSUME AudioInv, on_unload \/ on_load
    PROVE  AudioInv'
<1>0. AudioTyped /\ Flags /\ MenuOfCards /\ Unloaded /\ Unready /\ Answered /\ Corrected /\ Filled
  BY DEF AudioInv
<1>1. CASE on_unload
  <2>1. /\ UNCHANGED <<attached, signals, cards, card, context, reconnecting, subscribed, requests, events, unheard>>
        /\ audio' = FALSE /\ _device_menus' = Nothing /\ lines' = Nothing /\ cleared' = TRUE
        /\ _devices' = [d \in Headsets |-> NoCard]
    BY <1>1 DEF on_unload, clear_menu, pulseVars
  <2>2. _devices' \in [Headsets -> CardStates] /\ \A d \in Headsets : _devices'[d] = NoCard
    BY <2>1, CardFacts
  <2>3. AudioTyped' /\ Flags' /\ Unloaded' /\ Unready' /\ Answered'
    BY <1>0, <2>1, <2>2, AnsweredKept DEF AudioTyped, Flags, Unloaded, Unready
  <2>4. MenuOfCards'
    BY <2>1, EmptyMenu DEF MenuOfCards, MenuWell
  <2>5. Corrected' /\ Filled'
    BY <2>1 DEF Corrected, Filled
  <2> QED
    BY <2>3, <2>4, <2>5 DEF AudioInv
<1>2. CASE on_load
  <2>1. /\ UNCHANGED <<attached, signals, cards, card, context, reconnecting, subscribed, requests, events, unheard,
                       _devices, _device_menus, lines>>
        /\ ~audio /\ audio' = TRUE /\ cleared' = TRUE
        /\ \A i \in DOMAIN events : events[i].kind \in {"subscribe", "event"}
    BY <1>2 DEF on_load, pulseVars
  <2>2. AudioTyped' /\ Flags' /\ MenuOfCards' /\ Unloaded' /\ Unready' /\ Answered'
    BY <1>0, <2>1, AnsweredKept DEF AudioTyped, Flags, MenuOfCards, Unloaded, Unready
  <2>3. ASSUME NEW d \in Headsets PROVE CorrectedFor(d)'
    <3>1. \A i \in DOMAIN events : events[i] \notin Stale(d)
      BY <2>1 DEF Stale, Replies
    <3>2. Followed(events', Stale(d)', Fresh(d)')
      BY <2>1, <3>1, SameCard DEF Followed
    <3>3. _devices'[d] = NoCard
      BY <1>0, <2>1 DEF Unloaded
    <3> QED
      BY <3>2, <3>3 DEF CorrectedFor
  <2>4. Corrected' /\ Filled'
    BY <2>1, <2>2, <2>3 DEF Corrected, Filled, AudioTyped
  <2> QED
    BY <2>2, <2>4 DEF AudioInv
<1> QED
  BY <1>1, <1>2
\* The steps that fill the menu: who hears of a device, gets a card or is connected
LEMMA MenuHearsKeeps ==
    ASSUME AudioInv, MenuHears
    PROVE  AudioInv'
<1>0. AudioTyped /\ Flags /\ MenuOfCards /\ Unloaded /\ Unready /\ Answered /\ Corrected /\ Filled
  BY DEF AudioInv
<1>1. /\ UNCHANGED <<attached, audio, _devices, cards, card, context, reconnecting, subscribed, events, unheard>>
      /\ signals # <<>> /\ signals' = Tail(signals)
      /\ \/ ~audio /\ UNCHANGED <<requests, _device_menus, lines, cleared>>
         \/ audio /\ Head(signals) = "changed" /\ Regenerate(_devices)
         \/ /\ audio /\ Head(signals) = "state" /\ UNCHANGED requests
            /\ _device_menus' = Nothing /\ lines' = Nothing /\ cleared' = TRUE
  <2>1. Head(signals) \in {"changed", "state"}
    BY <1>0, FirstTaken DEF MenuHears, AudioTyped
  <2> QED
    BY <1>0, <2>1 DEF MenuHears, clear_menu, Flags
<1>2. signals' \in Seq({"changed", "state"}) /\ Len(signals') <= MaxSignals
  <2>1. Len(signals) \in Nat /\ Len(signals') = Len(signals) - 1 /\ Len(signals) <= MaxSignals
        /\ signals' \in Seq({"changed", "state"})
    BY <1>0, <1>1, Taking DEF AudioTyped
  <2> QED
    BY <2>1, CardFacts
<1>3. CASE UNCHANGED requests /\ cleared' \in BOOLEAN /\ MenuOfCards' /\ Unloaded' /\ Filled'
  <2>1. AudioTyped' /\ Flags' /\ Unready' /\ Answered'
    BY <1>0, <1>1, <1>2, <1>3, AnsweredKept DEF AudioTyped, Flags, Unready
  <2>2. Corrected'
    BY <1>0, <1>1, <1>3, KeptFor DEF Corrected
  <2> QED
    BY <1>3, <2>1, <2>2 DEF AudioInv
<1>4. CASE ~audio /\ UNCHANGED <<requests, _device_menus, lines, cleared>>
  <2>1. cleared' \in BOOLEAN /\ MenuOfCards' /\ Unloaded' /\ Filled'
    BY <1>0, <1>1, <1>4 DEF Flags, MenuOfCards, Unloaded, Filled
  <2> QED
    BY <1>3, <1>4, <2>1
<1>5. CASE audio /\ _device_menus' = Nothing /\ lines' = Nothing /\ UNCHANGED requests /\ (cleared' = TRUE \/ (context # "ready" /\ UNCHANGED cleared))
  <2>1. MenuOfCards'
    BY <1>5, EmptyMenu DEF MenuOfCards, MenuWell
  <2>2. cleared' \in BOOLEAN /\ Unloaded' /\ Filled'
    BY <1>0, <1>1, <1>5 DEF Flags, Unloaded, Filled
  <2> QED
    BY <1>3, <1>5, <2>1, <2>2
<1>6. CASE audio /\ context = "ready" /\ Generate(Nothing, Nothing, _devices, <<>>)
  <2>0. <<>> \in Seq(PulseRequests)
    OBVIOUS
  <2>1. /\ cleared' = FALSE /\ MenuWell(_device_menus', lines', _devices)
        /\ requests' \in Seq(PulseRequests) /\ \A Y : Has(requests, Y) => Has(requests', Y)
        /\ \A d \in attached : d \in DOMAIN _device_menus' \/ Has(requests', ListRequest(d))
    BY <1>0, <1>6, <2>0, EmptyMenu, GenerateFills DEF AudioTyped
  <2>2. AudioTyped' /\ Flags' /\ Unready' /\ Unloaded' /\ Answered'
    BY <1>0, <1>1, <1>2, <1>6, <2>1, AnsweredKept DEF AudioTyped, Flags, Unready, Unloaded
  <2>3. MenuOfCards'
    BY <1>1, <2>1 DEF MenuOfCards, MenuWell
  <2>4. Corrected'
    BY <1>0, <1>1, <2>1, KeptFor DEF Corrected
  <2>5. Filled'
    BY <1>1, <2>1 DEF Filled, Coming, ListRequest
  <2> QED
    BY <2>2, <2>3, <2>4, <2>5 DEF AudioInv
<1> QED
  BY <1>1, <1>4, <1>5, <1>6 DEF Regenerate

LEMMA ReadyKeeps ==
    ASSUME AudioInv, Ready
    PROVE  AudioInv'
<1>0. AudioTyped /\ Flags /\ MenuOfCards /\ Unloaded /\ Unready /\ Answered /\ Corrected /\ Filled
  BY DEF AudioInv
<1>1. /\ UNCHANGED <<attached, signals, audio, _devices, cards, card, subscribed, events, unheard>>
      /\ context = "connecting" /\ context' = "ready" /\ reconnecting' = FALSE
      /\ \/ audio /\ Generate(_device_menus, lines, _devices, <<Subscribe>>)
         \/ ~audio /\ requests' = <<Subscribe>> /\ UNCHANGED <<_device_menus, lines, cleared>>
  BY DEF Ready
<1>2. <<Subscribe>> \in Seq(PulseRequests)
  BY DEF PulseRequests
<1>3. events' = <<>> /\ DOMAIN events' = {} /\ \A d \in cards \ unheard : _devices[d] = NoCard
  BY <1>0, <1>1 DEF Unready
<1>4. Answered'
  BY <1>0, <1>1, AnsweredKept DEF AudioTyped
<1>5. Corrected'
  BY <1>1, <1>3 DEF Corrected, CorrectedFor, Followed
<1>6. CASE audio /\ Generate(_device_menus, lines, _devices, <<Subscribe>>)
  <2>1. /\ cleared' = FALSE /\ MenuWell(_device_menus', lines', _devices)
        /\ requests' \in Seq(PulseRequests)
        /\ \A d \in attached : d \in DOMAIN _device_menus' \/ Has(requests', ListRequest(d))
    BY <1>0, <1>2, <1>6, GenerateFills DEF AudioTyped, MenuOfCards
  <2>2. AudioTyped' /\ Flags' /\ Unready' /\ Unloaded'
    BY <1>0, <1>1, <1>6, <2>1 DEF AudioTyped, Flags, Unready, Unloaded
  <2>3. MenuOfCards'
    BY <1>1, <2>1 DEF MenuOfCards, MenuWell
  <2>4. Filled'
    BY <1>1, <2>1 DEF Filled, Coming, ListRequest
  <2> QED
    BY <1>4, <1>5, <2>2, <2>3, <2>4 DEF AudioInv
<1>7. CASE ~audio /\ requests' = <<Subscribe>> /\ UNCHANGED <<_device_menus, lines, cleared>>
  <2>1. AudioTyped' /\ Flags' /\ Unready' /\ Unloaded' /\ MenuOfCards'
    BY <1>0, <1>1, <1>2, <1>7 DEF AudioTyped, Flags, Unready, Unloaded, MenuOfCards
  <2>2. Filled'
    BY <1>1, <1>7 DEF Filled
  <2> QED
    BY <1>4, <1>5, <2>1, <2>2 DEF AudioInv
<1> QED
  BY <1>1, <1>6, <1>7

\* The user picks a profile.
LEMMA PickKeeps ==
    ASSUME AudioInv, NEW x \in Headsets, on_activate_profile(x)
    PROVE  AudioInv'
<1>0. AudioTyped /\ Flags /\ MenuOfCards /\ Unloaded /\ Unready /\ Answered /\ Corrected /\ Filled
  BY DEF AudioInv
<1> DEFINE m == AboutCard("set", x, _devices[x])
<1>1. /\ UNCHANGED <<attached, signals, audio, cards, card, context, reconnecting, subscribed, events, unheard,
                     _devices, _device_menus, lines, cleared>>
      /\ requests' = Append(requests, m) /\ context = "ready"
  BY DEF on_activate_profile, menuVars
<1>2. m \in PulseRequests
  <2>1. _devices[x] \in CardStates
    BY <1>0 DEF AudioTyped
  <2>2. AboutCard("set", x, _devices[x]) \in PulseRequests
    BY <2>1, AnswerKinds
  <2> QED
    BY <2>2
<1> HIDE DEF m
<1>3. requests \in Seq(PulseRequests)
  BY <1>0 DEF AudioTyped
<1>4. requests' \in Seq(PulseRequests) /\ \A Y : Has(requests, Y) => Has(requests', Y)
  BY <1>1, <1>2, <1>3, Appending, AppendHas
<1>5. AudioTyped' /\ Flags' /\ MenuOfCards' /\ Unloaded' /\ Unready' /\ Answered'
  BY <1>0, <1>1, <1>4, AnsweredKept DEF AudioTyped, Flags, MenuOfCards, Unloaded, Unready
<1>6. Corrected'
  BY <1>0, <1>1, <1>4, KeptFor DEF Corrected
<1>7. Filled'
  BY <1>0, <1>1, <1>4, KeptFor DEF Filled
<1> QED
  BY <1>5, <1>6, <1>7 DEF AudioInv
\* A card that comes or changes: an event tells of it, or nothing is known that it makes wrong.
LEMMA CardBecomesKeeps ==
    ASSUME AudioInv, NEW x \in Headsets, NEW c \in CardStates, c.index # 0, NotAfter(card[x], c),
           CardBecomes(x, c), cards' = cards \/ cards' = cards \cup {x},
           requests' \in Seq(PulseRequests), context = "ready" \/ UNCHANGED requests,
           \A d \in Headsets : /\ Has(requests, GetRequest(d)) => Has(requests', GetRequest(d))
                               /\ Has(requests, ListRequest(d)) => Has(requests', ListRequest(d)),
           UNCHANGED serviceRest, UNCHANGED menuVars
    PROVE  AudioInv'
<1>0. AudioTyped /\ Flags /\ MenuOfCards /\ Unloaded /\ Unready /\ Answered /\ Corrected /\ Filled
  BY DEF AudioInv
<1> DEFINE m == AboutCard("event", x, c)
<1>1. /\ UNCHANGED <<attached, signals, context, reconnecting, subscribed, audio,
                     _devices, _device_menus, lines, cleared>>
      /\ card' = [card EXCEPT ![x] = c]
      /\ \/ subscribed /\ events' = Append(events, m) /\ UNCHANGED unheard
         \/ ~subscribed /\ UNCHANGED events /\ x \in unheard' /\ unheard' = unheard \cup {x}
         \/ ~subscribed /\ UNCHANGED <<events, unheard>> /\ context # "ready" /\ _devices[x] = NoCard
  BY <1>0 DEF CardBecomes, serviceRest, menuVars, Flags
<1>2. /\ card' \in [Headsets -> CardStates] /\ card'[x] = c /\ \A d \in Headsets : d # x => card'[d] = card[d]
      /\ events \in Seq(PulseAnswers) /\ card[x] \in CardStates
  BY <1>0, <1>1 DEF AudioTyped
<1>3. /\ m \in PulseAnswers /\ m \in Fresh(x)' /\ m \notin Stale(x)'
      /\ \A d \in Headsets : m \notin Replies(d, CardStates) /\ m \notin Stale(d)
  <2>1. m = [kind |-> "event", devs |-> {x}, card |-> c]
    BY DEF AboutCard
  <2>2. c \in Current(x)'
    BY <1>2 DEF Current, CardStates
  <2> HIDE DEF m
  <2>3. m \in PulseAnswers
    BY <2>1 DEF PulseAnswers, Singles
  <2>4. m \in Fresh(x)'
    BY <2>1, <2>2 DEF Fresh
  <2>5. m \notin Stale(x)' /\ \A d \in Headsets : m \notin Replies(d, CardStates) /\ m \notin Stale(d)
    BY <2>1 DEF Stale, Replies
  <2> QED
    BY <2>3, <2>4, <2>5
<1> HIDE DEF m
<1>4. /\ events' \in Seq(PulseAnswers) /\ \A Y : Has(events, Y) => Has(events', Y)
      /\ (subscribed => Has(events', Fresh(x)'))
  <2>1. Append(events, m) \in Seq(PulseAnswers) /\ \A Y : Has(Append(events, m), Y) <=> Has(events, Y) \/ m \in Y
    <3>1. ASSUME NEW Y PROVE Has(Append(events, m), Y) <=> Has(events, Y) \/ m \in Y
      BY <1>2, <1>3, AppendHas
    <3> QED
      BY <1>2, <1>3, <3>1, Appending
  <2> QED
    BY <1>1, <1>2, <1>3, <2>1
<1>5. AudioTyped'
  <2>1. cards' \subseteq Headsets /\ unheard' \subseteq Headsets
    BY <1>0, <1>1 DEF AudioTyped
  <2>2. \A d \in cards' : card'[d].index # 0
    BY <1>0, <1>2 DEF AudioTyped
  <2> QED
    BY <1>0, <1>1, <1>2, <1>4, <2>1, <2>2 DEF AudioTyped
<1>6. Flags' /\ MenuOfCards' /\ Unloaded'
  BY <1>0, <1>1 DEF Flags, MenuOfCards, MenuWell, Unloaded
<1>7. Unready'
  <2> SUFFICES ASSUME context # "ready" PROVE requests' = <<>> /\ events' = <<>> /\ ~subscribed /\ \A d \in cards' \ unheard' : _devices[d] = NoCard
    BY <1>1 DEF Unready
  <2>1. requests = <<>> /\ events = <<>> /\ ~subscribed /\ \A d \in cards \ unheard : _devices[d] = NoCard
    BY <1>0 DEF Unready
  <2> QED
    BY <1>1, <2>1
<1>8. ASSUME NEW d \in Headsets, card'[d] = card[d] PROVE InOrder(events, d)' /\ (Corrected /\ d \in cards \ unheard /\ audio => CorrectedFor(d)')
  <2>1. InOrder(events, d) /\ Fresh(d)' = Fresh(d) /\ Stale(d)' = Stale(d) /\ GetRequest(d)' = GetRequest(d)
    BY <1>0, <1>8, SameCard DEF Answered
  <2>2. InOrder(events', d)
    <3>1. m \in Replies(d, CardStates) => NotAfter(m.card, card[d])
      BY <1>3
    <3>2. InOrder(Append(events, m), d)
      BY <1>2, <1>3, <2>1, <3>1, OrderOfAnswers
    <3> QED
      BY <1>1, <2>1, <3>2
  <2>3. InOrder(events, d)'
    BY <1>8, <2>2, SameCard
  <2>4. Followed(events, Stale(d), Fresh(d)) => Followed(events', Stale(d), Fresh(d))
    <3>1. Followed(events, Stale(d), Fresh(d)) => Followed(Append(events, m), Stale(d), Fresh(d))
      BY <1>2, <1>3, AppendFollowed
    <3> QED
      BY <1>1, <3>1
  <2>5. CorrectedFor(d) => CorrectedFor(d)'
    <3>1. Has(requests, GetRequest(d)) => Has(requests', GetRequest(d))
      OBVIOUS
    <3>2. Has(events, Fresh(d)) => Has(events', Fresh(d))
      BY <1>4
    <3>3. _devices' = _devices
      BY <1>1
    <3> QED
      BY <1>8, <2>1, <2>4, <3>1, <3>2, <3>3 DEF CorrectedFor
  <2> QED
    BY <2>3, <2>5 DEF Corrected
<1>9. Answered'
  <2> SUFFICES ASSUME NEW d \in Headsets PROVE InOrder(events, d)'
    BY DEF Answered
  <2>1. CASE card'[d] = card[d]
    BY <1>8, <2>1
  <2>2. CASE card'[d] # card[d]
    <3>1. d = x /\ c # card[x]
      BY <1>2, <2>2
    <3>2. \A i \in DOMAIN events : events[i] \in Replies(x, CardStates) => NotAfter(events[i].card, card[x])
      BY <1>0 DEF Answered, InOrder
    <3>3. \A i \in DOMAIN events' :
            events'[i] \in Replies(x, CardStates) => i \in DOMAIN events /\ events'[i] = events[i]
      BY <1>1, <1>2, <1>3, Appending
    <3>4. \A i \in DOMAIN events' : events'[i] \in Replies(x, CardStates) =>
            events'[i].card \in CardStates /\ NotAfter(events'[i].card, card[x])
      BY <3>2, <3>3 DEF Replies
    <3>5. \A a \in CardStates : NotAfter(a, card[x]) => NotAfter(a, c) /\ a # c
      <4> SUFFICES ASSUME NEW a \in CardStates, NotAfter(a, card[x]) PROVE NotAfter(a, c) /\ a # c
        OBVIOUS
      <4>1. NotAfter(a, c)
        BY <1>2, CardOrder
      <4>2. c # card[x] => ~(NotAfter(c, card[x]) /\ NotAfter(card[x], c))
        BY <1>2, CardOrder
      <4> QED
        BY <3>1, <4>1, <4>2
    <3>6. \A i \in DOMAIN events' : events'[i] \in Replies(x, CardStates) =>
            NotAfter(events'[i].card, c) /\ events'[i].card # c
      BY <3>4, <3>5
    <3>7. \A a : a \in Replies(x, {c}) => a \in Replies(x, CardStates) /\ a.card = c
      BY DEF Replies
    <3>8. Replies(d, {card[d]})' = Replies(x, {c}) /\ Replies(d, CardStates)' = Replies(x, CardStates)
          /\ (card[d])' = c
      BY <1>2, <3>1 DEF Replies
    <3> QED
      BY <3>6, <3>7, <3>8 DEF InOrder
  <2> QED
    BY <2>1, <2>2
<1>10. subscribed => CorrectedFor(x)' /\ Coming(x)'
  <2> SUFFICES ASSUME subscribed PROVE CorrectedFor(x)' /\ Coming(x)'
    OBVIOUS
  <2>1. events' = Append(events, m)
    BY <1>1
  <2>2. Followed(events', Stale(x)', Fresh(x)')
    BY <1>2, <1>3, <2>1, AppendFollowed
  <2> QED
    BY <1>4, <2>2 DEF CorrectedFor, Coming
<1>11. Corrected'
  <2> SUFFICES ASSUME audio, NEW d \in cards' \ unheard' PROVE CorrectedFor(d)'
    BY <1>1 DEF Corrected
  <2>0. d \in Headsets
    BY <1>5 DEF AudioTyped
  <2>1. CASE d # x
    <3>1. d \in cards \ unheard
      BY <1>1, <2>1
    <3> QED
      BY <1>0, <1>2, <1>8, <2>0, <2>1, <3>1
  <2>2. CASE d = x
    <3>1. subscribed \/ (context # "ready" /\ _devices[x] = NoCard /\ UNCHANGED events)
      BY <1>1, <2>2
    <3>2. ASSUME ~subscribed PROVE CorrectedFor(x)'
      <4>1. events' = <<>> /\ _devices'[x] = NoCard
        BY <1>0, <1>1, <3>1, <3>2 DEF Unready
      <4> QED
        BY <4>1 DEF CorrectedFor, Followed
    <3> QED
      BY <1>10, <2>2, <3>2
  <2> QED
    BY <2>1, <2>2
<1>12. Filled'
  <2> SUFFICES ASSUME audio, context = "ready", ~cleared, NEW d \in attached \cap (cards' \ unheard'),
                      d \notin DOMAIN _device_menus
               PROVE  Coming(d)'
    BY <1>1 DEF Filled
  <2>0. d \in Headsets
    BY <1>5 DEF AudioTyped
  <2>1. CASE d # x
    <3>1. d \in attached \cap (cards \ unheard)
      BY <1>1, <2>1
    <3>2. Coming(d)
      BY <1>0, <3>1 DEF Filled
    <3>3. Fresh(d)' = Fresh(d) /\ GetRequest(d)' = GetRequest(d)
      BY <1>2, <2>0, <2>1, SameCard
    <3>4. ListRequest(d)' = ListRequest(d) /\ Gots' = Gots
          /\ Replies(d, CardStates \ {NoCard})' = Replies(d, CardStates \ {NoCard})
      BY DEF ListRequest, Gots, Replies
    <3>5. /\ Has(requests, GetRequest(d)) => Has(requests', GetRequest(d))
          /\ Has(requests, ListRequest(d)) => Has(requests', ListRequest(d))
      BY <2>0
    <3>6. signals' = signals /\ \A Y : Has(events, Y) => Has(events', Y)
      BY <1>1, <1>4
    <3> QED
      BY <3>2, <3>3, <3>4, <3>5, <3>6 DEF Coming
  <2>2. CASE d = x
    BY <1>1, <1>10, <2>2
  <2> QED
    BY <2>1, <2>2
<1> QED
  BY <1>5, <1>6, <1>7, <1>9, <1>11, <1>12 DEF AudioInv

LEMMA CardComesKeeps ==
    ASSUME AudioInv, NEW x \in Headsets, CardComes(x) \/ CardChanges(x)
    PROVE  AudioInv'
<1>0. AudioTyped
  BY DEF AudioInv
<1>1. card[x] \in CardStates /\ requests \in Seq(PulseRequests)
  BY <1>0 DEF AudioTyped
<1>2. card[x].index \in 0 .. MaxCards
  BY <1>1 DEF CardStates
<1>3. CASE CardComes(x)
  <2>1. /\ cards' = cards \cup {x} /\ CardBecomes(x, [index |-> card[x].index + 1, profile |-> FALSE])
        /\ card[x].index < MaxCards
        /\ UNCHANGED requests /\ UNCHANGED serviceRest /\ UNCHANGED menuVars
    BY <1>3 DEF CardComes
  <2>2. /\ [index |-> card[x].index + 1, profile |-> FALSE] \in CardStates
        /\ NotAfter(card[x], [index |-> card[x].index + 1, profile |-> FALSE])
    BY <1>1, <2>1, CardOrder
  <2>3. [index |-> card[x].index + 1, profile |-> FALSE].index # 0
    BY <1>2
  <2> QED
    BY <1>1, <2>1, <2>2, <2>3, CardBecomesKeeps
<1>4. CASE CardChanges(x)
  <2>1. /\ UNCHANGED cards /\ CardBecomes(x, [card[x] EXCEPT !.profile = TRUE]) /\ x \in cards
        /\ UNCHANGED requests /\ UNCHANGED serviceRest /\ UNCHANGED menuVars
    BY <1>4 DEF CardChanges
  <2>2. /\ [card[x] EXCEPT !.profile = TRUE] \in CardStates
        /\ NotAfter(card[x], [card[x] EXCEPT !.profile = TRUE])
        /\ [card[x] EXCEPT !.profile = TRUE].index # 0
    BY <1>0, <1>1, <2>1, CardOrder DEF AudioTyped
  <2> QED
    BY <1>1, <2>1, <2>2, CardBecomesKeeps
<1> QED
  BY <1>3, <1>4
\* PulseAudio handles a request.
LEMMA HandledKeeps ==
    ASSUME AudioInv, requests # <<>>, requests' = Tail(requests), subscribed' \in BOOLEAN,
           UNCHANGED <<cards, card, unheard, attached, signals, context, reconnecting, audio>>, UNCHANGED menuVars,
           \/ UNCHANGED events
           \/ \E e \in Headsets, kind \in {"listed", "got"}, c \in CardStates :
                /\ c \in {NoCard, card[e]} /\ (kind = "got" => c # NoCard)
                /\ events' = Append(events, AboutCard(kind, e, c)),
           \A d \in cards :
             /\ Head(requests) \in GetRequest(d) => events' = Append(events, AboutCard("got", d, card[d]))
             /\ Head(requests) \in ListRequest(d) => events' = Append(events, AboutCard("listed", d, card[d]))
    PROVE  AudioInv'
<1>0. AudioTyped /\ Flags /\ MenuOfCards /\ Unloaded /\ Unready /\ Answered /\ Corrected /\ Filled
  BY DEF AudioInv
<1>1. /\ UNCHANGED <<attached, signals, cards, card, context, reconnecting, audio, unheard,
                     _devices, _device_menus, lines, cleared>>
      /\ context = "ready" /\ requests \in Seq(PulseRequests) /\ events \in Seq(PulseAnswers)
  BY <1>0 DEF menuVars, AudioTyped, Unready
<1>2. /\ requests' \in Seq(PulseRequests)
      /\ \A Y : Has(requests, Y) <=> Head(requests) \in Y \/ Has(requests', Y)
  BY <1>1, FirstTaken
<1>3. \A d \in Headsets : card[d] \in CardStates
  BY <1>0 DEF AudioTyped
<1>4. ASSUME NEW e \in Headsets, NEW kind \in {"listed", "got"}, NEW c \in CardStates,
             c \in {NoCard, card[e]}, kind = "got" => c # NoCard,
             events' = Append(events, AboutCard(kind, e, c))
      PROVE  /\ events' \in Seq(PulseAnswers) /\ \A Y : Has(events, Y) => Has(events', Y)
             /\ \A d \in Headsets :
                  /\ InOrder(events', d)
                  /\ Followed(events, Stale(d), Fresh(d)) => Followed(events', Stale(d), Fresh(d))
             /\ c = card[e] => Followed(events', Stale(e), Fresh(e)) /\ Has(events', Fresh(e))
             /\ c # NoCard => Has(events', Replies(e, CardStates \ {NoCard}))
  <2> DEFINE m == AboutCard(kind, e, c)
  <2>1. m \in PulseAnswers /\ m.card = c
    BY <1>4, AnswerKinds
  <2>2. ASSUME NEW d \in Headsets
        PROVE  /\ m \notin Stale(d) /\ (m \in Replies(d, CardStates) => d = e)
               /\ (c = card[e] /\ d = e => m \in Fresh(d))
               /\ (c # NoCard /\ d = e => m \in Replies(d, CardStates \ {NoCard}))
    <3>1. /\ m \in Replies(d, CardStates) <=> kind \in {"listed", "got"} /\ e = d /\ c \in CardStates
          /\ m \in Replies(d, CardStates \ {NoCard}) <=> kind \in {"listed", "got"} /\ e = d /\ c \in CardStates \ {NoCard}
          /\ m \in Fresh(d) <=> /\ e = d
                                /\ \/ kind \in {"listed", "got"} /\ c = card[d]
                                   \/ kind = "event" /\ c.index = card[d].index
          /\ m \in Stale(d) <=> kind \in {"listed", "got"} /\ e = d /\ c \notin {NoCard, card[d]}
      BY AnswerKinds
    <3> QED
      BY <1>4, <3>1
  <2>3. events' = Append(events, m)
    BY <1>4
  <2> HIDE DEF m
  <2>4. events' \in Seq(PulseAnswers) /\ \A Y : Has(events', Y) <=> Has(events, Y) \/ m \in Y
    <3>1. ASSUME NEW Y PROVE Has(events', Y) <=> Has(events, Y) \/ m \in Y
      BY <1>1, <2>1, <2>3, AppendHas
    <3> QED
      BY <1>1, <2>1, <2>3, <3>1, Appending
  <2>5. ASSUME NEW d \in Headsets PROVE InOrder(events', d)
    <3>1. InOrder(events, d)
      BY <1>0 DEF Answered
    <3>2. m \in Replies(d, CardStates) => NotAfter(m.card, card[d])
      <4> SUFFICES ASSUME d = e PROVE NotAfter(c, card[e])
        BY <2>1, <2>2
      <4>1. NotAfter(NoCard, card[e]) /\ NotAfter(card[e], card[e])
        BY <1>3, CardFacts, CardOrder
      <4> QED
        BY <1>4, <4>1
    <3> QED
      BY <1>1, <2>1, <2>2, <2>3, <3>1, <3>2, OrderOfAnswers
  <2>6. ASSUME NEW d \in Headsets
        PROVE  /\ Followed(events, Stale(d), Fresh(d)) => Followed(events', Stale(d), Fresh(d))
               /\ (c = card[e] /\ d = e => Followed(events', Stale(d), Fresh(d)))
    BY <1>1, <2>1, <2>2, <2>3, AppendFollowed
  <2> QED
    BY <2>2, <2>4, <2>5, <2>6
<1>5. /\ events' \in Seq(PulseAnswers) /\ \A Y : Has(events, Y) => Has(events', Y)
      /\ \A d \in Headsets :
           /\ InOrder(events', d)
           /\ Followed(events, Stale(d), Fresh(d)) => Followed(events', Stale(d), Fresh(d))
  <2>1. CASE UNCHANGED events
    BY <1>0, <1>1, <2>1 DEF Answered
  <2>2. CASE ~UNCHANGED events
    BY <1>4, <2>2
  <2> QED
    BY <2>1, <2>2
<1>6. ASSUME NEW d \in cards
      PROVE  /\ Head(requests) \in GetRequest(d) => Followed(events', Stale(d), Fresh(d)) /\ Has(events', Fresh(d))
             /\ Head(requests) \in ListRequest(d) => Has(events', Replies(d, CardStates \ {NoCard}))
  <2>1. d \in Headsets /\ card[d] \in CardStates /\ card[d] # NoCard
    BY <1>0, CardFacts DEF AudioTyped
  <2>2. Head(requests) \in GetRequest(d) => events' = Append(events, AboutCard("got", d, card[d]))
    OBVIOUS
  <2>3. Head(requests) \in ListRequest(d) => events' = Append(events, AboutCard("listed", d, card[d]))
    OBVIOUS
  <2>4. Head(requests) \in GetRequest(d) => Followed(events', Stale(d), Fresh(d)) /\ Has(events', Fresh(d))
    BY <1>4, <2>1, <2>2
  <2>5. Head(requests) \in ListRequest(d) => Has(events', Replies(d, CardStates \ {NoCard}))
    BY <1>4, <2>1, <2>3
  <2> QED
    BY <2>4, <2>5
<1>7. AudioTyped' /\ Flags' /\ MenuOfCards' /\ Unloaded' /\ Unready'
  BY <1>0, <1>1, <1>2, <1>5 DEF AudioTyped, Flags, MenuOfCards, Unloaded, Unready
<1>8. \A d \in Headsets : Fresh(d)' = Fresh(d) /\ Stale(d)' = Stale(d) /\ GetRequest(d)' = GetRequest(d)
                          /\ (InOrder(events', d) => InOrder(events, d)')
  <2> SUFFICES ASSUME NEW d \in Headsets
               PROVE  Fresh(d)' = Fresh(d) /\ Stale(d)' = Stale(d) /\ GetRequest(d)' = GetRequest(d)
                      /\ (InOrder(events', d) => InOrder(events, d)')
    OBVIOUS
  <2>1. card'[d] = card[d]
    BY <1>1
  <2> QED
    BY <2>1, SameCard
<1>9. Answered'
  BY <1>5, <1>8 DEF Answered
<1>10. Corrected'
  <2> SUFFICES ASSUME audio, NEW d \in cards \ unheard PROVE CorrectedFor(d)'
    BY <1>1 DEF Corrected
  <2>1. d \in Headsets /\ CorrectedFor(d)
    BY <1>0 DEF Corrected, AudioTyped
  <2>2. CASE Head(requests) \in GetRequest(d)
    BY <1>6, <1>8, <2>1, <2>2 DEF CorrectedFor
  <2>3. CASE Head(requests) \notin GetRequest(d)
    <3>1. Has(requests, GetRequest(d)) => Has(requests', GetRequest(d))
      BY <1>2, <2>3
    <3>2. /\ Followed(events, Stale(d), Fresh(d)) => Followed(events', Stale(d), Fresh(d))
          /\ Has(events, Fresh(d)) => Has(events', Fresh(d))
      BY <1>5, <2>1
    <3> QED
      BY <1>1, <1>8, <2>1, <3>1, <3>2 DEF CorrectedFor
  <2> QED
    BY <2>2, <2>3
<1>11. Filled'
  <2> SUFFICES ASSUME NEW d \in Headsets, d \in cards, Coming(d) PROVE Coming(d)'
    BY <1>0, <1>1 DEF Filled, AudioTyped
  <2>1. /\ Has(requests, ListRequest(d)) => Head(requests) \in ListRequest(d) \/ Has(requests', ListRequest(d))
        /\ Has(requests, GetRequest(d)) => Head(requests) \in GetRequest(d) \/ Has(requests', GetRequest(d))
    BY <1>2
  <2>2. ListRequest(d)' = ListRequest(d) /\ Gots' = Gots
        /\ Replies(d, CardStates \ {NoCard})' = Replies(d, CardStates \ {NoCard})
    BY DEF ListRequest, Gots, Replies
  <2>3. /\ Has(events, Replies(d, CardStates \ {NoCard})) => Has(events', Replies(d, CardStates \ {NoCard}))
        /\ Has(events, Fresh(d)) => Has(events', Fresh(d))
        /\ Has(events, Gots) => Has(events', Gots)
    BY <1>5
  <2>4. \/ Has(signals, {"changed"})
        \/ Has(requests', ListRequest(d)) \/ Has(requests', GetRequest(d))
        \/ Has(events', Replies(d, CardStates \ {NoCard})) \/ Has(events', Fresh(d)) \/ Has(events', Gots)
    BY <1>6, <2>1, <2>3 DEF Coming
  <2> QED
    BY <1>1, <1>8, <2>2, <2>4 DEF Coming
<1> QED
  BY <1>7, <1>9, <1>10, <1>11 DEF AudioInv

LEMMA HandlesKeeps ==
    ASSUME AudioInv, Handles
    PROVE  AudioInv'
<1> DEFINE q == Head(requests)
           there == {d \in q.devs \cap cards : q.card.index \in {NoCard.index, card[d].index}}
<1>0. AudioTyped /\ Unready
  BY DEF AudioInv
<1>1. /\ requests # <<>> /\ requests' = Tail(requests) /\ UNCHANGED cards
      /\ UNCHANGED <<attached, signals, context, reconnecting, audio>> /\ UNCHANGED menuVars
      /\ requests \in Seq(PulseRequests) /\ context = "ready" /\ events \in Seq(PulseAnswers)
      /\ subscribed \in BOOLEAN
  BY <1>0 DEF Handles, AudioTyped, Unready, AudioInv, Flags
<1>2. q \in PulseRequests /\ \A Y : Has(requests, Y) <=> q \in Y \/ Has(requests', Y)
  BY <1>1, FirstTaken
<1>3. \A d : /\ q \in GetRequest(d) => q.kind = "get" /\ q.devs = {d} /\ q.card.index = card[d].index
             /\ q \in ListRequest(d) => q.kind = "list" /\ q.devs = {d} /\ q.card.index = NoCard.index
  BY DEF GetRequest, ListRequest, Current
<1>4. q.kind \in {"list", "get", "set"} => \E e \in Headsets, c \in CardStates : q = [kind |-> q.kind, devs |-> {e}, card |-> c]
  BY <1>2, MessageIsAbout DEF AboutCard, Subscribe
<1>5. \A d : d \in cards => d \in Headsets /\ card[d] \in CardStates /\ card[d] # NoCard
  BY <1>0, CardFacts DEF AudioTyped
<1> DEFINE said(kind, e) == IF there = {} THEN NoCard ELSE card[CHOOSE d \in there : TRUE]
<1>6. ASSUME NEW e \in Headsets, q.devs = {e}
      PROVE  /\ there = {} \/ there = {e}
             /\ there = {e} <=> e \in cards /\ q.card.index \in {NoCard.index, card[e].index}
             /\ there = {e} => (CHOOSE d \in there : TRUE) = e
  BY <1>6
<1> HIDE DEF there
<1>11. events \o <<>> = events /\ \A r : events \o <<r>> = Append(events, r)
  BY <1>1
<1>12. ASSUME NEW e, NEW kind, NEW c, q = [kind |-> kind, devs |-> {e}, card |-> c]
       PROVE  \A k, v : [q EXCEPT !.kind = k, !.card = v] = [kind |-> k, devs |-> {e}, card |-> v]
  <2> SUFFICES ASSUME NEW k, NEW v PROVE [q EXCEPT !.kind = k, !.card = v] = [kind |-> k, devs |-> {e}, card |-> v]
    OBVIOUS
  <2> HIDE DEF q
  <2> DEFINE r == [q EXCEPT !.kind = k, !.card = v]
  <2>1. q \in [kind : {kind, k}, devs : {{e}}, card : {c, v}]
    BY <1>12
  <2>2. r \in [kind : {kind, k}, devs : {{e}}, card : {c, v}] /\ r.kind = k /\ r.devs = {e} /\ r.card = v
    BY <2>1
  <2> HIDE DEF r
  <2>3. r = [kind |-> k, devs |-> {e}, card |-> v]
    BY <2>2
  <2> QED
    BY <2>3 DEF r
<1>7. CASE q.kind = "list" /\ UNCHANGED <<subscribed, card, unheard>>
           /\ events' = events \o <<[q EXCEPT !.kind = "listed", !.card = IF there = {} THEN NoCard ELSE card[CHOOSE d \in there : TRUE]]>>
  <2>1. PICK e \in Headsets, c \in CardStates : q = [kind |-> "list", devs |-> {e}, card |-> c]
    BY <1>4, <1>7
  <2> DEFINE itsCard == IF there = {} THEN NoCard ELSE card[e]
  <2>2. events' = Append(events, AboutCard("listed", e, itsCard))
    <3>1. [q EXCEPT !.kind = "listed", !.card = IF there = {} THEN NoCard ELSE card[CHOOSE d \in there : TRUE]]
            = [kind |-> "listed", devs |-> {e}, card |-> IF there = {} THEN NoCard ELSE card[CHOOSE d \in there : TRUE]]
      <4> DEFINE v == IF there = {} THEN NoCard ELSE card[CHOOSE d \in there : TRUE]
      <4>1. [q EXCEPT !.kind = "listed", !.card = v] = [kind |-> "listed", devs |-> {e}, card |-> v]
        <5> HIDE DEF v, q
        <5> QED
          BY <1>12, <2>1 DEF q
      <4> QED
        BY <4>1
    <3>2. (IF there = {} THEN NoCard ELSE card[CHOOSE d \in there : TRUE]) = itsCard
      BY <1>6, <2>1
    <3>3. events' = events \o <<AboutCard("listed", e, itsCard)>>
      BY <1>7, <3>1, <3>2 DEF AboutCard
    <3> HIDE DEF itsCard
    <3> QED
      BY <1>11, <3>3
  <2>3. itsCard \in {NoCard, card[e]} /\ itsCard \in CardStates
    BY <1>0, CardFacts DEF AudioTyped
  <2>4. \A d \in cards : q \in ListRequest(d) => d = e /\ itsCard = card[d]
    BY <1>3, <1>6, <2>1
  <2>5. \A d \in cards : q \notin GetRequest(d)
    BY <1>3, <1>7
  <2> HIDE DEF itsCard, q
  <2> QED
    BY <1>1, <1>7, <2>2, <2>3, <2>4, <2>5, HandledKeeps DEF q
<1>8. CASE q.kind = "get" /\ UNCHANGED <<subscribed, card, unheard>>
           /\ events' = events \o (IF there = {} THEN <<>>
                ELSE <<[q EXCEPT !.kind = "got", !.card = card[CHOOSE d \in there : TRUE]]>>)
  <2>1. PICK e \in Headsets, c \in CardStates : q = [kind |-> "get", devs |-> {e}, card |-> c]
    BY <1>4, <1>8
  <2>2. \/ there = {} /\ UNCHANGED events
        \/ there = {e} /\ events' = Append(events, AboutCard("got", e, card[e]))
    <3>1. CASE there = {}
      <4>1. events' = events \o <<>>
        BY <1>8, <3>1
      <4> QED
        BY <1>11, <3>1, <4>1
    <3>2. CASE there = {e}
      <4>1. [q EXCEPT !.kind = "got", !.card = card[CHOOSE d \in there : TRUE]]
              = [kind |-> "got", devs |-> {e}, card |-> card[CHOOSE d \in there : TRUE]]
        <5> DEFINE v == card[CHOOSE d \in there : TRUE]
        <5>1. [q EXCEPT !.kind = "got", !.card = v] = [kind |-> "got", devs |-> {e}, card |-> v]
          <6> HIDE DEF v, q
          <6> QED
            BY <1>12, <2>1 DEF q
        <5> QED
          BY <5>1
      <4>2. (CHOOSE d \in there : TRUE) = e
        BY <1>6, <2>1, <3>2
      <4>3. there # {}
        BY <3>2
      <4>4. events' = events \o <<AboutCard("got", e, card[e])>>
        BY <1>8, <4>1, <4>2, <4>3 DEF AboutCard
      <4> QED
        BY <1>11, <3>2, <4>4
    <3> QED
      BY <1>6, <2>1, <3>1, <3>2
  <2>3. there = {e} => card[e] \in CardStates /\ card[e] # NoCard
    BY <1>5, <1>6, <2>1
  <2>4. \A d \in cards : q \in GetRequest(d) => d = e /\ there = {e}
    BY <1>3, <1>6, <2>1
  <2>5. \A d \in cards : q \notin ListRequest(d)
    BY <1>3, <1>8
  <2>6. there = {e} => there # {}
    OBVIOUS
  <2> HIDE DEF q
  <2> QED
    BY <1>1, <1>8, <2>2, <2>3, <2>4, <2>5, <2>6, HandledKeeps DEF q
<1>9. CASE q.kind \in {"subscribe", "set"} /\ subscribed' \in BOOLEAN /\ UNCHANGED <<events, card, unheard>>
  <2>1. \A d \in cards : q \notin GetRequest(d) /\ q \notin ListRequest(d)
    BY <1>3, <1>9
  <2> HIDE DEF q
  <2> QED
    BY <1>1, <1>9, <2>1, HandledKeeps DEF q
<1>10. CASE q.kind = "set" /\ UNCHANGED subscribed /\ \E d \in there : CardBecomes(d, [card[d] EXCEPT !.profile = TRUE])
  <2>1. PICK x \in there : CardBecomes(x, [card[x] EXCEPT !.profile = TRUE])
    BY <1>10
  <2>2. x \in cards /\ x \in Headsets /\ card[x] \in CardStates /\ card[x].index # 0
    BY <1>0 DEF there, AudioTyped
  <2>3. /\ [card[x] EXCEPT !.profile = TRUE] \in CardStates
        /\ NotAfter(card[x], [card[x] EXCEPT !.profile = TRUE])
        /\ [card[x] EXCEPT !.profile = TRUE].index # 0
    BY <2>2, CardOrder
  <2>4. requests' \in Seq(PulseRequests)
    BY <1>1, FirstTaken
  <2>5. \A d \in Headsets : /\ Has(requests, GetRequest(d)) => Has(requests', GetRequest(d))
                            /\ Has(requests, ListRequest(d)) => Has(requests', ListRequest(d))
    BY <1>2, <1>3, <1>10
  <2>6. UNCHANGED serviceRest
    BY <1>1, <1>10 DEF serviceRest
  <2> QED
    BY <1>1, <2>1, <2>2, <2>3, <2>4, <2>5, <2>6, CardBecomesKeeps
<1> QED
  BY <1>1, <1>7, <1>8, <1>9, <1>10 DEF Handles, there
\* What PulseAudio says is heard: an event is followed by the question for its card.
LEMMA EventKeeps ==
    ASSUME AudioInv, on_pa_event
    PROVE  AudioInv'
<1>0. AudioTyped /\ Flags /\ MenuOfCards /\ Unloaded /\ Unready /\ Answered /\ Corrected /\ Filled
  BY DEF AudioInv
<1>1. /\ events # <<>> /\ Head(events).kind = "event" /\ events' = Tail(events)
      /\ requests' = (IF audio THEN Append(requests, [Head(events) EXCEPT !.kind = "get"]) ELSE requests)
      /\ UNCHANGED <<attached, signals, audio, cards, card, context, reconnecting, subscribed, unheard,
                     _devices, _device_menus, lines, cleared>>
  BY DEF on_pa_event, Hear, pulseRest, menuVars
<1>2. /\ requests \in Seq(PulseRequests) /\ events \in Seq(PulseAnswers) /\ context = "ready"
      /\ events' \in Seq(PulseAnswers) /\ Head(events) \in PulseAnswers
  BY <1>0, <1>1, FirstTaken DEF AudioTyped, Unready
<1>3. PICK e \in Headsets, c \in CardStates : Head(events) = AboutCard("event", e, c)
  BY <1>1, <1>2, MessageIsAbout
<1>4. [Head(events) EXCEPT !.kind = "get"] = AboutCard("get", e, c)
  <2> DEFINE q == Head(events)
  <2>1. q \in [kind : {"event"}, devs : {{e}}, card : {c}]
    BY <1>3 DEF AboutCard
  <2> HIDE DEF q
  <2>2. [q EXCEPT !.kind = "get"] = [kind |-> "get", devs |-> {e}, card |-> c]
    BY <2>1
  <2> QED
    BY <2>2 DEF AboutCard, q
<1> DEFINE m == AboutCard("get", e, c)
<1>5. m \in PulseRequests /\ \A d \in Headsets : m \in GetRequest(d) <=> Head(events) \in Fresh(d)
  <2>1. m \in PulseRequests
    BY AnswerKinds
  <2>2. ASSUME NEW d \in Headsets PROVE m \in GetRequest(d) <=> Head(events) \in Fresh(d)
    BY <1>3, AnswerKinds
  <2> QED
    BY <2>1, <2>2
<1> HIDE DEF m
<1>6. /\ requests' \in Seq(PulseRequests) /\ \A Y : Has(requests, Y) => Has(requests', Y)
      /\ audio => \A Y : m \in Y => Has(requests', Y)
  <2>0. audio => requests' = Append(requests, m)
    BY <1>1, <1>4 DEF m
  <2>1. ASSUME audio, NEW Y PROVE Has(requests', Y) <=> Has(requests, Y) \/ m \in Y
    <3>1. Has(Append(requests, m), Y) <=> Has(requests, Y) \/ m \in Y
      BY <1>2, <1>5, AppendHas
    <3> QED
      BY <2>0, <2>1, <3>1
  <2>2. audio => requests' \in Seq(PulseRequests)
    <3>1. Append(requests, m) \in Seq(PulseRequests)
      BY <1>2, <1>5, Appending
    <3> QED
      BY <2>0, <3>1
  <2> QED
    BY <1>1, <1>2, <2>1, <2>2
<1>7. AudioTyped' /\ Flags' /\ MenuOfCards' /\ Unloaded' /\ Unready'
  BY <1>0, <1>1, <1>2, <1>6 DEF AudioTyped, Flags, MenuOfCards, Unloaded, Unready
<1>8. Answered'
  BY <1>0, <1>1, <1>2, AnsweredKept
<1>9. ASSUME audio, NEW d \in Headsets
      PROVE  (CorrectedFor(d) => CorrectedFor(d)') /\ (Coming(d) => Coming(d)')
  <2>1. Head(events) \in Fresh(d) => Has(requests', GetRequest(d))
    BY <1>5, <1>6, <1>9
  <2>2. Head(events) \notin Replies(d, CardStates \ {NoCard}) \cup Gots
    BY <1>1 DEF Replies, Gots
  <2> QED
    BY <1>1, <1>2, <1>6, <2>1, <2>2, HeardOfOther
<1>10. Corrected' /\ Filled'
  BY <1>0, <1>1, <1>9 DEF Corrected, Filled, AudioTyped
<1> QED
  BY <1>7, <1>8, <1>10 DEF AudioInv

\* A reply with a card
LEMMA CardIsHeard ==
    ASSUME AudioInv, audio, events # <<>>, events' = Tail(events),
           NEW kind \in {"listed", "got"}, NEW e \in Headsets, NEW c \in CardStates, c # NoCard,
           Head(events) = AboutCard(kind, e, c), _devices' = Known(Head(events)), Heard(Head(events)),
           UNCHANGED pulseRest, \A Y : Has(requests, Y) => Has(requests', Y), requests' \in Seq(PulseRequests)
    PROVE  /\ AudioTyped' /\ Unready' /\ Unloaded' /\ Answered' /\ Corrected'
           /\ _devices'[e] = c /\ \A d \in Headsets : d # e => _devices'[d] = _devices[d]
           /\ \A d \in Headsets : d # e => (d \in unheard' <=> d \in unheard)
           /\ kind = "listed" /\ UNCHANGED requests => \A d \in Headsets : d # e /\ Coming(d) => Coming(d)'
<1>0. AudioTyped /\ Flags /\ MenuOfCards /\ Unloaded /\ Unready /\ Answered /\ Corrected /\ Filled
  BY DEF AudioInv
<1>1. /\ UNCHANGED <<attached, signals, audio, cards, card, context, reconnecting, subscribed>>
      /\ events \in Seq(PulseAnswers) /\ events' \in Seq(PulseAnswers) /\ context = "ready"
  BY <1>0, FirstTaken DEF pulseRest, AudioTyped, Unready
<1>2. Head(events).devs = {e} /\ Head(events).card = c /\ Head(events).kind = kind
  BY DEF AboutCard
<1>3. _devices' = [d \in Headsets |-> IF d = e THEN c ELSE _devices[d]]
  BY <1>2 DEF Known
<1>4. unheard' = {d \in unheard : d # e \/ c # card[d]}
  BY <1>2 DEF Heard
<1>5. /\ _devices' \in [Headsets -> CardStates] /\ _devices'[e] = c
      /\ \A d \in Headsets : d # e => _devices'[d] = _devices[d]
  BY <1>0, <1>3 DEF AudioTyped
<1>6. AudioTyped' /\ Unready' /\ Unloaded'
  BY <1>0, <1>1, <1>4, <1>5 DEF AudioTyped, Unready, Unloaded
<1>7. Answered'
  BY <1>0, <1>1, AnsweredKept
<1>8. ASSUME NEW d \in Headsets
      PROVE  /\ Head(events) \in Replies(d, {card[d]}) <=> e = d /\ c = card[d]
             /\ Head(events) \in Replies(d, CardStates \ {NoCard}) <=> e = d
             /\ Head(events) \in Stale(d) <=> e = d /\ c # card[d]
             /\ Head(events) \in Fresh(d) <=> e = d /\ c = card[d]
             /\ Head(events) \in Gots <=> kind = "got"
  BY AnswerKinds
<1>9. ASSUME NEW d \in Headsets, d # e
      PROVE  /\ CorrectedFor(d) => CorrectedFor(d)'
             /\ Coming(d) /\ kind = "listed" => Coming(d)'
  BY <1>1, <1>5, <1>8, <1>9, HeardOfOther
<1>10. /\ Fresh(e)' = Fresh(e) /\ Stale(e)' = Stale(e) /\ GetRequest(e)' = GetRequest(e)
  BY <1>1, SameCard
<1>11. ASSUME e \in cards \ unheard' PROVE CorrectedFor(e)'
  <2>1. CASE c = card[e]
    <3>1. ~Has(events', Stale(e))
      BY <1>0, <1>1, <1>8, <2>1, OrderOfAnswers DEF Answered
    <3>2. Followed(events', Stale(e), Fresh(e))
      BY <3>1 DEF Followed, Has
    <3> QED
      BY <1>1, <1>5, <1>10, <2>1, <3>2 DEF CorrectedFor
  <2>2. CASE c # card[e]
    <3>1. CorrectedFor(e)
      BY <1>0, <1>4, <1>11, <2>2 DEF Corrected
    <3>2. CASE Has(requests, GetRequest(e))
      BY <1>10, <3>2 DEF CorrectedFor
    <3>3. CASE Followed(events, Stale(e), Fresh(e))
      <4>1. Followed(events', Stale(e), Fresh(e)) /\ Has(events', Fresh(e))
        BY <1>1, <1>8, <2>2, <3>3, FirstTaken
      <4> QED
        BY <1>10, <4>1 DEF CorrectedFor
    <3> QED
      BY <3>1, <3>2, <3>3 DEF CorrectedFor
  <2> QED
    BY <2>1, <2>2
<1>12. Corrected'
  <2> SUFFICES ASSUME NEW d \in cards \ unheard' PROVE CorrectedFor(d)'
    BY <1>1 DEF Corrected
  <2>1. d \in Headsets
    BY <1>0 DEF AudioTyped
  <2>2. d # e => CorrectedFor(d)
    BY <1>0, <1>4 DEF Corrected
  <2> QED
    BY <1>9, <1>11, <2>1, <2>2
<1> QED
  BY <1>4, <1>5, <1>6, <1>7, <1>9, <1>12

LEMMA OnlyOne ==
    ASSUME NEW e
    PROVE  <<e>> \in Listings({e}) /\ IsFiniteSet({e})
<1>1. Cardinality({e}) = 1 /\ IsFiniteSet({e})
  BY FS_Singleton
<1>2. DOMAIN <<e>> = 1 .. 1 /\ <<e>> \in [1 .. 1 -> {e}] /\ <<e>>[1] = e
  OBVIOUS
<1> DEFINE s == <<e>>
<1> HIDE DEF s
<1>3. s \in Bijection(1 .. 1, {e})
  BY <1>2 DEF Bijection, Injection, Surjection, IsInjective, s
<1> QED
  BY <1>1, <1>3 DEF Listings, s

LEMMA ListedKeeps ==
    ASSUME AudioInv, Listed
    PROVE  AudioInv'
<1>0. AudioTyped /\ Flags /\ MenuOfCards /\ Unloaded /\ Unready /\ Answered /\ Corrected /\ Filled
  BY DEF AudioInv
<1>1. /\ events # <<>> /\ Head(events).kind = "listed" /\ events' = Tail(events)
      /\ UNCHANGED <<attached, signals, audio, cards, card, context, reconnecting, subscribed, requests, cleared>>
      /\ UNCHANGED pulseRest
      /\ IF Head(events).card = NoCard THEN UNCHANGED <<_devices, _device_menus, lines, unheard>>
         ELSE ListFor(Head(events))
  BY DEF Listed, Hear, pulseRest
<1>2. /\ requests \in Seq(PulseRequests) /\ events \in Seq(PulseAnswers) /\ context = "ready"
      /\ events' \in Seq(PulseAnswers) /\ Head(events) \in PulseAnswers
  BY <1>0, <1>1, FirstTaken DEF AudioTyped, Unready
<1>3. PICK e \in Headsets, c \in CardStates : Head(events) = AboutCard("listed", e, c)
  BY <1>1, <1>2, MessageIsAbout
<1>4. Head(events).card = c /\ Head(events).devs = {e}
  BY <1>3 DEF AboutCard
<1>5. CASE UNCHANGED <<_devices, _device_menus, lines, unheard>> /\ (audio => c = NoCard)
  <2>1. AudioTyped' /\ Flags' /\ MenuOfCards' /\ Unloaded' /\ Unready'
    BY <1>0, <1>1, <1>2, <1>5 DEF AudioTyped, Flags, MenuOfCards, Unloaded, Unready
  <2>2. Answered'
    BY <1>0, <1>1, <1>2, AnsweredKept
  <2>3. ASSUME audio, NEW d \in Headsets, d \in cards
        PROVE  (CorrectedFor(d) => CorrectedFor(d)') /\ (Coming(d) => Coming(d)')
    <3>1. c = NoCard /\ card[d] # NoCard
      BY <1>0, <1>5, <2>3, CardFacts DEF AudioTyped
    <3>2. Head(events) \notin Fresh(d) /\ Head(events) \notin Replies(d, CardStates \ {NoCard}) \cup Gots
      BY <1>3, <3>1, AnswerKinds
    <3> QED
      BY <1>1, <1>2, <1>5, <3>2, HeardOfOther
  <2>4. Corrected' /\ Filled'
    BY <1>0, <1>1, <1>5, <2>3 DEF Corrected, Filled, AudioTyped
  <2> QED
    BY <2>1, <2>2, <2>4 DEF AudioInv
<1>6. CASE audio /\ c # NoCard /\ ListFor(Head(events))
  <2>1. /\ _devices' = Known(Head(events)) /\ Heard(Head(events)) /\ Add(<<e>>, _device_menus, lines)
    BY <1>4, <1>6 DEF ListFor
  <2>2. /\ AudioTyped' /\ Unready' /\ Unloaded' /\ Answered' /\ Corrected'
        /\ _devices'[e] = c /\ \A d \in Headsets : d # e => _devices'[d] = _devices[d]
        /\ \A d \in Headsets : d # e => (d \in unheard' <=> d \in unheard)
        /\ \A d \in Headsets : d # e /\ Coming(d) => Coming(d)'
    BY <1>1, <1>2, <1>3, <1>6, <2>1, CardIsHeard
  <2>3. MenuWell(_device_menus, lines, _devices')
    BY <1>0, <1>6, <2>2 DEF MenuOfCards, MenuWell
  <2>4. MenuWell(_device_menus', lines', _devices') /\ DOMAIN _device_menus' = {e} \cup DOMAIN _device_menus
    <3>1. \A d \in {e} : _devices'[d] # NoCard
      BY <1>6, <2>2
    <3> QED
      BY <2>1, <2>3, <3>1, OnlyOne, ItemsAdded
  <2>5. MenuOfCards' /\ Flags'
    BY <1>0, <1>1, <2>4 DEF MenuOfCards, MenuWell, Flags
  <2>6. Filled'
    <3> SUFFICES ASSUME ~cleared, NEW d \in attached \cap (cards \ unheard'), d \notin DOMAIN _device_menus'
                 PROVE  Coming(d)'
      BY <1>1 DEF Filled
    <3>1. d \in Headsets /\ d # e /\ d \notin DOMAIN _device_menus
      BY <1>0, <2>4 DEF AudioTyped
    <3>2. Coming(d)
      BY <1>0, <1>2, <1>6, <2>2, <3>1 DEF Filled
    <3> QED
      BY <2>2, <3>1, <3>2
  <2> QED
    BY <2>2, <2>5, <2>6 DEF AudioInv
<1> QED
  BY <1>1, <1>4, <1>5, <1>6 DEF ListFor

LEMMA GotKeeps ==
    ASSUME AudioInv, Got
    PROVE  AudioInv'
<1>0. AudioTyped /\ Flags /\ MenuOfCards /\ Unloaded /\ Unready /\ Answered /\ Corrected /\ Filled
  BY DEF AudioInv
<1>1. /\ events # <<>> /\ Head(events).kind = "got" /\ events' = Tail(events)
      /\ UNCHANGED <<attached, signals, audio, cards, card, context, reconnecting, subscribed>>
      /\ UNCHANGED pulseRest
      /\ \/ ~audio /\ UNCHANGED <<requests, unheard, _devices, _device_menus, lines, cleared>>
         \/ audio /\ _devices' = Known(Head(events)) /\ Heard(Head(events)) /\ Regenerate(_devices')
  BY DEF Got, Hear, pulseRest, menuVars
<1>2. /\ requests \in Seq(PulseRequests) /\ events \in Seq(PulseAnswers) /\ context = "ready"
      /\ events' \in Seq(PulseAnswers) /\ Head(events) \in PulseAnswers
  BY <1>0, <1>1, FirstTaken DEF AudioTyped, Unready
<1>3. PICK e \in Headsets, c \in CardStates : Head(events) = AboutCard("got", e, c) /\ c # NoCard
  BY <1>1, <1>2, MessageIsAbout
<1>4. CASE ~audio /\ UNCHANGED <<requests, unheard, _devices, _device_menus, lines, cleared>>
  <2>1. AudioTyped' /\ Flags' /\ MenuOfCards' /\ Unloaded' /\ Unready'
    BY <1>0, <1>1, <1>2, <1>4 DEF AudioTyped, Flags, MenuOfCards, Unloaded, Unready
  <2>2. Answered' /\ Corrected' /\ Filled'
    BY <1>0, <1>1, <1>2, <1>4, AnsweredKept DEF Corrected, Filled
  <2> QED
    BY <2>1, <2>2 DEF AudioInv
<1>5. CASE audio /\ _devices' = Known(Head(events)) /\ Heard(Head(events)) /\ Regenerate(_devices')
  <2>1. _devices' \in [Headsets -> CardStates]
    <3>1. Head(events).card = c
      BY <1>3 DEF AboutCard
    <3> QED
      BY <1>0, <1>5, <3>1 DEF Known, AudioTyped
  <2>2. Generate(Nothing, Nothing, _devices', <<>>)
    BY <1>2, <1>5 DEF Regenerate
  <2>3. <<>> \in Seq(PulseRequests)
    OBVIOUS
  <2>4. /\ cleared' = FALSE /\ MenuWell(_device_menus', lines', _devices')
        /\ requests' \in Seq(PulseRequests) /\ \A Y : Has(requests, Y) => Has(requests', Y)
        /\ \A d \in attached : d \in DOMAIN _device_menus' \/ Has(requests', ListRequest(d))
    BY <1>0, <1>2, <2>1, <2>2, <2>3, EmptyMenu, GenerateFills DEF AudioTyped
  <2>5. AudioTyped' /\ Unready' /\ Unloaded' /\ Answered' /\ Corrected'
    BY <1>1, <1>3, <1>5, <2>4, CardIsHeard
  <2>6. MenuOfCards' /\ Flags'
    BY <1>0, <1>1, <2>4 DEF MenuOfCards, MenuWell, Flags
  <2>7. Filled'
    BY <1>1, <2>4 DEF Filled, Coming, ListRequest
  <2> QED
    BY <2>5, <2>6, <2>7 DEF AudioInv
<1> QED
  BY <1>1, <1>4, <1>5

LEMMA AudioStep ==
    ASSUME AudioInv, [AudioNext]_audioVars
    PROVE  AudioInv'
<1>1. CASE UNCHANGED audioVars
  <2>1. AudioTyped' /\ Flags' /\ MenuOfCards' /\ Unloaded' /\ Unready' /\ Answered'
    BY <1>1, AnsweredKept
       DEF AudioInv, audioVars, pulseVars, menuVars, AudioTyped, Flags, MenuOfCards, Unloaded, Unready
  <2>2. Corrected'
    BY <1>1, KeptFor DEF AudioInv, audioVars, pulseVars, menuVars, Corrected
  <2>3. Filled'
    BY <1>1, KeptFor DEF AudioInv, audioVars, pulseVars, menuVars, Filled
  <2> QED
    BY <2>1, <2>2, <2>3 DEF AudioInv
<1>2. CASE \E d \in Headsets : \/ on_activate_profile(d) \/ Attaches(d)
                               \/ CardComes(d) \/ CardChanges(d) \/ CardGoes(d)
  BY <1>2, PickKeeps, AttachesKeeps, CardComesKeeps, CardGoesKeeps
<1> QED
  BY <1>1, <1>2, MenuHearsKeeps, LoadKeeps, EventKeeps, ListedKeeps, GotKeeps, ReadyKeeps,
     ConnectionKeeps, HandlesKeeps DEF AudioNext

LEMMA AudioAtFirst ==
    ASSUME AudioInit
    PROVE  AudioInv
<1>1. /\ attached \subseteq Headsets /\ cards \subseteq Headsets /\ signals = <<"state">>
      /\ context = "connecting" /\ reconnecting = FALSE /\ subscribed = FALSE
      /\ requests = <<>> /\ events = <<>> /\ audio = TRUE /\ unheard = {} /\ cleared = FALSE
      /\ _device_menus = Nothing /\ lines = Nothing
  BY DEF AudioInit
<1>2. _devices \in [Headsets -> CardStates] /\ \A d \in Headsets : _devices[d] = NoCard
  BY CardFacts DEF AudioInit
<1>3. card \in [Headsets -> CardStates] /\ \A d \in cards : card[d].index # 0
  <2>1. [index |-> 1, profile |-> FALSE] \in CardStates
    BY AudioAssumption DEF CardStates
  <2>2. \A d \in Headsets : card[d] = IF d \in cards THEN [index |-> 1, profile |-> FALSE] ELSE NoCard
    BY DEF AudioInit
  <2>3. card \in [Headsets -> CardStates]
    BY <2>1, CardFacts DEF AudioInit
  <2> QED
    BY <1>1, <2>2, <2>3
<1>4. AudioTyped
  <2>1. signals \in Seq({"changed", "state"}) /\ Len(signals) = 1 /\ 1 <= MaxSignals
    BY <1>1, CardFacts
  <2>2. requests \in Seq(PulseRequests) /\ events \in Seq(PulseAnswers)
    BY <1>1
  <2> QED
    BY <1>1, <1>2, <1>3, <2>1, <2>2 DEF AudioTyped
<1>5. Flags /\ Unloaded /\ Filled
  BY <1>1 DEF Flags, Unloaded, Filled
<1>6. MenuOfCards
  BY <1>1, EmptyMenu DEF MenuOfCards, MenuWell
<1>7. Unready
  BY <1>1, <1>2 DEF Unready
<1>8. DOMAIN events = {}
  BY <1>1
<1>9. Answered /\ Corrected
  BY <1>1, <1>2, <1>8 DEF Answered, InOrder, Corrected, CorrectedFor, Followed
<1> QED
  BY <1>4, <1>5, <1>6, <1>7, <1>9 DEF AudioInv

LEMMA AudioInvariant == Spec => []AudioInv
<1>1. Init => AudioInv
  BY AudioAtFirst DEF Init
<1>2. AudioInv /\ [Next]_vars => AudioInv'
  BY AudioStep, GroupSteps
<1> QED
  BY <1>1, <1>2, PTL DEF Spec

LEMMA AudioFollows ==
    ASSUME AudioInv
    PROVE  AudioTypeOK /\ AudioOffered
<1>0. AudioTyped /\ Flags /\ MenuOfCards /\ Unloaded /\ Unready /\ Answered /\ Corrected /\ Filled
  BY DEF AudioInv
<1>1. AudioTypeOK
  BY <1>0 DEF AudioTypeOK, AudioTyped, Flags, MenuOfCards, MenuWell, CardStates
<1>2. /\ ~audio => lines = Nothing
      /\ \A d \in DOMAIN _device_menus :
           /\ _devices[d] # NoCard
           /\ _device_menus[d] \in DOMAIN lines /\ lines[_device_menus[d]] = d
  BY <1>0 DEF Unloaded, MenuOfCards, MenuWell
<1>3. ASSUME audio, context = "ready", signals = <<>>, requests = <<>>, events = <<>>, NEW d \in cards \ unheard
      PROVE  /\ _devices[d] \in {NoCard, card[d]}
             /\ d \in attached /\ ~cleared => d \in DOMAIN _device_menus
  <2>1. \A Y : ~Has(signals, Y) /\ ~Has(requests, Y) /\ ~Has(events, Y)
    BY <1>3 DEF Has
  <2>2. CorrectedFor(d)
    BY <1>0, <1>3 DEF Corrected
  <2>3. d \in attached /\ ~cleared => d \in DOMAIN _device_menus \/ Coming(d)
    BY <1>0, <1>3 DEF Filled
  <2> QED
    BY <2>1, <2>2, <2>3 DEF CorrectedFor, Coming
<1> QED
  BY <1>1, <1>2, <1>3 DEF AudioOffered

(***************************************************************************)
(* The bounds of the queues and counters.                                  *)
(*                                                                         *)
(* Visibility: a click on the item changes the adapter only where that is  *)
(* not yet as the click has it, so that what BlueZ tells of clicks is as   *)
(* little as the adapter has of it.                                        *)
(***************************************************************************)
Clicks == {<<"Discoverable", TRUE>>, <<"DiscoverableTimeout", Option>>}

SetsBounded ==
    /\ Len(sets["applet"]) <= 2 /\ \A i \in DOMAIN sets["applet"] : sets["applet"][i] \in Clicks
    /\ radio \in {"none", "hidden", "always", "temporary"}
    /\ radio = "none" => sets["tab"] = <<>>
    /\ Len(sets["tab"]) <= 3 \/ (radio = "hidden" /\ Len(sets["tab"]) <= 5)

\* How much BlueZ may have told the applet
Allowance ==
    MaxHeard + (IF adapter.Discoverable THEN 1 ELSE 0) + (IF adapter.DiscoverableTimeout = Option THEN 1 ELSE 0)
HeardBounded == Len(heard) <= Allowance /\ hidings \in 0 .. MaxHeard

TimerTyped == timeout \in BOOLEAN /\ leaked \in BOOLEAN /\ time_left \in -2 .. Minutes

VisibilityBounded == SetsBounded /\ HeardBounded /\ TimerTyped

LEMMA Sent ==
    ASSUME SetsOK, NEW who \in {"applet", "tab"}, NEW s \in Seq(Assignments), Set(who, s)
    PROVE  /\ sets'[who] = sets[who] \o s /\ Len(sets'[who]) = Len(sets[who]) + Len(s)
           /\ Len(sets[who]) \in Nat /\ Len(s) \in Nat
           /\ \A x \in {"applet", "tab"} : x # who => sets'[x] = sets[x]
<1>1. sets' = [sets EXCEPT ![who] = sets[who] \o s] /\ sets \in [{"applet", "tab"} -> Seq(Assignments)]
  BY DEF SetsOK, Set
<1>2. sets'[who] = sets[who] \o s /\ \A x \in {"applet", "tab"} : x # who => sets'[x] = sets[x]
  BY <1>1
<1>3. sets[who] \in Seq(Assignments)
  BY <1>1
<1> QED
  BY <1>2, <1>3

LEMMA Lengths ==
    /\ Len(Hide) = 2 /\ Len(Show) = 2
    /\ \A v : /\ Len(<<<<"DiscoverableTimeout", v>>>>) = 1
              /\ Len(Show \o <<<<"DiscoverableTimeout", v>>>>) = 3
              /\ Len(<<<<"Discoverable", TRUE>>>> \o <<<<"DiscoverableTimeout", v>>>>) = 2
              /\ Len(<<<<"Discoverable", TRUE>>>> \o <<>>) = 1
BY DEF Hide, Show

\* A radio button is chosen.
LEMMA TogglesBounded ==
    ASSUME SetsOK, NEW r \in {"hidden", "always", "temporary"}, Toggle(r)
    PROVE  /\ radio' = r /\ sets'["applet"] = sets["applet"]
           /\ Len(sets["tab"]) \in Nat /\ Len(sets'["tab"]) \in Nat /\ Len(sets'["tab"]) <= Len(sets["tab"]) + 2
<1>1. PICK s \in Seq(Assignments) : Set("tab", s) /\ Len(s) <= 2
  <2>1. CASE r = "hidden"
    BY <2>1, AssignmentsSent, Lengths DEF Toggle
  <2>2. CASE r = "always"
    BY <2>2, AssignmentsSent, Lengths DEF Toggle
  <2>3. CASE r = "temporary"
    <3>1. CASE scale = scale'
      <4> DEFINE s == <<<<"Discoverable", TRUE>>>> \o <<>>
      <4>1. Set("tab", s)
        BY <2>3, <3>1 DEF Toggle
      <4>2. s \in Seq(Assignments) /\ Len(s) = 1
        BY AssignmentsSent, Lengths
      <4> HIDE DEF s
      <4>3. Len(s) <= 2
        BY <4>2
      <4> QED
        BY <4>1, <4>2, <4>3, Zenon
    <3>2. CASE scale # scale'
      <4> DEFINE s == <<<<"Discoverable", TRUE>>>> \o <<<<"DiscoverableTimeout", Minutes>>>>
      <4>1. Set("tab", s)
        BY <2>3, <3>2 DEF Toggle
      <4>2. s \in Seq(Assignments) /\ Len(s) = 2
        BY AssignmentsSent, Lengths, TimeoutValues
      <4> HIDE DEF s
      <4>3. Len(s) <= 2
        BY <4>2
      <4> QED
        BY <4>1, <4>2, <4>3, Zenon
    <3> QED
      BY <3>1, <3>2
  <2> QED
    BY <2>1, <2>2, <2>3
<1>2. /\ Len(sets'["tab"]) = Len(sets["tab"]) + Len(s) /\ Len(sets["tab"]) \in Nat /\ Len(s) \in Nat
      /\ sets'["applet"] = sets["applet"]
  BY <1>1, Sent
<1> QED
  BY <1>1, <1>2 DEF Toggle

LEMMA SetsBoundedStep ==
    ASSUME SetsOK, AdapterOK, SetsBounded, [VisibilityNext]_visibilityVars
    PROVE  SetsBounded'
<1>0. /\ sets \in [{"applet", "tab"} -> Seq(Assignments)]
      /\ sets["applet"] \in Seq(Assignments) /\ sets["tab"] \in Seq(Assignments)
      /\ Len(sets["applet"]) \in Nat /\ Len(sets["tab"]) \in Nat
  BY DEF SetsOK
<1>1. CASE UNCHANGED <<sets, radio>>
  BY <1>1 DEF SetsBounded
<1>2. CASE on_set_discoverable
  <2>1. PICK s \in Seq(Assignments) :
          Set("applet", s) /\ Len(s) <= 2 /\ \A i \in DOMAIN s : s[i] \in Clicks
    <3>1. <<>> \in Seq(Assignments) /\ Len(<<>>) <= 2 /\ DOMAIN <<>> = {}
      BY AssignmentsSent
    <3>2. /\ Len(<<<<"Discoverable", TRUE>>, <<"DiscoverableTimeout", Option>>>>) <= 2
          /\ \A i \in DOMAIN <<<<"Discoverable", TRUE>>, <<"DiscoverableTimeout", Option>>>> :
               <<<<"Discoverable", TRUE>>, <<"DiscoverableTimeout", Option>>>>[i] \in Clicks
      <4> DEFINE a == <<"Discoverable", TRUE>>
                 b == <<"DiscoverableTimeout", Option>>
      <4>1. a \in Clicks /\ b \in Clicks
        BY DEF Clicks
      <4> HIDE DEF a, b
      <4>2. Len(<<a, b>>) <= 2 /\ \A i \in DOMAIN <<a, b>> : <<a, b>>[i] \in Clicks
        BY <4>1
      <4> QED
        BY <4>2 DEF a, b
    <3> QED
      BY <1>2, <3>1, <3>2, AssignmentsSent DEF on_set_discoverable
  <2>2. sets["applet"] = <<>> /\ radio' = radio
    BY <1>2 DEF on_set_discoverable
  <2>3. sets'["applet"] = sets["applet"] \o s /\ sets'["tab"] = sets["tab"]
    BY <2>1, Sent
  <2>4. sets'["applet"] = s
    BY <2>2, <2>3
  <2> QED
    BY <2>1, <2>2, <2>3, <2>4 DEF SetsBounded
<1>3. CASE OpenWindow
  <2>1. sets["tab"] = <<>> /\ radio' \in {"hidden", "always", "temporary"}
    BY <1>3 DEF OpenWindow, SetsBounded
  <2>2. sets' = sets \/ \E v \in Timeouts : Set("tab", <<<<"DiscoverableTimeout", v>>>>)
    <3>1. scale' \in Timeouts \/ sets' = sets
      BY <1>3, SetsStep DEF SetsOK, OpenWindow
    <3> QED
      BY <1>3, <3>1 DEF OpenWindow
  <2>3. sets'["applet"] = sets["applet"] /\ Len(sets'["tab"]) <= 1
    <3>1. CASE sets' = sets
      BY <2>1, <3>1
    <3>2. ASSUME NEW v \in Timeouts, Set("tab", <<<<"DiscoverableTimeout", v>>>>)
          PROVE  sets'["applet"] = sets["applet"] /\ Len(sets'["tab"]) <= 1
      <4>1. <<<<"DiscoverableTimeout", v>>>> \in Seq(Assignments) /\ Len(<<<<"DiscoverableTimeout", v>>>>) = 1
        BY AssignmentsSent, Lengths
      <4>2. sets'["applet"] = sets["applet"] /\ Len(sets'["tab"]) = Len(sets["tab"]) + 1
        BY <3>2, <4>1, Sent
      <4>3. Len(sets["tab"]) = 0
        BY <2>1
      <4> QED
        BY <4>2, <4>3
    <3> QED
      BY <2>2, <3>1, <3>2
  <2>4. Len(sets'["tab"]) \in Nat
    BY SetsStep, <1>3 DEF SetsOK
  <2> QED
    BY <2>1, <2>3, <2>4 DEF SetsBounded
<1>4. CASE CloseWindow
  BY <1>4 DEF CloseWindow, SetsBounded
<1>5. CASE TabHears
  <2>1. CASE radio = "hidden"
    BY <1>1, <1>5, <2>1 DEF TabHears
  <2>2. CASE radio # "hidden"
    <3>1. Toggle("hidden") /\ Len(sets["tab"]) <= 3
      BY <1>5, <2>2 DEF TabHears, SetsBounded
    <3>2. /\ radio' = "hidden" /\ sets'["applet"] = sets["applet"]
          /\ Len(sets'["tab"]) \in Nat /\ Len(sets'["tab"]) <= Len(sets["tab"]) + 2
      BY <3>1, TogglesBounded
    <3> QED
      BY <1>0, <3>1, <3>2 DEF SetsBounded
  <2> QED
    BY <2>1, <2>2
<1>6. ASSUME NEW r \in {"hidden", "always", "temporary"}, PickRadio(r) PROVE SetsBounded'
  <2>1. Toggle(r) /\ Len(sets["tab"]) = 0
    BY <1>6 DEF PickRadio
  <2>2. /\ radio' = r /\ sets'["applet"] = sets["applet"]
        /\ Len(sets'["tab"]) \in Nat /\ Len(sets'["tab"]) <= Len(sets["tab"]) + 2
    BY <2>1, TogglesBounded
  <2> QED
    BY <2>1, <2>2 DEF SetsBounded
<1>7. ASSUME NEW v \in Timeouts, MoveScale(v) PROVE SetsBounded'
  <2>1. PICK s \in Seq(Assignments) : Set("tab", s) /\ Len(s) <= 3
    <3> DEFINE a == Show \o <<<<"DiscoverableTimeout", 0>>>>
               b == <<<<"DiscoverableTimeout", v>>>>
    <3>1. Set("tab", a) \/ Set("tab", b)
      BY <1>7 DEF MoveScale
    <3>2. a \in Seq(Assignments) /\ Len(a) = 3 /\ b \in Seq(Assignments) /\ Len(b) = 1
      BY AssignmentsSent, Lengths, TimeoutValues
    <3> HIDE DEF a, b
    <3>3. Len(a) <= 3 /\ Len(b) <= 3
      BY <3>2
    <3> QED
      BY <3>1, <3>2, <3>3, Zenon
  <2>2. Len(sets["tab"]) = 0 /\ radio' \in {"always", "temporary"}
    BY <1>7 DEF MoveScale
  <2>3. Len(sets'["tab"]) = Len(sets["tab"]) + Len(s) /\ Len(s) \in Nat /\ sets'["applet"] = sets["applet"]
    BY <2>1, Sent
  <2> QED
    BY <2>1, <2>2, <2>3 DEF SetsBounded
<1>8. ASSUME NEW who \in {"applet", "tab"}, HandleSet(who) PROVE SetsBounded'
  <2>1. /\ sets[who] # <<>> /\ sets' = [sets EXCEPT ![who] = Tail(sets[who])] /\ radio' = radio
    BY <1>8 DEF HandleSet
  <2>2. /\ sets'[who] = Tail(sets[who]) /\ \A x \in {"applet", "tab"} : x # who => sets'[x] = sets[x]
    BY <1>0, <2>1
  <2>3. /\ Len(Tail(sets[who])) = Len(sets[who]) - 1 /\ Tail(sets[who]) \in Seq(Assignments)
        /\ \A i \in DOMAIN Tail(sets[who]) : i + 1 \in DOMAIN sets[who] /\ Tail(sets[who])[i] = sets[who][i + 1]
    BY <1>0, <2>1, Taking
  <2>4. CASE who = "applet"
    <3>1. sets'["tab"] = sets["tab"] /\ sets'["applet"] = Tail(sets["applet"])
      BY <2>2, <2>4
    <3>2. Len(sets'["applet"]) <= 2 /\ \A i \in DOMAIN sets'["applet"] : sets'["applet"][i] \in Clicks
      BY <1>0, <2>3, <2>4, <3>1 DEF SetsBounded
    <3> QED
      BY <2>1, <3>1, <3>2 DEF SetsBounded
  <2>5. CASE who = "tab"
    <3>1. sets'["applet"] = sets["applet"] /\ sets'["tab"] = Tail(sets["tab"]) /\ radio # "none"
      BY <2>1, <2>2, <2>5 DEF SetsBounded
    <3>2. Len(sets'["tab"]) = Len(sets["tab"]) - 1
      BY <2>3, <2>5, <3>1
    <3> QED
      BY <1>0, <2>1, <3>1, <3>2 DEF SetsBounded
  <2> QED
    BY <2>4, <2>5
<1>9. ASSUME NEW all \in BOOLEAN, AdapterGoes(all) PROVE SetsBounded'
  <2>1. CASE all = TRUE
    <3>1. radio' = "none" /\ sets' = [sets EXCEPT !["tab"] = <<>>]
      BY <1>9, <2>1 DEF AdapterGoes
    <3>2. sets'["applet"] = sets["applet"] /\ sets'["tab"] = <<>> /\ Len(sets'["tab"]) = 0
      BY <1>0, <3>1
    <3> QED
      BY <3>1, <3>2 DEF SetsBounded
  <2>2. CASE all = FALSE
    BY <1>1, <1>9, <2>2 DEF AdapterGoes
  <2> QED
    BY <2>1, <2>2
<1>10. CASE UNCHANGED visibilityVars
  BY <1>1, <1>10 DEF visibilityVars
<1>11. CASE Hears \/ on_update \/ Expire \/ PowerOn \/ PowerOff \/ AdapterComes
  BY <1>1, <1>11 DEF Hears, on_update, Expire, PowerOn, PowerOff, AdapterComes
<1> QED
  BY <1>2, <1>3, <1>4, <1>5, <1>6, <1>7, <1>8, <1>9, <1>10, <1>11 DEF VisibilityNext

LEMMA HeardBoundedStep ==
    ASSUME SetsOK, AdapterOK, SetsBounded, HeardBounded, [VisibilityNext]_visibilityVars
    PROVE  HeardBounded'
<1>0. /\ heard \in Seq(Said) /\ Len(heard) \in Nat /\ MaxHeard \in Nat /\ hidings \in 0 .. MaxHeard
      /\ Len(heard) <= Allowance
  BY VisibilityAssumption DEF AdapterOK, HeardBounded
<1>1. MaxHeard <= Allowance /\ MaxHeard <= Allowance' /\ Allowance \in Int /\ Allowance' \in Int
  BY <1>0 DEF Allowance
<1>2. CASE UNCHANGED <<adapter, heard>> /\ hidings' \in 0 .. MaxHeard
  BY <1>2 DEF HeardBounded, Allowance
<1>3. CASE Len(heard') <= MaxHeard /\ Len(heard') \in Nat /\ hidings' \in {0, hidings, hidings + 1} /\ hidings < MaxHeard
  BY <1>0, <1>1, <1>3 DEF HeardBounded
<1>4. ASSUME NEW property, NEW value, Becomes(property, value)
      PROVE  /\ Len(heard') = Len(heard) + 1
             /\ hidings' \in {hidings, hidings + 1} /\ (value = TRUE \/ property # "Discoverable" => hidings' = hidings)
  <2>1. heard' = Append(heard, <<property, value>>)
    BY <1>4 DEF Becomes
  <2>2. \A m : Len(Append(heard, m)) = Len(heard) + 1
    BY <1>0
  <2>3. hidings' \in {hidings, hidings + 1} /\ (value = TRUE \/ property # "Discoverable" => hidings' = hidings)
    BY <1>4 DEF Becomes
  <2> QED
    BY <2>1, <2>2, <2>3
<1>5. CASE Hears
  <2>1. heard # <<>> /\ heard' = Tail(heard) /\ UNCHANGED <<adapter, hidings>>
    BY <1>5 DEF Hears
  <2>2. Len(heard') = Len(heard) - 1
    BY <1>0, <2>1, Taking
  <2> QED
    BY <1>0, <1>1, <2>1, <2>2 DEF HeardBounded, Allowance
<1>6. CASE on_update \/ on_set_discoverable \/ OpenWindow \/ CloseWindow \/ TabHears
           \/ (\E r \in {"hidden", "always", "temporary"} : PickRadio(r)) \/ \E v \in Timeouts : MoveScale(v)
  <2>1. UNCHANGED <<adapter, heard>>
    BY <1>6 DEF on_update, on_set_discoverable, OpenWindow, CloseWindow, TabHears, PickRadio, MoveScale, tabRest
  <2>2. hidings' \in {0, hidings} \/ (hidings > 0 /\ hidings' = hidings - 1)
    BY <1>6 DEF on_update, on_set_discoverable, OpenWindow, CloseWindow, TabHears, PickRadio, MoveScale
  <2> QED
    BY <1>0, <1>2, <2>1, <2>2
<1>7. CASE HandleSet("tab") \/ Expire \/ PowerOn
  <2>1. CASE UNCHANGED <<adapter, heard, hidings>>
    BY <1>0, <1>2, <2>1
  <2>2. ASSUME NEW property, NEW value, Room(1), Becomes(property, value) PROVE HeardBounded'
    <3>1. Len(heard) + 1 <= MaxHeard /\ hidings < MaxHeard
      BY <2>2 DEF Room
    <3>2. Len(heard') = Len(heard) + 1 /\ hidings' \in {hidings, hidings + 1}
      BY <1>4, <2>2
    <3> QED
      BY <1>0, <1>3, <3>1, <3>2
  <2> QED
    BY <1>7, <2>1, <2>2 DEF HandleSet, Expire, PowerOn
<1>8. CASE HandleSet("applet")
  <2> DEFINE m == Head(sets["applet"])
  <2>1. sets["applet"] # <<>> /\ m \in Clicks
    BY <1>8, Taking DEF HandleSet, SetsOK, SetsBounded
  <2>2. \/ UNCHANGED <<adapter, heard, hidings>>
        \/ adapter[m[1]] # m[2] /\ Becomes(m[1], m[2])
    BY <1>8 DEF HandleSet
  <2> HIDE DEF m
  <2>3. CASE m[1] = "Discoverable" /\ m[2] = TRUE /\ adapter.Discoverable # TRUE /\ Becomes("Discoverable", TRUE)
    <3>1. Len(heard') = Len(heard) + 1 /\ hidings' = hidings
      BY <1>4, <2>3
    <3>2. adapter'.Discoverable = TRUE /\ adapter'.DiscoverableTimeout = adapter.DiscoverableTimeout
      BY <2>3 DEF Becomes, AdapterOK
    <3>3. ~adapter.Discoverable /\ adapter'.Discoverable
      BY <2>3, <3>2 DEF AdapterOK
    <3>4. Allowance' = Allowance + 1
      <4> DEFINE rest == IF adapter.DiscoverableTimeout = Option THEN 1 ELSE 0
      <4>1. Allowance = MaxHeard + 0 + rest /\ Allowance' = MaxHeard + 1 + rest /\ rest \in Nat
        BY <3>2, <3>3 DEF Allowance
      <4> HIDE DEF rest
      <4> QED
        BY <1>0, <4>1
    <3> QED
      BY <1>0, <1>1, <3>1, <3>4 DEF HeardBounded
  <2>4. CASE m[1] = "DiscoverableTimeout" /\ m[2] = Option /\ adapter.DiscoverableTimeout # Option
             /\ Becomes("DiscoverableTimeout", Option)
    <3>1. Len(heard') = Len(heard) + 1 /\ hidings' = hidings
      BY <1>4, <2>4
    <3>2. adapter'.DiscoverableTimeout = Option /\ adapter'.Discoverable = adapter.Discoverable
      BY <2>4 DEF Becomes, AdapterOK
    <3>3. Allowance' = Allowance + 1
      BY <1>0, <2>4, <3>2 DEF Allowance
    <3> QED
      BY <1>0, <1>1, <3>1, <3>3 DEF HeardBounded
  <2>5. \/ m[1] = "Discoverable" /\ m[2] = TRUE
        \/ m[1] = "DiscoverableTimeout" /\ m[2] = Option
    <3> DEFINE a == <<"Discoverable", TRUE>>
               b == <<"DiscoverableTimeout", Option>>
    <3>1. m = a \/ m = b
      BY <2>1 DEF Clicks
    <3>2. a[1] = "Discoverable" /\ a[2] = TRUE /\ b[1] = "DiscoverableTimeout" /\ b[2] = Option
      OBVIOUS
    <3> HIDE DEF a, b
    <3> QED
      BY <3>1, <3>2
  <2> QED
    BY <1>0, <1>2, <2>2, <2>3, <2>4, <2>5
<1>9. CASE PowerOff
  <2> DEFINE off == IF adapter.Discoverable THEN <<<<"Discoverable", FALSE>>>> ELSE <<>>
             last == <<<<"Powered", FALSE>>>>
  <2>1. /\ Len(heard) + 2 <= MaxHeard /\ hidings < MaxHeard /\ hidings' \in {hidings, hidings + 1}
        /\ heard' = (heard \o off) \o last
    BY <1>9 DEF PowerOff, Room
  <2>2. off \in Seq(Said) /\ Len(off) <= 1 /\ last \in Seq(Said) /\ Len(last) = 1
    <3>1. <<"Discoverable", FALSE>> \in Said /\ <<"Powered", FALSE>> \in Said
      BY DEF Said, Assignments
    <3>2. \A m \in Said : <<m>> \in Seq(Said) /\ Len(<<m>>) = 1
      OBVIOUS
    <3>3. <<>> \in Seq(Said) /\ Len(<<>>) = 0
      OBVIOUS
    <3> QED
      BY <3>1, <3>2, <3>3
  <2> HIDE DEF off, last
  <2>3. heard \o off \in Seq(Said) /\ Len(heard \o off) = Len(heard) + Len(off) /\ Len(off) \in Nat
    BY <1>0, <2>2
  <2>4. Len(heard') = Len(heard) + Len(off) + Len(last)
    <3>1. last \in Seq(Said)
      BY <2>2
    <3>2. \A p, q \in Seq(Said) : Len(p \o q) = Len(p) + Len(q)
      OBVIOUS
    <3>3. Len((heard \o off) \o last) = Len(heard \o off) + Len(last)
      BY <2>3, <3>1, <3>2
    <3> QED
      BY <2>1, <2>3, <3>3
  <2> QED
    BY <1>0, <1>3, <2>1, <2>2, <2>3, <2>4
<1>10. CASE AdapterComes \/ \E all \in BOOLEAN : AdapterGoes(all)
  <2>1. /\ Len(heard) + 1 <= MaxHeard /\ hidings < MaxHeard /\ hidings' \in {0, hidings}
        /\ \E m : heard' = Append(heard, m)
    BY <1>10 DEF AdapterComes, AdapterGoes, Room
  <2>2. \A m : Len(Append(heard, m)) = Len(heard) + 1
    BY <1>0
  <2> QED
    BY <1>0, <1>3, <2>1, <2>2
<1>11. CASE UNCHANGED visibilityVars
  BY <1>0, <1>2, <1>11 DEF visibilityVars
<1> QED
  BY <1>5, <1>6, <1>7, <1>8, <1>9, <1>10, <1>11 DEF VisibilityNext

LEMMA TimerTypedStep ==
    ASSUME AdapterOK, TimerTyped, [VisibilityNext]_visibilityVars
    PROVE  TimerTyped'
<1>0. Minutes \in Nat \ {0}
  BY VisibilityAssumption
<1>1. CASE UNCHANGED <<timeout, leaked, time_left>>
  BY <1>1 DEF TimerTyped
<1>2. CASE Hears
  <2>1. heard # <<>> /\ Head(heard) \in Said
    BY <1>2, Taking DEF Hears, AdapterOK
  <2>2. CASE StopCountdown /\ UNCHANGED leaked
    <3>1. -1 \in -2 .. Minutes /\ FALSE \in BOOLEAN
      BY <1>0
    <3> QED
      BY <2>2, <3>1 DEF StopCountdown, TimerTyped
  <2>3. CASE Head(heard)[1] = "DiscoverableTimeout" /\ StartCountdown(Head(heard)[2])
    <3>1. Head(heard)[2] \in Timeouts
      BY <2>1, <2>3 DEF Said, Assignments
    <3>2. Head(heard)[2] \in -2 .. Minutes
      BY <1>0, <3>1 DEF Timeouts, Option
    <3> QED
      BY <2>3, <3>2 DEF StartCountdown, TimerTyped
  <2> QED
    BY <1>1, <1>2, <2>2, <2>3 DEF Hears, pluginVars
<1>3. CASE on_update
  <2>1. time_left \in -2 .. Minutes /\ time_left' = (IF time_left = -2 THEN -2 ELSE time_left - 1)
        /\ UNCHANGED <<timeout, leaked>>
    BY <1>3 DEF on_update, TimerTyped
  <2>2. time_left' \in -2 .. Minutes
    BY <1>0, <2>1
  <2> QED
    BY <2>1, <2>2 DEF TimerTyped
<1>4. CASE UNCHANGED visibilityVars
  BY <1>1, <1>4 DEF visibilityVars
<1> QED
  BY <1>1, <1>2, <1>3, <1>4 DEF VisibilityNext, on_set_discoverable, OpenWindow, CloseWindow, TabHears, PickRadio,
     MoveScale, HandleSet, Expire, PowerOn, PowerOff, AdapterComes, AdapterGoes, tabRest, pluginVars, bluezRest

LEMMA VisibilityBoundedInvariant == Spec => []VisibilityBounded
<1>1. Init => VisibilityBounded
  <2> SUFFICES ASSUME VisibilityInit PROVE VisibilityBounded
    BY DEF Init
  <2>1. sets["applet"] = <<>> /\ sets["tab"] = <<>> /\ radio = "none"
    BY DEF VisibilityInit
  <2>2. SetsBounded
    BY <2>1 DEF SetsBounded
  <2>3. Len(heard) = 1 /\ hidings = 0 /\ adapter.Discoverable = FALSE /\ MaxHeard \in Nat \ {0}
    <3>1. \A m : Len(<<m>>) = 1
      OBVIOUS
    <3> QED
      BY <3>1, VisibilityAssumption DEF VisibilityInit
  <2>4. HeardBounded
    BY <2>3 DEF HeardBounded, Allowance
  <2>5. TimerTyped
    <3>1. -1 \in -2 .. Minutes
      BY VisibilityAssumption
    <3> QED
      BY <3>1 DEF VisibilityInit, TimerTyped
  <2> QED
    BY <2>2, <2>4, <2>5 DEF VisibilityBounded
<1>2. VisibilityInv /\ VisibilityBounded /\ [Next]_vars => VisibilityBounded'
  BY GroupSteps, SetsBoundedStep, HeardBoundedStep, TimerTypedStep DEF VisibilityInv, VisibilityBounded
<1> QED
  BY <1>1, <1>2, VisibilityInvariant, PTL DEF Spec

LEMMA VisibilityTypes == VisibilityInv /\ VisibilityBounded => VisibilityTypeOK
<1> SUFFICES ASSUME VisibilityInv, VisibilityBounded PROVE VisibilityTypeOK
  OBVIOUS
<1>1. SetsOK /\ AdapterOK /\ SetsBounded /\ HeardBounded /\ TimerTyped
  BY DEF VisibilityInv, VisibilityBounded
<1>2. Len(heard) <= MaxHeard + 2
  <2>1. MaxHeard \in Nat /\ Len(heard) \in Nat
    BY <1>1, VisibilityAssumption DEF AdapterOK
  <2> QED
    BY <1>1, <2>1 DEF HeardBounded, Allowance
<1>3. Len(sets["tab"]) <= 5
  <2>1. Len(sets["tab"]) \in Nat
    BY <1>1 DEF SetsOK
  <2> QED
    BY <1>1, <2>1 DEF SetsBounded
<1>4. {known, timeout, leaked, item.visible, item.sensitive} \subseteq BOOLEAN
  BY <1>1 DEF AdapterOK, TimerTyped
<1> QED
  BY <1>1, <1>2, <1>3, <1>4 DEF VisibilityTypeOK, AdapterOK, SetsOK, SetsBounded, HeardBounded, TimerTyped

(***************************************************************************)
(* The bounds and the types of the connection watchers.                    *)
(***************************************************************************)
\* No connection waits in the queue that would take wake_lock beyond its bound, whether the
\* plugin is loaded or will be.
Lockable(q, lock) ==
    \A i \in DOMAIN q : q[i].what = "connected" => i <= MaxLock /\ lock + i <= MaxLock

LockBounded == wake_lock \in -1 .. MaxLock /\ Lockable(told, wake_lock)

WatchersTyped ==
    /\ items \subseteq Controllers /\ manager_state \in BOOLEAN /\ initialized \in BOOLEAN
    /\ Len(told) <= MaxTold

ConnectionsBounded == LockBounded /\ WatchersTyped

LEMMA LockableAppends ==
    ASSUME NEW S, NEW q \in Seq(S), NEW a \in S, NEW lock, Lockable(q, lock),
           a.what = "connected" => Len(q) + 1 <= MaxLock /\ lock + (Len(q) + 1) <= MaxLock
    PROVE  Lockable(Append(q, a), lock)
BY Appending DEF Lockable

LEMMA LockableTail ==
    ASSUME NEW S, NEW q \in Seq(S), q # <<>>, NEW lock \in Int, NEW next \in Int, Lockable(q, lock),
           \/ next <= lock
           \/ next = lock + 1
           \/ next <= 0
    PROVE  Lockable(Tail(q), next)
<1> SUFFICES ASSUME NEW i \in DOMAIN Tail(q), Tail(q)[i].what = "connected"
             PROVE  i <= MaxLock /\ next + i <= MaxLock
  BY DEF Lockable
<1>1. /\ i + 1 \in DOMAIN q /\ Tail(q)[i] = q[i + 1] /\ DOMAIN q = 1 .. Len(q) /\ Tail(q) \in Seq(S)
      /\ Len(q) \in Nat
  BY Taking
<1>2. i + 1 <= MaxLock /\ lock + (i + 1) <= MaxLock
  BY <1>1 DEF Lockable
<1>3. i \in Nat /\ MaxLock \in Nat
  BY <1>1, ConnectionsAssumption
<1> QED
  BY <1>2, <1>3

\* What a plugin does to wake_lock when a device connects or disconnects
LEMMA LockMoves ==
    ASSUME NEW b \in BOOLEAN, Lock(b), wake_lock \in Int, wake_lock >= -1
    PROVE  \/ wake_lock' = wake_lock
           \/ b /\ wake_lock' = wake_lock + 1
           \/ wake_lock >= 0 /\ wake_lock' >= 0 /\ wake_lock' = wake_lock - 1
BY DEF Lock, Suspend, Resume, lockVars

LEMMA LockBoundedStep ==
    ASSUME ToldOK, LockBounded, [ConnectionsNext]_connectionVars
    PROVE  LockBounded'
<1>0. /\ told \in Seq(Changes \cup Services) /\ wake_lock \in -1 .. MaxLock /\ Lockable(told, wake_lock)
      /\ MaxLock \in Nat \ {0} /\ Len(told) \in Nat
  BY ConnectionsAssumption DEF ToldOK, LockBounded
<1>1. CASE UNCHANGED <<told, wake_lock>>
  BY <1>1 DEF LockBounded
<1>2. CASE LoadLock \/ UnloadLock
  <2>1. told' = told /\ wake_lock' \in {-1, 0}
    BY <1>2 DEF LoadLock, UnloadLock, bluezVars
  <2>2. Lockable(told, wake_lock')
    <3> SUFFICES ASSUME NEW i \in DOMAIN told, told[i].what = "connected"
                 PROVE  i <= MaxLock /\ wake_lock' + i <= MaxLock
      BY DEF Lockable
    <3>1. i <= MaxLock /\ i \in Nat
      BY <1>0 DEF Lockable
    <3> QED
      BY <1>0, <2>1, <3>1
  <2> QED
    BY <1>0, <2>1, <2>2 DEF LockBounded
<1>3. ASSUME NEW b \in BOOLEAN, ConnectedChanges(b) PROVE LockBounded'
  <2>1. told # <<>> /\ told' = Tail(told) /\ Lock(b) /\ (b => Head(told).what = "connected")
    BY <1>3 DEF ConnectedChanges, Handle
  <2>2. b => wake_lock + 1 <= MaxLock
    BY <1>0, <2>1, Taking DEF Lockable
  <2>3. \/ wake_lock' = wake_lock
        \/ b /\ wake_lock' = wake_lock + 1
        \/ wake_lock >= 0 /\ wake_lock' >= 0 /\ wake_lock' = wake_lock - 1
    BY <1>0, <2>1, LockMoves
  <2>4. wake_lock' \in -1 .. MaxLock
    BY <1>0, <2>2, <2>3
  <2>5. Lockable(Tail(told), wake_lock')
    BY <1>0, <2>1, <2>3, <2>4, LockableTail
  <2> QED
    BY <2>1, <2>4, <2>5 DEF LockBounded
<1>4. ASSUME NEW b \in BOOLEAN, AdapterEvent(b) \/ ManagerState(b) PROVE LockBounded'
  <2>1. told # <<>> /\ told' = Tail(told) /\ wake_lock' = wake_lock
    BY <1>4 DEF AdapterEvent, ManagerState, Handle, lockVars
  <2> QED
    BY <1>0, <2>1, LockableTail DEF LockBounded
<1>5. ASSUME NEW d \in Controllers, Links(d) PROVE LockBounded'
  <2> DEFINE a == About(d, "connected")
  <2>1. a \in Changes \cup Services
    BY Distinct
  <2>2. told' = told \o <<a>> /\ wake_lock' = wake_lock
    BY <1>5 DEF Links, Tells, appletRest, lockVars
  <2>3. Len(told) + 1 <= MaxLock /\ wake_lock + (Len(told) + 1) <= MaxLock
    <3>1. \A lock \in {0, wake_lock} : lock + Len(told) < MaxLock
      BY <1>5 DEF Links
    <3>2. Len(told) < MaxLock /\ wake_lock + Len(told) < MaxLock
      BY <1>0, <3>1
    <3> QED
      BY <1>0, <3>2
  <2> HIDE DEF a
  <2>4. told' = Append(told, a)
    BY <1>0, <2>1, <2>2, Telling
  <2> QED
    BY <1>0, <2>1, <2>2, <2>3, <2>4, LockableAppends DEF LockBounded
<1>6. ASSUME NEW d \in Controllers, Unlinks(d) PROVE LockBounded'
  <2> DEFINE a == About(d, "disconnected")
  <2>1. a \in Changes \cup Services /\ a.what # "connected"
    <3>1. a.what # "connected"
      BY DEF About
    <3> HIDE DEF a
    <3>2. a \in Changes \cup Services
      BY Distinct DEF a
    <3> QED
      BY <3>1, <3>2
  <2>2. told' = told \o <<a>> /\ wake_lock' = wake_lock
    BY <1>6 DEF Unlinks, Tells, appletRest, lockVars
  <2> HIDE DEF a
  <2>3. told' = Append(told, a)
    BY <1>0, <2>1, <2>2, Telling
  <2> QED
    BY <1>0, <2>1, <2>2, <2>3, LockableAppends DEF LockBounded
<1>9. ASSUME NEW d \in Controllers, ComesLinked(d) PROVE LockBounded'
  <2> DEFINE a == About(d, "created")
  <2>1. a \in Changes \cup Services /\ a.what # "connected"
    <3>1. a.what # "connected"
      BY DEF About
    <3> HIDE DEF a
    <3>2. a \in Changes \cup Services
      BY Distinct DEF a
    <3> QED
      BY <3>1, <3>2
  <2>2. told' = told \o <<a>> /\ wake_lock' = wake_lock
    BY <1>9 DEF ComesLinked, Tells, appletRest, lockVars
  <2> HIDE DEF a
  <2>3. told' = Append(told, a)
    BY <1>0, <2>1, <2>2, Telling
  <2> QED
    BY <1>0, <2>1, <2>2, <2>3, LockableAppends DEF LockBounded
<1>10. ASSUME DeviceCreated PROVE LockBounded'
  <2>1. told # <<>> /\ told' = Tail(told) /\ wake_lock' = wake_lock
    BY <1>10 DEF DeviceCreated, Handle, lockVars
  <2> QED
    BY <1>0, <2>1, LockableTail DEF LockBounded
<1>7. CASE Goes \/ Comes
  <2>1. \A what \in {"added", "removed", "appeared", "vanished"} :
           Told(what) \in Changes \cup Services /\ Told(what).what # "connected"
    BY DEF Told, Services, Added, Removed, Appeared, Vanished
  <2>2. /\ wake_lock' = wake_lock
        /\ \E v, w \in {"added", "removed", "appeared", "vanished"} :
             told' = told \o <<Told(v)>> \/ told' = told \o <<Told(v), Told(w)>>
    BY <1>7, Zenon DEF Goes, Comes, Tells, Orders, appletRest, lockVars
  <2>3. PICK a, b \in Changes \cup Services :
          /\ a.what # "connected" /\ b.what # "connected"
          /\ told' = told \o <<a>> \/ told' = told \o <<a, b>>
    BY <2>1, <2>2, Zenon
  <2>4. told' = Append(told, a) \/ told' = Append(Append(told, a), b)
    BY <1>0, <2>3, Telling
  <2>5. Append(told, a) \in Seq(Changes \cup Services) /\ Lockable(Append(told, a), wake_lock)
    BY <1>0, <2>3, Appending, LockableAppends
  <2>6. Lockable(Append(Append(told, a), b), wake_lock)
    BY <2>3, <2>5, LockableAppends
  <2> QED
    BY <1>0, <2>2, <2>4, <2>5, <2>6 DEF LockBounded
<1>8. CASE EnumerateLater \/ (\E d \in Controllers : BatteryUpdate(d)) \/ UNCHANGED connectionVars
  BY <1>1, <1>8 DEF EnumerateLater, BatteryUpdate, connectionVars, bluezVars, lockVars
<1> QED
  BY <1>2, <1>3, <1>4, <1>5, <1>6, <1>7, <1>8, <1>9, <1>10 DEF ConnectionsNext

LEMMA WatchersTypedStep ==
    ASSUME ToldOK, WatchersTyped, [ConnectionsNext]_connectionVars
    PROVE  WatchersTyped'
<1>0. told \in Seq(Changes \cup Services) /\ linked \subseteq Controllers /\ MaxTold \in Nat
  BY ConnectionsAssumption DEF ToldOK
<1>1. \A k : Render(k) => items' \subseteq Controllers
  BY <1>0 DEF Render, Reads
<1>2. items' = items \/ items' \subseteq Controllers
  BY <1>1 DEF ConnectionsNext, connectionVars, EnumerateLater, LoadLock, UnloadLock, Goes, Comes, ConnectedChanges,
     AdapterEvent, ManagerState, BatteryUpdate, DeviceCreated, Links, ComesLinked, Unlinks, appletRest
<1>3. manager_state' = manager_state \/ manager_state' \in BOOLEAN
  BY DEF ConnectionsNext, connectionVars, EnumerateLater, LoadLock, UnloadLock, Goes, Comes, ConnectedChanges,
     AdapterEvent, ManagerState, BatteryUpdate, DeviceCreated, Links, ComesLinked, Unlinks, appletRest
<1>4. initialized' = initialized \/ initialized' \in BOOLEAN
  BY DEF ConnectionsNext, connectionVars, EnumerateLater, LoadLock, UnloadLock, Goes, Comes, ConnectedChanges, ShowDevice,
     ShowState, AdapterEvent, ManagerState, BatteryUpdate, DeviceCreated, Links, ComesLinked, Unlinks, appletRest, showVars
<1>5. Len(told') <= MaxTold
  <2>1. CASE told' = told
    BY <2>1 DEF WatchersTyped
  <2>2. CASE told # <<>> /\ told' = Tail(told)
    <3>1. Len(told') = Len(told) - 1 /\ Len(told) \in Nat
      BY <1>0, <2>2, Taking
    <3> QED
      BY <1>0, <3>1 DEF WatchersTyped
  <2>3. ASSUME NEW s \in Seq(Changes \cup Services), Tells(s) PROVE Len(told') <= MaxTold
    <3>1. Len(told \o s) = Len(told) + Len(s)
      BY <1>0
    <3> QED
      BY <2>3, <3>1 DEF Tells
  <2>4. /\ \A d \in Controllers : /\ About(d, "connected") \in Changes \cup Services
                                  /\ About(d, "disconnected") \in Changes \cup Services
                                  /\ About(d, "created") \in Changes \cup Services
        /\ \A what \in {"added", "removed", "appeared", "vanished"} : Told(what) \in Changes \cup Services
    BY Distinct DEF Told, Services, Added, Removed, Appeared, Vanished
  <2>5. \A a, b \in Changes \cup Services : <<a>> \in Seq(Changes \cup Services) /\ <<a, b>> \in Seq(Changes \cup Services)
    OBVIOUS
  <2>6. CASE \E d \in Controllers : Links(d) \/ ComesLinked(d) \/ Unlinks(d)
    BY <2>3, <2>4, <2>5, <2>6, Zenon DEF Links, ComesLinked, Unlinks
  <2>7. CASE Goes \/ Comes
    <3>1. \E v, w \in {"added", "removed", "appeared", "vanished"} : Tells(<<Told(v)>>) \/ Tells(<<Told(v), Told(w)>>)
      BY <2>7, Zenon DEF Goes, Comes, Orders
    <3>2. PICK a, b \in Changes \cup Services : Tells(<<a>>) \/ Tells(<<a, b>>)
      BY <2>4, <3>1, Zenon
    <3> QED
      BY <2>3, <2>5, <3>2, Zenon
  <2>8. CASE DeviceCreated \/ \E b \in BOOLEAN : ConnectedChanges(b) \/ AdapterEvent(b) \/ ManagerState(b)
    BY <2>2, <2>8 DEF DeviceCreated, ConnectedChanges, AdapterEvent, ManagerState, Handle
  <2>9. CASE EnumerateLater \/ LoadLock \/ UnloadLock \/ (\E d \in Controllers : BatteryUpdate(d))
             \/ UNCHANGED connectionVars
    BY <2>1, <2>9 DEF EnumerateLater, LoadLock, UnloadLock, BatteryUpdate, connectionVars, bluezVars
  <2> QED
    BY <2>6, <2>7, <2>8, <2>9 DEF ConnectionsNext
<1> QED
  BY <1>2, <1>3, <1>4, <1>5 DEF WatchersTyped

LEMMA ConnectionsBoundedInvariant == Spec => []ConnectionsBounded
<1>1. Init => ConnectionsBounded
  <2> SUFFICES ASSUME ConnectionsInit PROVE ConnectionsBounded
    BY DEF Init
  <2>1. /\ wake_lock = 0 /\ items = {} /\ manager_state \in BOOLEAN /\ initialized \in BOOLEAN
        /\ MaxLock \in Nat \ {0} /\ MaxTold \in Nat \ {0}
    BY ConnectionsAssumption DEF ConnectionsInit
  <2> DEFINE a == Told("appeared")
  <2>2. told = <<a>> /\ a.what # "connected"
    BY DEF ConnectionsInit, Told
  <2> HIDE DEF a
  <2>3. Len(told) = 1 /\ \A i \in DOMAIN told : told[i] = a
    BY <2>2
  <2>4. Lockable(told, wake_lock)
    BY <2>2, <2>3 DEF Lockable
  <2> QED
    BY <2>1, <2>3, <2>4 DEF ConnectionsBounded, LockBounded, WatchersTyped
<1>2. ConnectionsInv /\ ConnectionsBounded /\ [Next]_vars => ConnectionsBounded'
  BY GroupSteps, LockBoundedStep, WatchersTypedStep DEF ConnectionsInv, ConnectionsBounded
<1> QED
  BY <1>1, <1>2, ConnectionsInvariant, PTL DEF Spec

LEMMA ConnectionsTypes == ConnectionsInv /\ ConnectionsBounded => ConnectionsTypeOK
<1> SUFFICES ASSUME ConnectionsInv, ConnectionsBounded PROVE ConnectionsTypeOK
  OBVIOUS
<1>1. ToldOK /\ RecordsOK /\ LockTyped /\ LockBounded /\ WatchersTyped
  BY DEF ConnectionsInv, ConnectionsBounded
<1>2. {manager_state, objects, active, initialized, source, suspended, failed} \subseteq BOOLEAN
  BY <1>1 DEF ToldOK, LockTyped, WatchersTyped
<1>3. linked \cup missed \cup _connections \cup items \cup bubbles \subseteq Controllers
  BY <1>1 DEF ToldOK, RecordsOK, WatchersTyped
<1> QED
  BY <1>1, <1>2, <1>3 DEF ConnectionsTypeOK, ToldOK, LockBounded, WatchersTyped

(***************************************************************************)
(* The bounds and the types of the traffic counter.                        *)
(***************************************************************************)
CountersBounded ==
    /\ \A n \in Names : bytes[n] <= MaxBytes
    /\ \A d \in Peers : moved[d] <= MaxBytes
    /\ \A i \in DOMAIN monitors : monitors[i].last <= MaxBytes

DialogTyped ==
    /\ Len(interfaces) + Len(monitors) <= MaxMonitors /\ DOMAIN rows \subseteq Peers
    /\ loaded \in BOOLEAN /\ active_dialog \in BOOLEAN

LEMMA RowsGrow ==
    ASSUME NEW d \in Peers, NEW n, DOMAIN rows \subseteq Peers
    PROVE  DOMAIN With(rows, Row(d, n)) \subseteq Peers
BY DEF With, Row

\* A monitor is made, whether or not the dialog shows it.
LEMMA MonitorMade ==
    ASSUME UsageTyped, CountersBounded, DialogTyped, NEW d \in Peers, NEW n \in Names, MonitorInterface(d, n)
    PROVE  /\ Len(monitors') = Len(monitors) + 1 /\ DOMAIN rows' \subseteq Peers
           /\ \A i \in DOMAIN monitors' : monitors'[i].last <= MaxBytes
<1> DEFINE m == [dev |-> d, name |-> n, last |-> 0]
<1>1. m \in Monitors /\ m.last = 0 /\ MaxBytes \in Nat /\ monitors \in Seq(Monitors)
  BY NetUsageAssumption DEF Monitors, UsageTyped
<1>2. monitors' = Append(monitors, m)
  BY DEF MonitorInterface
<1>3. DOMAIN rows' \subseteq Peers
  BY RowsGrow DEF MonitorInterface, DialogTyped
<1> HIDE DEF m
<1>4. Len(monitors') = Len(monitors) + 1
  BY <1>1, <1>2
<1>5. ASSUME NEW i \in DOMAIN monitors' PROVE monitors'[i].last <= MaxBytes
  <2>1. (i \in DOMAIN monitors /\ monitors'[i] = monitors[i]) \/ monitors'[i] = m
    BY <1>1, <1>2, <1>5, Appending
  <2> QED
    BY <1>1, <2>1 DEF CountersBounded
<1> QED
  BY <1>3, <1>4, <1>5

LEMMA CountersBoundedStep ==
    ASSUME UsageTyped, CountersBounded, DialogTyped, [UsageNext]_usageVars
    PROVE  CountersBounded'
<1>0. /\ owner \in [Names -> Peers \cup {Nobody}] /\ bytes \in [Names -> Nat] /\ monitors \in Seq(Monitors)
      /\ moved \in [Peers -> Nat] /\ usage \in [Peers -> Nat] /\ MaxBytes \in Nat /\ interfaces \in Seq(Interfaces)
  BY NetUsageAssumption DEF UsageTyped
<1>1. CASE UNCHANGED <<bytes, moved, monitors>>
  BY <1>1 DEF CountersBounded
<1>2. CASE OnInterface
  <2>1. /\ interfaces # <<>> /\ UNCHANGED <<bytes, moved>>
        /\ MonitorInterface(Head(interfaces).dev, Head(interfaces).name) \/ UNCHANGED monitors
    BY <1>2 DEF OnInterface
  <2>2. Head(interfaces) \in Interfaces
    BY <1>0, <2>1, Taking
  <2>3. Head(interfaces).dev \in Peers /\ Head(interfaces).name \in Names
    BY <2>2 DEF Interfaces
  <2> QED
    BY <2>1, <2>3, MonitorMade DEF CountersBounded
<1>3. ASSUME NEW i \in DOMAIN monitors, Poll(i) PROVE CountersBounded'
  <2>1. UNCHANGED <<bytes, moved>>
    BY <1>3 DEF Poll
  <2>2. monitors[i] \in Monitors /\ monitors[i].name \in Names
    <3>1. monitors[i] \in Monitors
      BY <1>0
    <3> QED
      BY <3>1 DEF Monitors
  <2>3. CASE monitors' = [monitors EXCEPT ![i].last = bytes[monitors[i].name]]
    <3>1. \A k \in DOMAIN monitors : k # i => monitors'[k] = monitors[k]
      BY <1>0, <2>3
    <3>2. monitors'[i].last = bytes[monitors[i].name] /\ DOMAIN monitors' = DOMAIN monitors
      BY <1>0, <2>2, <2>3 DEF Monitors
    <3> QED
      BY <2>1, <2>2, <3>1, <3>2 DEF CountersBounded
  <2>4. CASE monitors' = RemoveAt(monitors, i)
    <3>1. \A k \in DOMAIN monitors' : \E j \in DOMAIN monitors : monitors'[k] = monitors[j]
      BY <1>0, <2>4, Removing
    <3> QED
      BY <2>1, <3>1 DEF CountersBounded
  <2> QED
    BY <1>3, <2>3, <2>4 DEF Poll
<1>4. ASSUME NEW d \in Peers, on_reset(d) PROVE CountersBounded'
  <2>1. UNCHANGED <<bytes, monitors>> /\ moved' = [moved EXCEPT ![d] = IF @ > usage[d] THEN @ - usage[d] ELSE 0]
    BY <1>4 DEF on_reset
  <2>2. \A e \in Peers : moved'[e] <= MaxBytes
    BY <1>0, <2>1 DEF CountersBounded
  <2> QED
    BY <2>1, <2>2 DEF CountersBounded
<1>5. ASSUME NEW n \in Names, NEW d \in Peers, Opens(n, d) PROVE CountersBounded'
  <2>1. /\ bytes' = [bytes EXCEPT ![n] = 0] /\ UNCHANGED moved
        /\ UNCHANGED monitors \/ MonitorInterface(d, n)
    BY <1>5 DEF Opens
  <2>2. \A k \in Names : bytes'[k] <= MaxBytes
    BY <1>0, <2>1 DEF CountersBounded
  <2> QED
    BY <2>1, <2>2, MonitorMade DEF CountersBounded
<1>6. ASSUME NEW n \in Names, Moves(n) PROVE CountersBounded'
  <2>1. /\ owner[n] \in Peers /\ bytes[n] < MaxBytes /\ moved[owner[n]] < MaxBytes
        /\ bytes' = [bytes EXCEPT ![n] = @ + 1] /\ moved' = [moved EXCEPT ![owner[n]] = @ + 1] /\ UNCHANGED monitors
    BY <1>0, <1>6 DEF Moves
  <2>2. \A k \in Names : bytes'[k] <= MaxBytes
    BY <1>0, <2>1 DEF CountersBounded
  <2>3. \A e \in Peers : moved'[e] <= MaxBytes
    BY <1>0, <2>1 DEF CountersBounded
  <2> QED
    BY <2>1, <2>2, <2>3 DEF CountersBounded
<1>7. CASE \E on \in BOOLEAN : Load(on)
  <2>1. UNCHANGED <<bytes, moved>> /\ monitors' = <<>>
    BY <1>7 DEF Load
  <2> QED
    BY <2>1 DEF CountersBounded
<1>8. CASE activate_ui \/ on_response \/ (\E n \in Names : Closes(n)) \/ UNCHANGED usageVars
  BY <1>1, <1>8 DEF activate_ui, on_response, Closes, usageVars
<1>9. ASSUME NEW i \in 1 .. MaxMonitors, Poll(i) PROVE CountersBounded'
  BY <1>3, <1>9 DEF Poll
<1> QED
  BY <1>2, <1>4, <1>5, <1>6, <1>7, <1>8, <1>9 DEF UsageNext

LEMMA DialogTypedStep ==
    ASSUME UsageTyped, CountersBounded, DialogTyped, [UsageNext]_usageVars
    PROVE  DialogTyped'
<1>0. /\ monitors \in Seq(Monitors) /\ interfaces \in Seq(Interfaces) /\ MaxMonitors \in Nat
      /\ Len(monitors) \in Nat /\ Len(interfaces) \in Nat /\ listed \subseteq Peers
      /\ Len(interfaces) + Len(monitors) <= MaxMonitors /\ DOMAIN rows \subseteq Peers
  BY NetUsageAssumption DEF UsageTyped, DialogTyped
<1>1. loaded' \in BOOLEAN /\ active_dialog' \in BOOLEAN
  BY DEF DialogTyped, UsageNext, usageVars, OnInterface, activate_ui, on_response, Closed, Poll, on_reset, Opens, Closes,
     Moves, Load
<1>2. CASE OnInterface
  <2>1. /\ interfaces # <<>> /\ interfaces' = Tail(interfaces)
        /\ MonitorInterface(Head(interfaces).dev, Head(interfaces).name) \/ UNCHANGED <<monitors, rows>>
    BY <1>2 DEF OnInterface
  <2>2. Head(interfaces) \in Interfaces /\ Len(interfaces') = Len(interfaces) - 1
    BY <1>0, <2>1, Taking
  <2>3. Head(interfaces).dev \in Peers /\ Head(interfaces).name \in Names
    BY <2>2 DEF Interfaces
  <2>4. Len(monitors') \in {Len(monitors), Len(monitors) + 1} /\ DOMAIN rows' \subseteq Peers
    BY <1>0, <2>1, <2>3, MonitorMade
  <2> QED
    BY <1>0, <1>1, <2>2, <2>4 DEF DialogTyped
<1>3. ASSUME NEW i \in DOMAIN monitors, Poll(i) PROVE DialogTyped'
  <2>1. interfaces' = interfaces
    BY <1>3 DEF Poll
  <2>2. monitors[i].dev \in Peers
    <3>1. monitors[i] \in Monitors
      BY <1>0
    <3> QED
      BY <3>1 DEF Monitors
  <2>3. DOMAIN rows' \subseteq Peers
    BY <1>0, <1>3, <2>2, RowsGrow DEF Poll, RowRemoved
  <2>4. Len(monitors') \in {Len(monitors), Len(monitors) - 1}
    <3>1. CASE monitors' = RemoveAt(monitors, i)
      BY <1>0, <3>1, Removing
    <3>2. CASE monitors' = [monitors EXCEPT ![i].last = bytes[monitors[i].name]]
      BY <1>0, <3>2
    <3> QED
      BY <1>3, <3>1, <3>2 DEF Poll
  <2> QED
    BY <1>0, <1>1, <2>1, <2>3, <2>4 DEF DialogTyped
<1>4. ASSUME NEW i \in 1 .. MaxMonitors, Poll(i) PROVE DialogTyped'
  BY <1>3, <1>4 DEF Poll
<1>5. ASSUME NEW n \in Names, NEW d \in Peers, Opens(n, d) PROVE DialogTyped'
  <2> DEFINE x == [dev |-> d, name |-> n]
  <2>1. /\ Len(monitors) + Len(interfaces) < MaxMonitors
        /\ \/ interfaces' = Append(interfaces, x) /\ UNCHANGED <<monitors, rows>>
           \/ MonitorInterface(d, n) /\ UNCHANGED interfaces
    BY <1>5 DEF Opens
  <2> HIDE DEF x
  <2>2. Len(Append(interfaces, x)) = Len(interfaces) + 1
    BY <1>0
  <2>3. CASE interfaces' = Append(interfaces, x) /\ UNCHANGED <<monitors, rows>>
    BY <1>0, <1>1, <2>1, <2>2, <2>3 DEF DialogTyped
  <2>4. CASE MonitorInterface(d, n) /\ UNCHANGED interfaces
    <3>1. Len(monitors') = Len(monitors) + 1 /\ DOMAIN rows' \subseteq Peers
      BY <2>4, MonitorMade
    <3> QED
      BY <1>0, <1>1, <2>1, <2>4, <3>1 DEF DialogTyped
  <2> QED
    BY <2>1, <2>3, <2>4
<1>6. CASE activate_ui
  BY <1>0, <1>1, <1>6 DEF activate_ui, DialogTyped
<1>7. CASE on_response \/ \E on \in BOOLEAN : Load(on)
  <2>1. interfaces' = interfaces /\ (monitors' = monitors \/ monitors' = <<>>) /\ DOMAIN rows' = {}
    BY <1>7 DEF on_response, Load, Closed
  <2> QED
    BY <1>0, <1>1, <2>1 DEF DialogTyped
<1>8. CASE (\E d \in Peers : on_reset(d)) \/ (\E n \in Names : Closes(n) \/ Moves(n)) \/ UNCHANGED usageVars
  <2>1. UNCHANGED <<interfaces, monitors, rows>>
    BY <1>8 DEF on_reset, Closes, Moves, usageVars
  <2> QED
    BY <1>1, <2>1 DEF DialogTyped
<1> QED
  BY <1>2, <1>4, <1>5, <1>6, <1>7, <1>8 DEF UsageNext

LEMMA UsageBoundedInvariant == Spec => [](CountersBounded /\ DialogTyped)
<1>1. Init => CountersBounded /\ DialogTyped
  <2> SUFFICES ASSUME UsageInit PROVE CountersBounded /\ DialogTyped
    BY DEF Init
  <2>1. MaxBytes \in Nat /\ MaxMonitors \in Nat
    BY NetUsageAssumption
  <2>2. monitors = <<>> /\ interfaces = <<>> /\ DOMAIN rows = {} /\ loaded = TRUE /\ active_dialog = FALSE
        /\ (\A n \in Names : bytes[n] = 0) /\ \A d \in Peers : moved[d] = 0
    BY DEF UsageInit
  <2>3. DOMAIN monitors = {} /\ Len(monitors) = 0 /\ Len(interfaces) = 0
    BY <2>2
  <2>4. CountersBounded
    BY <2>1, <2>2, <2>3 DEF CountersBounded
  <2>5. DialogTyped
    <3>1. Len(interfaces) + Len(monitors) <= MaxMonitors
      BY <2>1, <2>3
    <3>2. loaded \in BOOLEAN /\ active_dialog \in BOOLEAN
      BY <2>2, Zenon
    <3>3. DOMAIN rows \subseteq Peers
      BY <2>2
    <3> QED
      BY <3>1, <3>2, <3>3 DEF DialogTyped
  <2> QED
    BY <2>4, <2>5
<1>2. UsageInv /\ CountersBounded /\ DialogTyped /\ [Next]_vars => CountersBounded' /\ DialogTyped'
  BY GroupSteps, CountersBoundedStep, DialogTypedStep DEF UsageInv
<1> QED
  BY <1>1, <1>2, TrafficInvariant, PTL DEF Spec

LEMMA UsageTypes == UsageInv /\ CountersBounded /\ DialogTyped => UsageTypeOK
<1> SUFFICES ASSUME UsageTyped, CountersBounded, DialogTyped PROVE UsageTypeOK
  BY DEF UsageInv
<1>0. MaxBytes \in Nat
  BY NetUsageAssumption
<1>1. bytes \in [Names -> 0 .. MaxBytes]
  BY <1>0 DEF UsageTyped, CountersBounded
<1>2. \A d \in Peers : usage[d] \in Nat /\ moved[d] \in 0 .. MaxBytes
  BY <1>0 DEF UsageTyped, CountersBounded
<1>3. \A i \in DOMAIN monitors : monitors[i].dev \in Peers /\ monitors[i].name \in Names /\ monitors[i].last \in 0 .. MaxBytes
  <2> SUFFICES ASSUME NEW i \in DOMAIN monitors
               PROVE  monitors[i].dev \in Peers /\ monitors[i].name \in Names /\ monitors[i].last \in 0 .. MaxBytes
    OBVIOUS
  <2>1. monitors[i] \in Monitors /\ monitors[i].last <= MaxBytes
    BY DEF UsageTyped, CountersBounded
  <2> QED
    BY <1>0, <2>1 DEF Monitors
<1>4. {active_dialog, loaded, overlap} \subseteq BOOLEAN
  BY DEF UsageTyped, DialogTyped
<1> QED
  BY <1>1, <1>2, <1>3, <1>4 DEF UsageTypeOK, UsageTyped, DialogTyped, Elements

(***************************************************************************)
(* The bounds and the types of the reconnection.                           *)
(***************************************************************************)
StoredOK == stored \in Seq(Recent) /\ IsInjective(stored)
MenuBounded == menu \subseteq Recent /\ Cardinality(menu) <= MaxItems
TimersTyped ==
    /\ state \in BOOLEAN /\ status \in BOOLEAN /\ autoconnect \in BOOLEAN
    /\ event_source \in BOOLEAN /\ died \in BOOLEAN /\ late \in BOOLEAN
ReconnectBounded == StoredOK /\ MenuBounded /\ TimersTyped /\ Len(messages) <= MaxMessages

\* The menu has as many items as places: a later item has more of those that it shows before it.
LEMMA ItemsBounded ==
    ASSUME NEW s \in Seq(Recent), NEW homes, NEW devices
    PROVE  Items(s, homes, devices) \subseteq Recent /\ Cardinality(Items(s, homes, devices)) <= MaxItems
<1> DEFINE places == {i \in DOMAIN s : s[i] \in devices /\ HomeOf[s[i]] \in homes}
           before(j) == {k \in places : k < j}
           first == {j \in places : Cardinality(before(j)) < MaxItems}
           count == [j \in first |-> Cardinality(before(j))]
           place == [j \in first |-> s[j]]
<1>1. DOMAIN s = 1 .. Len(s) /\ Len(s) \in Nat /\ MaxItems \in Nat \ {0} /\ \A i \in DOMAIN s : s[i] \in Recent
  BY ReconnectAssumption
<1>2. IsFiniteSet(places) /\ places \subseteq Nat /\ places \subseteq DOMAIN s
  <2>1. IsFiniteSet(1 .. Len(s))
    BY <1>1, FS_Interval
  <2> QED
    BY <1>1, <2>1, FS_Subset
<1>3. Items(s, homes, devices) = {s[i] : i \in first}
  BY DEF Items
<1> HIDE DEF places
<1>4. \A j : IsFiniteSet(before(j)) /\ Cardinality(before(j)) \in Nat
  BY <1>2, FS_Subset, FS_CardinalityType
<1>5. ASSUME NEW j \in places, NEW k \in places, j < k PROVE Cardinality(before(j)) # Cardinality(before(k))
  <2>1. ~(j < j) /\ \A l \in places : l < j => l < k
    BY <1>2, <1>5
  <2>2. before(j) \in SUBSET before(k) /\ j \in before(k) /\ j \notin before(j)
    BY <1>5, <2>1
  <2>3. IsFiniteSet(before(k))
    BY <1>4
  <2> HIDE DEF before
  <2>4. before(j) # before(k)
    BY <2>2
  <2> QED
    BY <2>2, <2>3, <2>4, FS_Subset
<1>6. first \subseteq places /\ \A j \in first : Cardinality(before(j)) < MaxItems
  OBVIOUS
<1>7. (\A j \in first : count[j] = Cardinality(before(j))) /\ DOMAIN count = first /\ count \in [first -> {count[j] : j \in first}]
  OBVIOUS
<1>8. place \in Surjection(first, {s[i] : i \in first})
  BY DEF Surjection
<1> HIDE DEF before, first, count, place
<1>9. \A j \in first : count[j] \in 0 .. (MaxItems - 1)
  BY <1>1, <1>4, <1>6, <1>7
<1>10. \A j, k \in first : count[j] = count[k] => j = k
  <2> SUFFICES ASSUME NEW j \in first, NEW k \in first, count[j] = count[k], j # k PROVE FALSE
    OBVIOUS
  <2>1. j \in places /\ k \in places /\ j \in Nat /\ k \in Nat
    BY <1>2, <1>6
  <2>2. j < k \/ k < j
    BY <2>1
  <2> QED
    BY <1>5, <1>7, <2>1, <2>2
<1>11. IsFiniteSet(first) /\ Cardinality(first) <= MaxItems
  <2>1. count \in Injection(first, 0 .. (MaxItems - 1))
    BY <1>7, <1>9, <1>10 DEF Injection, IsInjective
  <2>2. IsFiniteSet(0 .. (MaxItems - 1)) /\ Cardinality(0 .. (MaxItems - 1)) = MaxItems
    BY <1>1, FS_Interval
  <2> QED
    BY <2>1, <2>2, FS_Injection
<1>12. Cardinality({s[i] : i \in first}) <= Cardinality(first) /\ IsFiniteSet({s[i] : i \in first})
  BY <1>8, <1>11, FS_Surjection
<1>13. Cardinality({s[i] : i \in first}) \in Nat /\ Cardinality(first) \in Nat
  BY <1>11, <1>12, FS_CardinalityType
<1>14. {s[i] : i \in first} \subseteq Recent
  BY <1>1, <1>2, <1>6
<1> QED
  BY <1>1, <1>3, <1>11, <1>12, <1>13, <1>14

\* A device that is connected is the first of the stored ones, once.
LEMMA NotifyStores ==
    ASSUME StoredOK, NEW d \in Recent, Notify(d)
    PROVE  StoredOK'
<1>0. stored \in Seq(Recent) /\ \A i, j \in DOMAIN stored : stored[i] = stored[j] => i = j
  BY DEF StoredOK, IsInjective
<1>1. ASSUME NEW q \in Seq(Recent), \A i, j \in DOMAIN q : q[i] = q[j] => i = j, \A i \in DOMAIN q : q[i] # d,
             stored' = <<d>> \o q
      PROVE  StoredOK'
  <2> DEFINE s == <<d>> \o q
  <2>1. /\ s \in Seq(Recent) /\ DOMAIN s = 1 .. (Len(q) + 1) /\ DOMAIN q = 1 .. Len(q) /\ Len(q) \in Nat /\ s[1] = d
        /\ \A i \in 1 .. (Len(q) + 1) : i # 1 => i - 1 \in 1 .. Len(q) /\ s[i] = q[i - 1]
    OBVIOUS
  <2>2. stored' = s
    BY <1>1
  <2> HIDE DEF s
  <2>3. ASSUME NEW i \in 1 .. (Len(q) + 1), NEW j \in 1 .. (Len(q) + 1), s[i] = s[j]
        PROVE  i = j
    <3>1. CASE i = 1 \/ j = 1
      BY <1>1, <2>1, <2>3, <3>1
    <3>2. CASE i # 1 /\ j # 1
      <4>1. i - 1 = j - 1
        BY <1>1, <2>1, <2>3, <3>2
      <4> QED
        BY <2>1, <4>1
    <3> QED
      BY <3>1, <3>2
  <2> QED
    BY <2>1, <2>2, <2>3 DEF StoredOK, IsInjective
<1>2. CASE d \notin Range(stored) /\ stored' = <<d>> \o stored
  BY <1>0, <1>1, <1>2 DEF Range
<1>3. ASSUME NEW i \in DOMAIN stored, stored[i] = d, stored' = <<d>> \o RemoveAt(stored, i) PROVE StoredOK'
  <2> DEFINE r == RemoveAt(stored, i)
             goes(k) == IF k < i THEN k ELSE k + 1
  <2>1. /\ r \in Seq(Recent)
        /\ \A k \in DOMAIN r : goes(k) \in DOMAIN stored /\ goes(k) # i /\ r[k] = stored[goes(k)]
        /\ \A k, l \in DOMAIN r : k # l => goes(k) # goes(l)
    BY <1>0, <1>3, Removing
  <2>2. \A k, l \in DOMAIN r : r[k] = r[l] => k = l
    BY <1>0, <2>1
  <2>3. \A k \in DOMAIN r : r[k] # d
    BY <1>0, <1>3, <2>1
  <2> HIDE DEF r
  <2> QED
    BY <1>1, <1>3, <2>1, <2>2, <2>3 DEF r
<1> QED
  BY <1>2, <1>3 DEF Notify, Store

LEMMA MenuBoundedStep ==
    ASSUME StoredOK, MenuBounded, [ReconnectNext]_reconnectVars
    PROVE  StoredOK' /\ MenuBounded'
<1>1. stored' = stored \/ \E d \in Recent : Notify(d)
  BY DEF ReconnectNext, reconnectVars, Run, Connect, PowerState, PoweredChanges, ObjectsChange, IntervalChanges, Stops,
     Starts, StateChanges, LoadAutoConnect, Powers, AdapterLeaves, AdapterArrives, DeviceChanges, appletState
<1>2. StoredOK'
  BY <1>1, NotifyStores DEF StoredOK
<1>3. stored' \in Seq(Recent)
  BY <1>2 DEF StoredOK
<1>4. \/ menu' = menu
      \/ menu' = {}
      \/ \E homes, devices : menu' = Items(stored', homes, devices)
  BY DEF ReconnectNext, reconnectVars, Run, Connect, PowerState, PoweredChanges, ObjectsChange, IntervalChanges, Stops,
     Starts, StateChanges, LoadAutoConnect, Powers, AdapterLeaves, AdapterArrives, DeviceChanges, appletState, Notify, Rebuild
<1>5. Cardinality({}) <= MaxItems
  BY FS_EmptySet, ReconnectAssumption
<1> QED
  BY <1>2, <1>3, <1>4, <1>5, ItemsBounded DEF MenuBounded

LEMMA TimersTypedStep ==
    ASSUME MessagesOK, TimersTyped, [ReconnectNext]_reconnectVars
    PROVE  TimersTyped'
<1>1. \A s : AnyPowered(s) \subseteq BOOLEAN
  BY DEF AnyPowered
<1>2. \/ UNCHANGED timerVars
      \/ died' \in BOOLEAN /\ UNCHANGED event_source
      \/ \E b \in BOOLEAN : StartTimer(b)
      \/ StopTimer
  <2>1. ASSUME NEW d \in Recent, Run(d) PROVE died' \in BOOLEAN /\ UNCHANGED event_source
    BY <2>1 DEF Run
  <2>2. CASE OnPowered
    BY <2>2 DEF OnPowered, TimersTyped
  <2>3. ASSUME NEW b \in BOOLEAN, StateChanges(b) \/ LoadAutoConnect(b)
        PROVE  UNCHANGED timerVars \/ StartTimer(TRUE) \/ StopTimer
    BY <2>3 DEF StateChanges, LoadAutoConnect
  <2>4. CASE PoweredChanges \/ IntervalChanges
    BY <2>2, <2>4 DEF PoweredChanges, IntervalChanges, TimersTyped
  <2>5. CASE UNCHANGED reconnectVars \/ PowerState \/ ObjectsChange \/ Stops \/ Starts
    BY <2>5 DEF reconnectVars, timerVars, PowerState, ObjectsChange, Stops, Starts, appletState
  <2>6. ASSUME NEW a \in Homes, Powers(a) \/ AdapterLeaves(a) \/ AdapterArrives(a) PROVE UNCHANGED timerVars
    BY <2>6 DEF Powers, AdapterLeaves, AdapterArrives, appletState
  <2>7. ASSUME NEW d \in Recent, Connect(d) \/ DeviceChanges(d) PROVE UNCHANGED timerVars
    BY <2>7 DEF Connect, DeviceChanges, appletState
  <2> QED
    BY <2>1, <2>3, <2>4, <2>5, <2>6, <2>7 DEF ReconnectNext
<1>3. event_source' \in BOOLEAN /\ died' \in BOOLEAN
  <2>1. event_source \in BOOLEAN /\ died \in BOOLEAN
    BY DEF TimersTyped
  <2> QED
    BY <1>1, <1>2, <2>1 DEF timerVars, StartTimer, StopTimer
<1>4. state' \in BOOLEAN /\ autoconnect' \in BOOLEAN /\ status' \in BOOLEAN
  BY DEF TimersTyped, ReconnectNext, reconnectVars, Run, Connect, PowerState, PoweredChanges, ObjectsChange,
     IntervalChanges, Stops, Starts, StateChanges, LoadAutoConnect, Powers, AdapterLeaves, AdapterArrives, DeviceChanges,
     appletState
<1>5. late' \in BOOLEAN
  BY DEF TimersTyped, ReconnectNext, reconnectVars, Run, Connect, PowerState, PoweredChanges, ObjectsChange,
     IntervalChanges, Stops, Starts, StateChanges, LoadAutoConnect, Powers, AdapterLeaves, AdapterArrives, DeviceChanges
<1> QED
  BY <1>3, <1>4, <1>5 DEF TimersTyped

\* A step of BlueZ says one to three messages.
LEMMA SaysBounded ==
    ASSUME MessagesOK, NEW a, NEW b, NEW c,
           Says(<<a>>) \/ Says(<<a, b>>) \/ Says(<<a>> \o <<b, c>>) \/ Says(<<b, c>> \o <<a>>)
    PROVE  Len(messages') <= MaxMessages
<1> DEFINE T == Messages \cup {a, b, c}
<1>1. messages \in Seq(T) /\ a \in T /\ b \in T /\ c \in T
  BY DEF MessagesOK
<1> HIDE DEF T
<1>2. <<a>> \in Seq(T) /\ <<a, b>> \in Seq(T) /\ <<b, c>> \in Seq(T)
  BY <1>1, RowsTyped
<1>3. <<a>> \o <<b, c>> \in Seq(T) /\ <<b, c>> \o <<a>> \in Seq(T)
  <2>1. \A p, q \in Seq(T) : p \o q \in Seq(T)
    OBVIOUS
  <2> QED
    BY <1>2, <2>1
<1>4. ASSUME NEW s \in Seq(T), Says(s) PROVE Len(messages') <= MaxMessages
  <2>1. Len(messages \o s) = Len(messages) + Len(s)
    BY <1>1
  <2> QED
    BY <1>4, <2>1 DEF Says
<1> QED
  BY <1>2, <1>3, <1>4

LEMMA MessagesBoundedStep ==
    ASSUME MessagesOK, Len(messages) <= MaxMessages, [ReconnectNext]_reconnectVars
    PROVE  Len(messages') <= MaxMessages
<1>0. messages \in Seq(Messages) /\ MaxMessages \in Nat /\ Len(messages) \in Nat
  BY ReconnectAssumption DEF MessagesOK
<1>1. CASE messages' = messages
  BY <1>1
<1>2. CASE \E what : Takes(what)
  <2>1. Len(messages') = Len(messages) - 1
    BY <1>0, <1>2, Taking DEF Takes
  <2> QED
    BY <1>0, <2>1
<1>3. CASE PoweredChanges \/ ObjectsChange \/ \E b \in BOOLEAN : StateChanges(b)
  BY <1>2, <1>3 DEF PoweredChanges, ObjectsChange, StateChanges
<1>4. CASE \E d \in Recent : DeviceChanges(d)
  BY <1>4, SaysBounded DEF DeviceChanges
<1>5. CASE \E a \in Homes : Powers(a) \/ AdapterLeaves(a) \/ AdapterArrives(a)
  BY <1>5, SaysBounded DEF Powers, AdapterLeaves, Gone, AdapterArrives
<1>6. CASE Stops \/ Starts
  BY <1>6, SaysBounded DEF Stops, Starts
<1>7. CASE PowerState \/ IntervalChanges \/ (\E b \in BOOLEAN : LoadAutoConnect(b))
           \/ (\E d \in Recent : Run(d) \/ Connect(d)) \/ UNCHANGED reconnectVars
  BY <1>1, <1>7 DEF PowerState, IntervalChanges, LoadAutoConnect, Run, Connect, reconnectVars
<1> QED
  BY <1>3, <1>4, <1>5, <1>6, <1>7 DEF ReconnectNext

LEMMA ReconnectBoundedInvariant == Spec => []ReconnectBounded
<1>1. Init => ReconnectBounded
  <2> SUFFICES ASSUME ReconnectInit PROVE ReconnectBounded
    BY DEF Init
  <2>1. stored = <<>> /\ menu = {} /\ MaxItems \in Nat /\ MaxMessages \in Nat \ {0}
    BY ReconnectAssumption DEF ReconnectInit
  <2>2. StoredOK
    BY <2>1 DEF StoredOK, IsInjective
  <2>3. MenuBounded
    BY <2>1, FS_EmptySet DEF MenuBounded
  <2>4. TimersTyped
    BY Zenon DEF ReconnectInit, TimersTyped
  <2>5. Len(messages) = 1
    <3>1. \A m : Len(<<m>>) = 1
      OBVIOUS
    <3> QED
      BY <3>1 DEF ReconnectInit
  <2>6. Len(messages) <= MaxMessages
    BY <2>1, <2>5
  <2> QED
    BY <2>2, <2>3, <2>4, <2>6 DEF ReconnectBounded
<1>2. ReconnectInv /\ ReconnectBounded /\ [Next]_vars => ReconnectBounded'
  BY GroupSteps, MenuBoundedStep, TimersTypedStep, MessagesBoundedStep DEF ReconnectInv, ReconnectBounded
<1> QED
  BY <1>1, <1>2, ReconnectInvariant, PTL DEF Spec

LEMMA ReconnectTypes == ReconnectInv /\ ReconnectBounded => ReconnectTypeOK
<1> SUFFICES ASSUME MessagesOK, ObjectsHeard, ReconnectBounded PROVE ReconnectTypeOK
  BY DEF ReconnectInv
<1>1. {up, state, status, autoconnect, event_source, died, late} \subseteq BOOLEAN
  BY DEF MessagesOK, ReconnectBounded, TimersTyped
<1>2. here \cup knownHomes \subseteq Homes /\ present \cup knownDevices \cup menu \subseteq Recent
  BY DEF MessagesOK, ObjectsHeard, ReconnectBounded, MenuBounded
<1>3. {stored[i] : i \in DOMAIN stored} \subseteq Recent
  BY DEF ReconnectBounded, StoredOK
<1> QED
  BY <1>1, <1>2, <1>3 DEF ReconnectTypeOK, MessagesOK, ReconnectBounded, StoredOK, MenuBounded

(***************************************************************************)
(* Networking: what is on its way to BlueZ and back.                       *)
(***************************************************************************)
NapCalls == {"Register", "Unregister"}
NapNews == {"added", "removed"}

\* The plugin thinks what it last told BlueZ, and has heard of the setting or will.
RegisteredOK ==
    /\ ~networking => _registered = "none" /\ ~enable_changed
    /\ networking /\ _registered = "yes" /\ seen => nap_enable \/ enable_changed

\* The last news tells whether the adapter is there.
NewsOK ==
    /\ news = <<>> => seen = controller
    /\ \A i \in DOMAIN news : i = Len(news) => news[i] = IF controller THEN "added" ELSE "removed"

\* The last call leaves NAP as the plugin thinks.
CallsOK ==
    /\ \A i \in DOMAIN calls : i = Len(calls) /\ calls[i] = "Register" =>
                                   networking /\ _registered = "yes"
    /\ calls = <<>> /\ nap => (networking /\ _registered = "yes") \/ kept
    /\ nap => controller

NapInv == NetworkingTypeOK /\ RegisteredOK /\ NewsOK /\ CallsOK

LEMMA LastAppended ==
    ASSUME NEW S, NEW q \in Seq(S), NEW m \in S
    PROVE  /\ Append(q, m) \in Seq(S) /\ Append(q, m) # <<>>
           /\ \A i \in DOMAIN Append(q, m) : i = Len(Append(q, m)) => Append(q, m)[i] = m
OBVIOUS

LEMMA LastOfTail ==
    ASSUME NEW S, NEW q \in Seq(S), q # <<>>
    PROVE  /\ Tail(q) \in Seq(S) /\ 1 \in DOMAIN q /\ Head(q) = q[1] /\ Head(q) \in S
           /\ \A i \in DOMAIN Tail(q) : i = Len(Tail(q)) =>
                  i + 1 \in DOMAIN q /\ i + 1 = Len(q) /\ Tail(q)[i] = q[i + 1]
           /\ Tail(q) = <<>> => Len(q) = 1
<1>1. /\ Tail(q) \in Seq(S) /\ Head(q) \in S /\ Head(q) = q[1] /\ 1 \in DOMAIN q
      /\ Len(q) \in Nat /\ DOMAIN q = 1 .. Len(q) /\ Len(Tail(q)) = Len(q) - 1
      /\ \A i \in DOMAIN Tail(q) : i + 1 \in DOMAIN q /\ Tail(q)[i] = q[i + 1]
  BY Taking
<1>2. DOMAIN Tail(q) = 1 .. Len(Tail(q)) /\ Len(<<>>) = 0
  BY <1>1
<1>3. Tail(q) = <<>> => Len(q) = 1
  BY <1>1, <1>2
<1> QED
  BY <1>1, <1>2, <1>3

\* set_nap makes the plugin think what it tells.
LEMMA NapSet ==
    ASSUME NetworkingTypeOK, CallsOK, networking', UNCHANGED <<nap, kept, controller>>, set_nap(nap_enable),
           networking \/ _registered = "none"
    PROVE  /\ calls' \in Seq(NapCalls) /\ _registered' \in {"none", "no", "yes"} /\ CallsOK'
           /\ seen' => (_registered' = "yes" <=> nap_enable)
<1>1. calls \in Seq(NapCalls) /\ nap_enable \in BOOLEAN
  BY DEF NetworkingTypeOK, NapCalls
<1>2. CASE ~seen'
  BY <1>1, <1>2 DEF set_nap, CallsOK, NetworkingTypeOK
<1>3. CASE seen' /\ (nap_enable = (_registered = "yes"))
  BY <1>1, <1>3 DEF set_nap, CallsOK
<1>4. CASE seen' /\ (nap_enable # (_registered = "yes"))
  <2> DEFINE m == IF nap_enable THEN "Register" ELSE "Unregister"
  <2>1. calls' = Append(calls, m) /\ _registered' = IF nap_enable THEN "yes" ELSE "no"
    BY <1>4 DEF set_nap
  <2>2. m \in NapCalls
    BY DEF NapCalls
  <2>3. /\ calls' \in Seq(NapCalls) /\ calls' # <<>>
        /\ \A i \in DOMAIN calls' : i = Len(calls') => calls'[i] = m
    <3> HIDE DEF m
    <3> QED
      BY <1>1, <2>1, <2>2, LastAppended
  <2> QED
    BY <1>1, <2>1, <2>3 DEF CallsOK
<1> QED
  BY <1>2, <1>3, <1>4

\* The news that is left still ends with whether the adapter is there.
LEMMA NewsTaken ==
    ASSUME NewsOK, news \in Seq(NapNews), news # <<>>, news' = Tail(news), controller' = controller,
           controller \in BOOLEAN, seen' = (Head(news) = "added")
    PROVE  NewsOK' /\ news' \in Seq(NapNews)
<1> DEFINE last == IF controller THEN "added" ELSE "removed"
<1>1. /\ news' \in Seq(NapNews) /\ 1 \in DOMAIN news /\ Head(news) = news[1]
      /\ \A i \in DOMAIN news' : i = Len(news') =>
             i + 1 \in DOMAIN news /\ i + 1 = Len(news) /\ news'[i] = news[i + 1]
      /\ news' = <<>> => Len(news) = 1
  BY LastOfTail
<1>2. \A i \in DOMAIN news : i = Len(news) => news[i] = last
  BY DEF NewsOK
<1>3. \A i \in DOMAIN news' : i = Len(news') => news'[i] = last
  BY <1>1, <1>2
<1>4. news' = <<>> => news[1] = last
  BY <1>1, <1>2
<1>5. news' = <<>> => seen' = controller
  BY <1>1, <1>4
<1> QED
  BY <1>1, <1>3, <1>5 DEF NewsOK

\* What is asked last of BlueZ still leaves NAP as the plugin thinks.
LEMMA CallsTaken ==
    ASSUME NEW r \in NapCalls, CallsOK, calls \in Seq(NapCalls), calls # <<>>, Head(calls) = r,
           calls' = Tail(calls), UNCHANGED <<networking, _registered, controller>>,
           nap' => controller, nap' /\ r = "Unregister" => kept'
    PROVE  CallsOK' /\ calls' \in Seq(NapCalls)
<1>1. /\ calls' \in Seq(NapCalls) /\ 1 \in DOMAIN calls /\ Head(calls) = calls[1]
      /\ \A i \in DOMAIN calls' : i = Len(calls') =>
             i + 1 \in DOMAIN calls /\ i + 1 = Len(calls) /\ calls'[i] = calls[i + 1]
      /\ calls' = <<>> => Len(calls) = 1
  BY LastOfTail
<1>2. \A i \in DOMAIN calls : i = Len(calls) /\ calls[i] = "Register" => networking /\ _registered = "yes"
  BY DEF CallsOK
<1>3. \A i \in DOMAIN calls' : i = Len(calls') /\ calls'[i] = "Register" =>
          networking' /\ _registered' = "yes"
  BY <1>1, <1>2
<1>4. calls' = <<>> /\ r = "Register" => networking' /\ _registered' = "yes"
  BY <1>1, <1>2
<1>5. r = "Register" \/ r = "Unregister"
  BY DEF NapCalls
<1> QED
  BY <1>1, <1>3, <1>4, <1>5 DEF CallsOK

LEMMA NapStep ==
    ASSUME NapInv, [NetworkingNext]_networkingVars
    PROVE  NapInv'
<1>0. /\ NetworkingTypeOK /\ RegisteredOK /\ NewsOK /\ CallsOK
      /\ calls \in Seq(NapCalls) /\ news \in Seq(NapNews)
  BY DEF NapInv, NetworkingTypeOK, NapCalls, NapNews
<1>1. CASE LoadNetworking
  <2>1. /\ networking' = TRUE /\ set_nap(nap_enable) /\ _registered = "none"
        /\ UNCHANGED <<seen, nap_enable, enable_changed, controller, news, nap, kept>>
    BY <1>0, <1>1 DEF LoadNetworking, RegisteredOK
  <2>2. /\ calls' \in Seq(NapCalls) /\ _registered' \in {"none", "no", "yes"} /\ CallsOK'
        /\ seen' => (_registered' = "yes" <=> nap_enable)
    BY <1>0, <2>1, NapSet
  <2> QED
    BY <1>0, <2>1, <2>2 DEF NapInv, NetworkingTypeOK, RegisteredOK, NewsOK, NapCalls
<1>2. CASE on_config_changed
  <2>1. /\ set_nap(nap_enable) /\ enable_changed' = FALSE
        /\ UNCHANGED <<seen, nap_enable, networking, controller, news, nap, kept>>
    BY <1>2 DEF on_config_changed
  <2>2. CASE networking
    <3>1. /\ calls' \in Seq(NapCalls) /\ _registered' \in {"none", "no", "yes"} /\ CallsOK'
          /\ seen' => (_registered' = "yes" <=> nap_enable)
      BY <1>0, <2>1, <2>2, NapSet
    <3> QED
      BY <1>0, <2>1, <2>2, <3>1 DEF NapInv, NetworkingTypeOK, RegisteredOK, NewsOK, NapCalls
  <2> QED
    BY <1>0, <1>2, <2>2 DEF on_config_changed, RegisteredOK
<1>3. CASE HearsAdded
  <2>1. /\ news # <<>> /\ news' = Tail(news) /\ Head(news) = "added" /\ seen' = TRUE
        /\ UNCHANGED <<nap_enable, enable_changed, networking, controller, nap, kept>>
    BY <1>3 DEF HearsAdded
  <2>2. NewsOK' /\ news' \in Seq(NapNews)
    BY <1>0, <2>1, NewsTaken DEF NetworkingTypeOK
  <2>3. CASE networking
    <3>1. /\ calls' \in Seq(NapCalls) /\ _registered' \in {"none", "no", "yes"} /\ CallsOK'
          /\ seen' => (_registered' = "yes" <=> nap_enable)
      BY <1>0, <1>3, <2>1, <2>3, NapSet DEF HearsAdded
    <3> QED
      BY <1>0, <2>1, <2>2, <2>3, <3>1 DEF NapInv, NetworkingTypeOK, RegisteredOK, NapCalls, NapNews
  <2>4. CASE ~networking
    BY <1>0, <1>3, <2>1, <2>2, <2>4 DEF HearsAdded, NapInv, NetworkingTypeOK, RegisteredOK, CallsOK, NapNews
  <2> QED
    BY <2>3, <2>4
<1>4. CASE HearsRemoved
  <2>1. /\ news # <<>> /\ news' = Tail(news) /\ Head(news) = "removed" /\ seen' = FALSE
        /\ UNCHANGED <<nap_enable, enable_changed, networking, controller, nap, kept, calls, _registered>>
    BY <1>4 DEF HearsRemoved
  <2>2. NewsOK' /\ news' \in Seq(NapNews)
    BY <1>0, <2>1, NewsTaken DEF NetworkingTypeOK
  <2> QED
    BY <1>0, <2>1, <2>2 DEF NapInv, NetworkingTypeOK, RegisteredOK, CallsOK, NapNews
<1>5. CASE ServesRegister
  <2>1. /\ calls # <<>> /\ calls' = Tail(calls) /\ Head(calls) = "Register" /\ nap' \in {controller, nap}
        /\ kept' = FALSE
        /\ UNCHANGED <<nap_enable, enable_changed, networking, controller, news, seen, _registered>>
    BY <1>5 DEF ServesRegister
  <2>2. CallsOK' /\ calls' \in Seq(NapCalls)
    <3>1. nap' => controller
      BY <1>0, <2>1 DEF CallsOK
    <3> QED
      BY <1>0, <2>1, <3>1, CallsTaken DEF NapCalls
  <2> QED
    BY <1>0, <2>1, <2>2 DEF NapInv, NetworkingTypeOK, RegisteredOK, NewsOK, NapCalls
<1>6. CASE ServesUnregister
  <2>1. /\ calls # <<>> /\ calls' = Tail(calls) /\ Head(calls) = "Unregister" /\ nap' \in {FALSE, nap}
        /\ kept' = nap'
        /\ UNCHANGED <<nap_enable, enable_changed, networking, controller, news, seen, _registered>>
    BY <1>6 DEF ServesUnregister
  <2>2. CallsOK' /\ calls' \in Seq(NapCalls)
    <3>1. nap' => controller
      BY <1>0, <2>1 DEF CallsOK
    <3> QED
      BY <1>0, <2>1, <3>1, CallsTaken DEF NapCalls
  <2> QED
    BY <1>0, <2>1, <2>2 DEF NapInv, NetworkingTypeOK, RegisteredOK, NewsOK, NapCalls
<1>7. CASE UnloadNetworking
  <2>1. /\ networking' = FALSE /\ enable_changed' = FALSE /\ _registered' = "none"
        /\ UNCHANGED <<nap_enable, controller, news, seen, nap, kept>>
    BY <1>7 DEF UnloadNetworking
  <2>2. CASE _registered = "none"
    <3>1. calls' = calls /\ _registered' # "yes"
      BY <1>7, <2>2 DEF UnloadNetworking
    <3>2. /\ \A i \in DOMAIN calls : ~(i = Len(calls) /\ calls[i] = "Register")
          /\ calls = <<>> /\ nap => kept
          /\ nap => controller
      BY <1>0, <2>2 DEF CallsOK
    <3>3. CallsOK'
      BY <2>1, <3>1, <3>2 DEF CallsOK
    <3> QED
      BY <1>0, <2>1, <3>1, <3>3 DEF NapInv, NetworkingTypeOK, RegisteredOK, NewsOK
  <2>3. CASE _registered # "none"
    <3>1. calls' = Append(calls, "Unregister") /\ "Unregister" \in NapCalls
      BY <1>7, <2>3 DEF UnloadNetworking, NapCalls
    <3>2. /\ calls' \in Seq(NapCalls) /\ calls' # <<>>
          /\ \A i \in DOMAIN calls' : i = Len(calls') => calls'[i] = "Unregister"
      BY <1>0, <3>1, LastAppended
    <3> QED
      BY <1>0, <2>1, <3>2 DEF NapInv, NetworkingTypeOK, RegisteredOK, NewsOK, CallsOK, NapCalls
  <2> QED
    BY <2>2, <2>3
<1>8. CASE ControllerChanges
  <2> DEFINE m == IF controller' THEN "added" ELSE "removed"
  <2>1. /\ news' = Append(news, m) /\ m \in NapNews /\ nap' = FALSE /\ kept' = FALSE
        /\ controller' \in BOOLEAN
        /\ UNCHANGED <<nap_enable, enable_changed, networking, seen, _registered, calls>>
    BY <1>0, <1>8 DEF ControllerChanges, NapNews, NetworkingTypeOK
  <2>2. /\ news' \in Seq(NapNews) /\ news' # <<>>
        /\ \A i \in DOMAIN news' : i = Len(news') => news'[i] = m
    <3> HIDE DEF m
    <3> QED
      BY <1>0, <2>1, LastAppended
  <2>3. NewsOK'
    BY <2>2 DEF NewsOK
  <2> QED
    BY <1>0, <2>1, <2>2, <2>3 DEF NapInv, NetworkingTypeOK, RegisteredOK, CallsOK, NapNews
<1>9. CASE EnableWritten
  BY <1>0, <1>9 DEF EnableWritten, NapInv, NetworkingTypeOK, RegisteredOK, NewsOK, CallsOK
<1>10. CASE UNCHANGED networkingVars
  BY <1>0, <1>10 DEF networkingVars, NapInv, NetworkingTypeOK, RegisteredOK, NewsOK, CallsOK
<1> QED
  BY <1>1, <1>2, <1>3, <1>4, <1>5, <1>6, <1>7, <1>8, <1>9, <1>10 DEF NetworkingNext

LEMMA NapInvariant == Spec => []NapInv
<1>1. Init => NapInv
  <2> SUFFICES ASSUME NetworkingInit PROVE NapInv
    BY DEF Init
  <2>1. calls = <<>> /\ news = <<>> /\ DOMAIN calls = {} /\ DOMAIN news = {}
    BY DEF NetworkingInit
  <2>2. NetworkingTypeOK
    <3>1. calls \in Seq(NapCalls) /\ news \in Seq(NapNews)
      BY DEF NetworkingInit
    <3> QED
      BY <3>1 DEF NetworkingInit, NetworkingTypeOK, NapCalls, NapNews
  <2> QED
    BY <2>1, <2>2 DEF NetworkingInit, NapInv, RegisteredOK, NewsOK, CallsOK
<1>2. NapInv /\ [Next]_vars => NapInv'
  BY GroupSteps, NapStep
<1> QED
  BY <1>1, <1>2, PTL DEF Spec

(* However late BlueZ gets the calls that nobody waits for, and whichever of them it refuses,
   an adapter comes or goes and the setting changes: once all is heard, NAP is served only
   while the plugin is loaded, believes so and the setting is on, but for NAP that BlueZ kept
   serving when it was told to stop (Networking.set_nap, on_unload). *)
THEOREM NapIsAlwaysKnown == Spec => []NapIsKnown
<1>1. NapInv => NapIsKnown
  BY DEF NapInv, NapIsKnown, RegisteredOK, NewsOK, CallsOK
<1> QED
  BY <1>1, NapInvariant, PTL

(***************************************************************************)
(* All of them.                                                            *)
(***************************************************************************)
(* Whatever order devices, cards, answers and the loss of the sound server's connection come
   in: the menu of an unloaded plugin stays empty, an item that the plugin knows of is in the
   menu and has a card to set, and once all is heard a connected headset with a card has its
   item and the card that is known is the one that there is (AudioProfiles,
   PulseAudioUtils).  The variables of all the plugins keep their types and bounds. *)
THEOREM ProfilesOfferedRightly == Spec => []ProfilesOffered
<1>1. /\ VisibilityInv /\ VisibilityBounded => VisibilityTypeOK
      /\ ConnectionsInv /\ ConnectionsBounded => ConnectionsTypeOK
      /\ UsageInv /\ CountersBounded /\ DialogTyped => UsageTypeOK
      /\ ReconnectInv /\ ReconnectBounded => ReconnectTypeOK
      /\ AudioInv => AudioTypeOK /\ AudioOffered
  BY VisibilityTypes, ConnectionsTypes, UsageTypes, ReconnectTypes, AudioFollows
<1>2. /\ VisibilityTypeOK /\ ConnectionsTypeOK /\ UsageTypeOK /\ ReconnectTypeOK /\ AudioTypeOK
      /\ AudioOffered
      => ProfilesOffered
  BY DEF ProfilesOffered, TypeOK
<1> QED
  BY <1>1, <1>2, VisibilityInvariant, VisibilityBoundedInvariant, ConnectionsInvariant, ConnectionsBoundedInvariant,
     TrafficInvariant, UsageBoundedInvariant, ReconnectInvariant, ReconnectBoundedInvariant, AudioInvariant, PTL
===============================================================================
