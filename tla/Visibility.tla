------------------------------ MODULE Visibility ------------------------------
(***************************************************************************)
(* Who sees the adapter: the plugin DiscvManager of blueman-applet with    *)
(* its menu item and countdown, and the tab of blueman-adapters            *)
(* (main/Adapter.py).  Each process sends BlueZ its assignments to         *)
(* properties, which nobody waits for, and hears later what has changed;   *)
(* but it reads a property from BlueZ itself, after what it has sent.      *)
(***************************************************************************)
EXTENDS Sequences, Integers

CONSTANTS
    Minutes,        \* the timeout that the tab proposes, in ticks of the countdown
    MaxHeard        \* bound: messages of BlueZ that a process has not handled, but those on its own sets

ASSUME VisibilityAssumption == Minutes \in Nat \ {0} /\ MaxHeard \in Nat \ {0, 1}

VARIABLES
    adapter,        \* org.bluez.Adapter1: [there, Powered, Discoverable, DiscoverableTimeout]
    sets,           \* per process, the assignments <<property, value>> on their way
    heard,          \* what BlueZ has told the applet: <<property, value>>, <<"there", b>>
    hidings,        \* how often it has told the tab that Discoverable is off
    known,          \* DiscvManager.adapter is not None
    item,           \* its menu item: [visible, sensitive]
    time_left,      \* bound: not below -2
    timeout,        \* there is a timer that the plugin knows of
    leaked,         \* there is a timer that it has forgotten
    radio,          \* the tab's active radio button; "none": the window is closed
    scale           \* the value of its scale

visibilityVars == <<adapter, sets, heard, hidings, known, item, time_left, timeout, leaked, radio, scale>>
pluginVars == <<known, item, time_left, timeout, leaked>>

Option == 1         \* the option "time", the shortest that there is
Timeouts == {0, Option, Minutes}
Set(who, s) == sets' = [sets EXCEPT ![who] = @ \o s]
Hide == <<<<"DiscoverableTimeout", 0>>, <<"Discoverable", FALSE>>>>
Show == <<<<"DiscoverableTimeout", 0>>, <<"Discoverable", TRUE>>>>

VisibilityInit ==
    /\ adapter = [there |-> TRUE, Powered |-> FALSE, Discoverable |-> FALSE, DiscoverableTimeout |-> 0]
    /\ sets = [who \in {"applet", "tab"} |-> <<>>]
    /\ heard = <<<<"there", TRUE>>>> /\ hidings = 0
    /\ known = FALSE /\ item = [visible |-> FALSE, sensitive |-> TRUE]
    /\ time_left = -1 /\ timeout = FALSE /\ leaked = FALSE
    /\ radio = "none" /\ scale = 0

(***************************************************************************)
(* DiscvManager.                                                           *)
(***************************************************************************)
Offered == adapter.Powered /\ (adapter.Discoverable => adapter.DiscoverableTimeout > 0)

\* Mutant: without an adapter the item stays.
UpdateItemOfAdapter(some) ==
    \E offered \in IF ~some THEN {item.visible} ELSE IF adapter.there THEN {Offered} ELSE BOOLEAN :
        item' = IF offered THEN [visible |-> TRUE, sensitive |-> TRUE]
                ELSE [item EXCEPT !.visible = FALSE]

\* update_menuitems, for an adapter or None.  Of one that BlueZ no longer has, the last
\* values are read.
UpdateItem(some) ==
    \E offered \in IF ~some THEN {FALSE} ELSE IF adapter.there THEN {Offered} ELSE BOOLEAN :
        item' = IF offered THEN [visible |-> TRUE, sensitive |-> TRUE]
                ELSE [item EXCEPT !.visible = FALSE]

StopCountdown == time_left' = -1 /\ timeout' = FALSE

\* on_adapter_property_changed, for DiscoverableTimeout # 0: the old timer is removed
\* unless the countdown is over, and the item is not updated.
StartCountdown(seconds) ==
    /\ leaked' = (leaked \/ (timeout /\ time_left <= -1))
    /\ time_left' = seconds /\ timeout' = TRUE
    /\ UNCHANGED item

\* on_adapter_property_changed, on_adapter_added, on_adapter_removed, on_manager_state_changed
Hears ==
    /\ heard # <<>> /\ heard' = Tail(heard) /\ sets["applet"] = <<>>
    /\ LET property == Head(heard)[1]
           value == Head(heard)[2]
           off == IF property = "DiscoverableTimeout" THEN value = 0 ELSE ~value
       IN  \/ /\ property = "there"
              /\ known' = value /\ UpdateItem(value)
              /\ UNCHANGED <<time_left, timeout, leaked>>
           \/ /\ property # "there" /\ ~known
              /\ UNCHANGED pluginVars
           \/ /\ property # "there" /\ known /\ off
              /\ StopCountdown /\ UpdateItem(TRUE)
              /\ UNCHANGED <<known, leaked>>
           \/ /\ property = "DiscoverableTimeout" /\ known /\ ~off
              /\ StartCountdown(value) /\ UNCHANGED known
           \/ /\ property \in {"Discoverable", "Powered"} /\ known /\ ~off
              /\ UpdateItem(TRUE) /\ UNCHANGED <<known, time_left, timeout, leaked>>
    /\ UNCHANGED <<adapter, sets, hidings, radio, scale>>

\* on_update, every second, of any timer
on_update ==
    /\ timeout \/ leaked
    /\ item' = [item EXCEPT !.sensitive = FALSE]
    /\ time_left' = IF time_left = -2 THEN -2 ELSE time_left - 1
    /\ UNCHANGED <<adapter, sets, heard, hidings, known, timeout, leaked, radio, scale>>

\* The user clicks the item.
on_set_discoverable ==
    /\ item.visible /\ item.sensitive /\ sets["applet"] = <<>>
    /\ Set("applet", IF known THEN <<<<"Discoverable", TRUE>>, <<"DiscoverableTimeout", Option>>>> ELSE <<>>)
    /\ UNCHANGED <<adapter, heard, hidings, radio, scale>> /\ UNCHANGED pluginVars

(***************************************************************************)
(* blueman-adapters.  Its window shows the tab while the adapter is there. *)
(***************************************************************************)
tabRest == <<adapter, heard, known, item, time_left, timeout, leaked>>

\* build_adapter_tab
OpenWindow ==
    /\ radio = "none" /\ adapter.there /\ adapter.Powered
    /\ hidings' = 0
    /\ radio' = IF ~adapter.Discoverable THEN "hidden"
                ELSE IF adapter.DiscoverableTimeout > 0 THEN "temporary" ELSE "always"
    /\ scale' = IF radio' = "temporary" THEN adapter.DiscoverableTimeout ELSE 0
    /\ \/ radio' # "temporary" /\ UNCHANGED sets
       \/ radio' = "temporary" /\ Set("tab", <<<<"DiscoverableTimeout", scale'>>>>)
    /\ UNCHANGED tabRest

CloseWindow ==
    /\ radio # "none" /\ sets["tab"] = <<>>
    /\ radio' = "none" /\ scale' = 0 /\ hidings' = 0
    /\ UNCHANGED sets /\ UNCHANGED tabRest

\* on_hidden_toggle, on_always_toggle, on_temporary_toggle with on_scale_value_changed: the
\* timeout is sent when the value of the scale changes.
Toggle(r) ==
    /\ radio' = r
    /\ scale' = IF r = "temporary" THEN Minutes ELSE scale
    /\ Set("tab", CASE r = "hidden" -> Hide
                    [] r = "always" -> Show
                    [] r = "temporary" -> <<<<"Discoverable", TRUE>>>> \o
                         IF scale = scale' THEN <<>> ELSE <<<<"DiscoverableTimeout", Minutes>>>>)

PickRadio(r) ==
    /\ radio \notin {"none", r} /\ adapter.there /\ sets["tab"] = <<>>
    /\ Toggle(r)
    /\ UNCHANGED hidings /\ UNCHANGED tabRest

\* on_scale_value_changed: at zero the adapter is always visible, if it is visible.
MoveScale(v) ==
    /\ radio = "temporary" /\ adapter.there /\ v # scale /\ sets["tab"] = <<>>
    /\ scale' = v
    /\ IF v = 0 /\ adapter.Discoverable
       THEN radio' = "always" /\ Set("tab", Show \o <<<<"DiscoverableTimeout", 0>>>>)
       ELSE UNCHANGED radio /\ Set("tab", <<<<"DiscoverableTimeout", v>>>>)
    /\ UNCHANGED hidings /\ UNCHANGED tabRest

\* on_property_changed
TabHears ==
    /\ hidings > 0 /\ hidings' = hidings - 1
    /\ IF radio = "hidden" THEN UNCHANGED <<radio, scale, sets>> ELSE Toggle("hidden")
    /\ UNCHANGED tabRest

(***************************************************************************)
(* BlueZ.                                                                  *)
(***************************************************************************)
Room(n) == Len(heard) + n <= MaxHeard /\ hidings < MaxHeard
bluezRest == <<known, item, time_left, timeout, leaked, scale>>

Becomes(property, value) ==
    /\ adapter' = [adapter EXCEPT ![property] = value]
    /\ heard' = Append(heard, <<property, value>>)
    /\ hidings' = IF property = "Discoverable" /\ ~value /\ radio # "none" THEN hidings + 1 ELSE hidings

HandleSet(who) ==
    /\ who = "tab" => Room(1)
    /\ sets[who] # <<>> /\ sets' = [sets EXCEPT ![who] = Tail(@)]
    /\ LET property == Head(sets[who])[1]
           value == Head(sets[who])[2]
       IN  IF /\ adapter.there /\ adapter[property] # value
              /\ property = "Discoverable" => adapter.Powered
           THEN Becomes(property, value)
           ELSE UNCHANGED <<adapter, heard, hidings>>
    /\ UNCHANGED radio /\ UNCHANGED bluezRest

\* BlueZ's own timeout
Expire ==
    /\ adapter.there /\ adapter.Discoverable /\ adapter.DiscoverableTimeout > 0
    /\ Room(1) /\ Becomes("Discoverable", FALSE)
    /\ UNCHANGED <<sets, radio>> /\ UNCHANGED bluezRest

PowerOn ==
    /\ adapter.there /\ ~adapter.Powered
    /\ Room(1) /\ Becomes("Powered", TRUE)
    /\ UNCHANGED <<sets, radio>> /\ UNCHANGED bluezRest

PowerOff ==
    /\ adapter.there /\ adapter.Powered /\ Room(2)
    /\ adapter' = [adapter EXCEPT !.Powered = FALSE, !.Discoverable = FALSE]
    /\ LET off == IF adapter.Discoverable THEN <<<<"Discoverable", FALSE>>>> ELSE <<>>
       IN  heard' = heard \o off \o <<<<"Powered", FALSE>>>>
    /\ hidings' = IF adapter.Discoverable /\ radio # "none" THEN hidings + 1 ELSE hidings
    /\ UNCHANGED <<sets, radio>> /\ UNCHANGED bluezRest

\* The adapter goes, or BlueZ with it: then the window closes.
AdapterGoes(all) ==
    /\ adapter.there /\ Room(1)
    /\ adapter' = [adapter EXCEPT !.there = FALSE, !.Powered = FALSE, !.Discoverable = FALSE]
    /\ heard' = Append(heard, <<"there", FALSE>>)
    /\ IF all THEN radio' = "none" /\ hidings' = 0 /\ scale' = 0 /\ sets' = [sets EXCEPT !["tab"] = <<>>]
       ELSE UNCHANGED <<radio, hidings, scale, sets>>
    /\ UNCHANGED pluginVars

AdapterComes ==
    /\ ~adapter.there /\ Room(1)
    /\ \E P \in BOOLEAN : adapter' = [adapter EXCEPT !.there = TRUE, !.Powered = P]
    /\ heard' = Append(heard, <<"there", TRUE>>)
    /\ UNCHANGED <<sets, hidings, radio>> /\ UNCHANGED bluezRest

VisibilityNext ==
    \/ Hears \/ on_update \/ on_set_discoverable
    \/ OpenWindow \/ CloseWindow \/ TabHears
    \/ \E r \in {"hidden", "always", "temporary"} : PickRadio(r)
    \/ \E v \in Timeouts : MoveScale(v)
    \/ \E who \in {"applet", "tab"} : HandleSet(who)
    \/ Expire \/ PowerOn \/ PowerOff \/ AdapterComes
    \/ \E all \in BOOLEAN : AdapterGoes(all)

VisibilityTypeOK ==
    /\ adapter \in [there : BOOLEAN, Powered : BOOLEAN, Discoverable : BOOLEAN,
                    DiscoverableTimeout : Timeouts]
    /\ Len(sets["applet"]) <= 2 /\ Len(sets["tab"]) <= 5
    /\ Len(heard) <= MaxHeard + 2 /\ hidings \in 0 .. MaxHeard
    /\ {known, timeout, leaked, item.visible, item.sensitive} \subseteq BOOLEAN
    /\ time_left \in -2 .. Minutes
    /\ radio \in {"none", "hidden", "always", "temporary"} /\ scale \in Timeouts

Quiet == heard = <<>> /\ hidings = 0 /\ \A who \in DOMAIN sets : sets[who] = <<>>

(* Once BlueZ and both processes have heard each other, "Make Discoverable" is offered only
   for an adapter that is there and powered and that is not visible for ever already
   (DiscvManager.update_menuitems). *)
ItemOffered == item.visible /\ Quiet => known /\ adapter.there /\ Offered

(* "Temporarily visible" (data/ui/adapters-tab.ui): an adapter that is visible while the
   tab says so is not visible for ever. *)
TemporaryEnds == radio = "temporary" /\ adapter.Discoverable /\ Quiet => adapter.DiscoverableTimeout > 0
===============================================================================
