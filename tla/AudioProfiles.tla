----------------------------- MODULE AudioProfiles -----------------------------
(***************************************************************************)
(* The plugin AudioProfiles of blueman-applet, which offers the profiles   *)
(* of the sound card of each connected headset, and PulseAudioUtils, its   *)
(* connection to PulseAudio.                                               *)
(*                                                                         *)
(* A headset and its card come and go in two services that tell of it      *)
(* apart, and PulseAudio answers what it is asked later, in order.  When   *)
(* it goes, what is on its way is lost and nobody is called back.          *)
(***************************************************************************)
EXTENDS Sequences, Integers, FiniteSets, Functions

CONSTANTS
    Headsets,       \* devices with an audio service
    MaxCards,       \* bound: cards that a headset has had
    MaxLines,       \* bound: items by which PulseAudio fails no more
    MaxSignals      \* bound: signals on their way by which there are no new ones

ASSUME AudioAssumption ==
    IsFiniteSet(Headsets) /\ {MaxCards, MaxLines, MaxSignals} \subseteq Nat \ {0}

VARIABLES
    attached,       \* the headsets that BlueZ has connected
    signals,        \* what BlueZ has told: "changed", or "state" of its name
    cards, card,    \* the headsets that have a card in PulseAudio, and what the last one is
    context,        \* pa_context: "connecting", "ready" or "failed"
    reconnecting,   \* _reconnect_source_id is not None
    subscribed,     \* PulseAudio sends events
    requests, events,
    audio,          \* _active
    _devices,       \* the card of each headset, NoCard where it is not known
    _device_menus,  \* the number of the item of each headset that has one
    lines,          \* the items of the plugin in the applet's menu, by number
    unheard,        \* history: the headsets whose card changed when nothing was subscribed
    cleared         \* history: the menu has been cleared, and not been filled since

pulseVars == <<cards, card, context, reconnecting, subscribed, requests, events, unheard>>
menuVars == <<_devices, _device_menus, lines, cleared>>
audioVars == <<attached, signals, pulseVars, audio, menuVars>>

Nothing == <<>>
NoCard == [index |-> 0, profile |-> FALSE]
AboutCard(kind, d, c) == [kind |-> kind, devs |-> {d}, card |-> c]
Subscribe == [kind |-> "subscribe", devs |-> {}, card |-> NoCard]
Busy == Len(signals) + Len(requests) + Len(events) >= MaxSignals

AudioInit ==
    /\ attached \in SUBSET Headsets /\ signals = <<"state">>
    /\ cards \in SUBSET attached
    /\ card = [d \in Headsets |-> IF d \in cards THEN [index |-> 1, profile |-> FALSE] ELSE NoCard]
    /\ context = "connecting" /\ reconnecting = FALSE /\ subscribed = FALSE
    /\ requests = <<>> /\ events = <<>>
    /\ audio = TRUE /\ _devices = [d \in Headsets |-> NoCard]
    /\ _device_menus = Nothing /\ lines = Nothing
    /\ unheard = {} /\ cleared = FALSE

(***************************************************************************)
(* The menu.                                                               *)
(***************************************************************************)
\* Mutant: as many items, not one after the last.
CountedLine(menus) == Cardinality(DOMAIN menus)

\* The number of the next item.
NextLine(menus) ==
    IF DOMAIN menus = {} THEN 0
    ELSE 1 + CHOOSE n \in {menus[d] : d \in DOMAIN menus} : \A d \in DOMAIN menus : menus[d] <= n

Over(f, g) == [x \in DOMAIN f \cup DOMAIN g |-> IF x \in DOMAIN f THEN f[x] ELSE g[x]]

\* add_device_profile_menu, for the devices of a sequence, on top of given items
Add(s, menus, rows) ==
    LET n == NextLine(menus)
    IN  /\ _device_menus' = Over([d \in Range(s) |-> n - 1 + CHOOSE i \in DOMAIN s : s[i] = d], menus)
        /\ lines' = Over([i \in n .. n + Len(s) - 1 |-> s[i - n + 1]], rows)

\* The orders in which devices may be listed
Listings(S) == Bijection(1 .. Cardinality(S), S)

\* generate_menu, in the order in which the devices are listed: the known ones are added to
\* the menu, the others asked for.
Generate(menus, rows, known, subscribe) ==
    /\ cleared' = FALSE
    /\ \E s \in Listings({d \in attached : known[d] # NoCard}) : Add(s, menus, rows)
    /\ \E new \in Listings({d \in attached : known[d] = NoCard}) :
         requests' = requests \o [i \in DOMAIN new |-> AboutCard("list", new[i], NoCard)]
                              \o subscribe

\* clear_menu, then generate_menu, which does nothing without PulseAudio
Regenerate(known) ==
    IF context = "ready" THEN Generate(Nothing, Nothing, known, <<>>)
    ELSE /\ _device_menus' = Nothing /\ lines' = Nothing
         /\ UNCHANGED <<requests, cleared>>

clear_menu == _device_menus' = Nothing /\ lines' = Nothing /\ cleared' = TRUE

\* on_device_property_changed, on_adapter_added and on_adapter_removed;
\* on_manager_state_changed only clears.
MenuHears ==
    /\ signals # <<>> /\ signals' = Tail(signals)
    /\ UNCHANGED <<attached, audio, _devices, cards, card, context, reconnecting, subscribed,
                   events, unheard>>
    /\ CASE ~audio -> UNCHANGED <<requests, _device_menus, lines, cleared>>
         [] audio /\ Head(signals) = "changed" -> Regenerate(_devices)
         [] audio /\ Head(signals) = "state" -> clear_menu /\ UNCHANGED requests

\* The user picks a profile.
on_activate_profile(d) ==
    /\ audio /\ \E i \in DOMAIN lines : lines[i] = d
    /\ context = "ready" /\ ~Busy
    /\ requests' = Append(requests, AboutCard("set", d, _devices[d]))
    /\ UNCHANGED <<attached, signals, audio, cards, card, context, reconnecting, subscribed,
                   events, unheard>>
    /\ UNCHANGED menuVars

on_unload ==
    /\ audio /\ audio' = FALSE
    /\ clear_menu /\ _devices' = [d \in Headsets |-> NoCard]
    /\ UNCHANGED <<attached, signals>> /\ UNCHANGED pulseVars

\* Bound: once the answers to the plugin that was unloaded are in, which it ignores.
on_load ==
    /\ ~audio /\ audio' = TRUE /\ cleared' = TRUE
    /\ \A q \in {requests, events} : \A i \in DOMAIN q : q[i].kind \in {"subscribe", "event"}
    /\ UNCHANGED <<attached, signals, _devices, _device_menus, lines>> /\ UNCHANGED pulseVars

(***************************************************************************)
(* What PulseAudio says.                                                   *)
(***************************************************************************)
Hear(kind) == events # <<>> /\ Head(events).kind = kind /\ events' = Tail(events)
Known(m) == [d \in Headsets |-> IF d \in m.devs THEN m.card ELSE _devices[d]]
Heard(m) == unheard' = {d \in unheard : d \notin m.devs \/ m.card # card[d]}
pulseRest == <<attached, signals, audio, cards, card, context, reconnecting, subscribed>>

\* on_pa_event, of a card that is new or has changed; of one removed it only says so.
on_pa_event ==
    /\ Hear("event")
    /\ requests' = IF audio THEN Append(requests, [Head(events) EXCEPT !.kind = "get"]) ELSE requests
    /\ UNCHANGED unheard /\ UNCHANGED pulseRest /\ UNCHANGED menuVars

\* list_cb
ListFor(m) ==
    IF ~audio THEN UNCHANGED <<_devices, _device_menus, lines, unheard>>
    ELSE /\ _devices' = Known(m) /\ Heard(m)
         /\ \E d \in m.devs : Add(<<d>>, _device_menus, lines)

Listed ==
    /\ Hear("listed")
    /\ IF Head(events).card = NoCard THEN UNCHANGED <<_devices, _device_menus, lines, unheard>>
       ELSE ListFor(Head(events))
    /\ UNCHANGED <<requests, cleared>> /\ UNCHANGED pulseRest

\* get_card_cb
Got ==
    /\ Hear("got")
    /\ IF ~audio THEN UNCHANGED <<requests, unheard>> /\ UNCHANGED menuVars
       ELSE /\ _devices' = Known(Head(events)) /\ Heard(Head(events))
            /\ Regenerate(_devices')
    /\ UNCHANGED pulseRest

(***************************************************************************)
(* The connection: pa_context_event.                                       *)
(***************************************************************************)
\* on_pa_ready adds to the menu as it is.
Ready ==
    /\ context = "connecting" /\ context' = "ready" /\ reconnecting' = FALSE
    /\ IF audio THEN Generate(_device_menus, lines, _devices, <<Subscribe>>)
       ELSE requests' = <<Subscribe>> /\ UNCHANGED <<_device_menus, lines, cleared>>
    /\ UNCHANGED <<attached, signals, audio, _devices, cards, card, subscribed, events, unheard>>

\* FAILED.  Only a connection that was ready is tried again.
Fails ==
    /\ context \in {"connecting", "ready"} /\ Cardinality(DOMAIN lines) < MaxLines
    /\ context' = "failed" /\ subscribed' = FALSE
    /\ reconnecting' = (reconnecting \/ context = "ready")
    /\ requests' = <<>> /\ events' = <<>> /\ cards' = {}
    /\ UNCHANGED <<attached, signals, card, audio, unheard>> /\ UNCHANGED menuVars

\* connect_pulseaudio, five seconds later
Reconnects ==
    /\ reconnecting /\ reconnecting' = FALSE
    /\ context' = IF context = "ready" THEN context ELSE "connecting"
    /\ UNCHANGED <<attached, signals, audio, cards, card, subscribed, requests, events, unheard>>
    /\ UNCHANGED menuVars

(***************************************************************************)
(* PulseAudio and BlueZ.                                                   *)
(***************************************************************************)
CardBecomes(d, c) ==
    /\ card' = [card EXCEPT ![d] = c]
    /\ IF subscribed
       THEN events' = Append(events, AboutCard("event", d, c)) /\ UNCHANGED unheard
       ELSE /\ unheard' = IF context = "ready" \/ _devices[d] # NoCard
                          THEN unheard \cup {d} ELSE unheard
            /\ UNCHANGED events
serviceRest == <<attached, signals, context, reconnecting, subscribed, audio>>

CardComes(d) ==
    /\ ~Busy /\ d \in attached \ cards /\ card[d].index < MaxCards
    /\ cards' = cards \cup {d}
    /\ CardBecomes(d, [index |-> card[d].index + 1, profile |-> FALSE])
    /\ UNCHANGED requests /\ UNCHANGED serviceRest /\ UNCHANGED menuVars

\* Bound: the profile of a card changes once.
CardChanges(d) ==
    /\ ~Busy /\ d \in cards /\ ~card[d].profile /\ UNCHANGED cards
    /\ CardBecomes(d, [card[d] EXCEPT !.profile = TRUE])
    /\ UNCHANGED requests /\ UNCHANGED serviceRest /\ UNCHANGED menuVars

CardGoes(d) ==
    /\ d \in cards \ attached /\ cards' = cards \ {d}
    /\ UNCHANGED <<card, requests, events, unheard>> /\ UNCHANGED serviceRest /\ UNCHANGED menuVars

\* A card is listed as it is, got by its number if it is still there, and set likewise.
Handles ==
    /\ requests # <<>> /\ requests' = Tail(requests) /\ UNCHANGED cards
    /\ LET q == Head(requests)
           there == {d \in q.devs \cap cards : q.card.index \in {NoCard.index, card[d].index}}
           Reply(kind) == /\ events' = events \o
                               (IF there = {} /\ kind = "got" THEN <<>>
                                ELSE <<[q EXCEPT !.kind = kind,
                                          !.card = IF there = {} THEN NoCard
                                                   ELSE card[CHOOSE d \in there : TRUE]]>>)
                          /\ UNCHANGED <<card, unheard>>
       IN  \/ q.kind = "list" /\ Reply("listed") /\ UNCHANGED subscribed
           \/ q.kind = "get" /\ Reply("got") /\ UNCHANGED subscribed
           \/ /\ q.kind = "subscribe" /\ subscribed' = TRUE
              /\ UNCHANGED <<events, card, unheard>>
           \/ /\ q.kind = "set" /\ UNCHANGED subscribed
              /\ \/ \E d \in there : CardBecomes(d, [card[d] EXCEPT !.profile = TRUE])
                 \/ UNCHANGED <<events, card, unheard>>
    /\ UNCHANGED <<attached, signals, context, reconnecting, audio>> /\ UNCHANGED menuVars

Attaches(d) ==
    /\ ~Busy /\ signals' = Append(signals, "changed")
    /\ attached' = (attached \cup {d}) \ (attached \cap {d})
    /\ UNCHANGED audio /\ UNCHANGED pulseVars /\ UNCHANGED menuVars

AudioNext ==
    \/ MenuHears \/ on_unload \/ on_load \/ on_pa_event \/ Listed \/ Got
    \/ Ready \/ Fails \/ Reconnects \/ Handles
    \/ \E d \in Headsets : \/ on_activate_profile(d) \/ Attaches(d)
                           \/ CardComes(d) \/ CardChanges(d) \/ CardGoes(d)

-------------------------------------------------------------------------------
AudioTypeOK ==
    /\ attached \cup cards \cup unheard \cup DOMAIN _device_menus \subseteq Headsets
    /\ {card, _devices} \subseteq [Headsets -> [index : 0 .. MaxCards, profile : BOOLEAN]]
    /\ {reconnecting, subscribed, audio, cleared} \subseteq BOOLEAN
    /\ context \in {"connecting", "ready", "failed"} /\ Len(signals) <= MaxSignals
    /\ {lines[i] : i \in DOMAIN lines} \subseteq Headsets

(* The menu of an unloaded plugin stays empty, whatever answers are still to come; an item
   that the plugin knows of is in the menu and has a card to set.  Once all is heard, a
   connected headset with a card has its item, and the card that is known is the one that
   PulseAudio has, whatever order devices, cards, answers and the loss of the connection
   came in (AudioProfiles, PulseAudioUtils).  Not so for a card that changed before the
   connection was subscribed, nor after a manager state or a load, which show nothing until
   the next change. *)
AudioOffered ==
    /\ ~audio => lines = Nothing
    /\ \A d \in DOMAIN _device_menus :
         /\ _devices[d] # NoCard
         /\ _device_menus[d] \in DOMAIN lines /\ lines[_device_menus[d]] = d
    /\ audio /\ context = "ready" /\ <<signals, requests, events>> = <<<<>>, <<>>, <<>>>> =>
         \A d \in cards \ unheard :
           /\ _devices[d] \in {NoCard, card[d]}
           /\ d \in attached /\ ~cleared => d \in DOMAIN _device_menus
===============================================================================
