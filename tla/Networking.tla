------------------------------ MODULE Networking ------------------------------
(***************************************************************************)
(* plugins/applet/Networking.py as far as it has BlueZ serve NAP on the    *)
(* adapter (of which there is one at most) when the setting nap-enable is  *)
(* on.  Register and Unregister are calls nobody waits for: BlueZ gets     *)
(* them later, one after the other, and may answer with an error that is   *)
(* only logged (bluez/NetworkServer.py).  The setting is written by        *)
(* blueman-services.                                                       *)
(***************************************************************************)
EXTENDS Naturals, Sequences, SequencesExt

CONSTANT MaxCalls      \* bound: calls on their way to BlueZ, and news on its way to the applet

ASSUME NetworkingAssumption == MaxCalls \in Nat

VARIABLES
    nap_enable,        \* the setting
    enable_changed,    \* the plugin has not heard yet that it was written
    networking,        \* the plugin is loaded
    controller,        \* BlueZ has the adapter
    news,              \* what it has told of it: "added", "removed"
    seen,              \* the applet's manager_state, and its Manager has the adapter
    _registered,       \* of the adapter: "none", "no" or "yes"
    calls,             \* "Register", "Unregister" on their way
    nap,               \* BlueZ serves NAP on it
    kept               \* history: it did not stop to when it was told to

networkingVars == <<nap_enable, enable_changed, networking, controller, news, seen,
                    _registered, calls, nap, kept>>

NetworkingInit ==
    /\ nap_enable \in BOOLEAN /\ enable_changed = FALSE /\ networking = FALSE
    /\ controller = TRUE /\ news = <<>> /\ seen = TRUE
    /\ _registered = "none" /\ calls = <<>> /\ nap = FALSE /\ kept = FALSE

set_nap(on) ==
    IF ~seen' THEN UNCHANGED <<_registered, calls>> ELSE
    /\ _registered' = IF on THEN "yes" ELSE "no"
    /\ calls' = IF on = (_registered = "yes") THEN calls
                ELSE Append(calls, IF on THEN "Register" ELSE "Unregister")

\* on_load, and on_manager_state_changed after it
LoadNetworking ==
    /\ ~networking /\ networking' = TRUE
    /\ UNCHANGED seen /\ set_nap(nap_enable)
    /\ UNCHANGED <<nap_enable, enable_changed, controller, news, nap, kept>>

\* Mutant: only what _registered has as False is unregistered.
UnloadUnregistered ==
    /\ networking /\ networking' = FALSE /\ enable_changed' = FALSE
    /\ _registered' = "none"
    /\ calls' = IF _registered = "no" THEN Append(calls, "Unregister") ELSE calls
    /\ UNCHANGED <<nap_enable, controller, news, seen, nap, kept>>

\* on_unload, for all of _registered
UnloadNetworking ==
    /\ networking /\ networking' = FALSE /\ enable_changed' = FALSE
    /\ _registered' = "none"
    /\ calls' = IF _registered = "none" THEN calls ELSE Append(calls, "Unregister")
    /\ UNCHANGED <<nap_enable, controller, news, seen, nap, kept>>

\* blueman-services writes the setting.
EnableWritten ==
    /\ nap_enable' = ~nap_enable /\ enable_changed' = networking
    /\ UNCHANGED <<networking, controller, news, seen, _registered, calls, nap, kept>>

on_config_changed ==
    /\ enable_changed /\ enable_changed' = FALSE
    /\ UNCHANGED seen /\ set_nap(nap_enable)
    /\ UNCHANGED <<nap_enable, networking, controller, news, nap, kept>>

\* on_adapter_added, or on_manager_state_changed when bluetoothd starts; an adapter that was
\* known is still thought to be registered.
HearsAdded ==
    /\ news # <<>> /\ Head(news) = "added" /\ news' = Tail(news)
    /\ seen' = TRUE
    /\ IF networking THEN set_nap(nap_enable) ELSE UNCHANGED <<_registered, calls>>
    /\ UNCHANGED <<nap_enable, enable_changed, networking, controller, nap, kept>>

HearsRemoved ==
    /\ news # <<>> /\ Head(news) = "removed" /\ news' = Tail(news)
    /\ seen' = FALSE
    /\ UNCHANGED <<nap_enable, enable_changed, networking, controller, _registered, calls,
                   nap, kept>>

\* BlueZ gets a call, which may fail.
ServesRegister ==
    /\ calls # <<>> /\ Head(calls) = "Register" /\ calls' = Tail(calls)
    /\ \/ nap' = controller
       \/ UNCHANGED nap
    /\ kept' = FALSE
    /\ UNCHANGED <<nap_enable, enable_changed, networking, controller, news, seen, _registered>>

ServesUnregister ==
    /\ calls # <<>> /\ Head(calls) = "Unregister" /\ calls' = Tail(calls)
    /\ \/ nap' = FALSE
       \/ UNCHANGED nap
    /\ kept' = nap'
    /\ UNCHANGED <<nap_enable, enable_changed, networking, controller, news, seen, _registered>>

\* The adapter comes, or goes and NAP with it.
ControllerChanges ==
    /\ controller' = ~controller
    /\ news' = Append(news, IF controller' THEN "added" ELSE "removed")
    /\ nap' = FALSE /\ kept' = FALSE
    /\ UNCHANGED <<nap_enable, enable_changed, networking, seen, _registered, calls>>

NetworkingNext ==
    /\ \/ LoadNetworking \/ UnloadNetworking \/ EnableWritten \/ on_config_changed
       \/ HearsAdded \/ HearsRemoved \/ ServesRegister \/ ServesUnregister \/ ControllerChanges
    /\ Len(calls') <= MaxCalls /\ Len(news') <= MaxCalls      \* bound

-------------------------------------------------------------------------------
(* The types of the variables. *)
NetworkingTypeOK ==
    /\ {nap_enable, enable_changed, networking, controller, seen, nap, kept} \subseteq BOOLEAN
    /\ news \in Seq({"added", "removed"}) /\ calls \in Seq({"Register", "Unregister"})
    /\ _registered \in {"none", "no", "yes"}

(* When nothing is on its way, BlueZ serves NAP only while Networking is loaded, believes
   so, which lets it stop BlueZ again, and the setting is on; but for NAP that BlueZ did not
   stop to serve when it was told to, as nobody hears of (Networking.set_nap, on_unload). *)
NapIsKnown ==
    /\ NetworkingTypeOK
    /\ calls = <<>> /\ news = <<>> /\ ~enable_changed /\ nap =>
        (networking /\ _registered = "yes" /\ nap_enable) \/ kept
===============================================================================
