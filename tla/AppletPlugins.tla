----------------------------- MODULE AppletPlugins -----------------------------
(***************************************************************************)
(* The plugins of blueman-applet that follow BlueZ.  They are optional and *)
(* share nothing but BlueZ, so that a behaviour shows one group of them    *)
(* at work and leaves the others where they start.                         *)
(***************************************************************************)
EXTENDS Visibility, Connections, NetUsage, Reconnect, AudioProfiles, Networking

VARIABLE group

vars == <<group, visibilityVars, connectionVars, usageVars, reconnectVars, audioVars,
          networkingVars>>

Init ==
    /\ group \in {"visibility", "connections", "usage", "reconnect", "audio", "networking"}
    /\ VisibilityInit /\ UsageInit /\ ReconnectInit
    /\ ConnectionsInit /\ (group # "connections" => linked = {})
    /\ AudioInit /\ (group # "audio" => attached = {})
    /\ NetworkingInit /\ (group # "networking" => nap_enable = FALSE)

Others(g) ==
    /\ g # "visibility" => UNCHANGED visibilityVars
    /\ g # "connections" => UNCHANGED connectionVars
    /\ g # "usage" => UNCHANGED usageVars
    /\ g # "reconnect" => UNCHANGED reconnectVars
    /\ g # "audio" => UNCHANGED audioVars
    /\ g # "networking" => UNCHANGED networkingVars

Next ==
    /\ UNCHANGED group /\ Others(group)
    /\ \/ group = "visibility" /\ VisibilityNext
       \/ group = "connections" /\ ConnectionsNext
       \/ group = "usage" /\ UsageNext
       \/ group = "reconnect" /\ ReconnectNext
       \/ group = "audio" /\ AudioNext
       \/ group = "networking" /\ NetworkingNext

Spec == Init /\ [][Next]_vars

-------------------------------------------------------------------------------
(* The types of the variables. *)
TypeOK == VisibilityTypeOK /\ ConnectionsTypeOK /\ UsageTypeOK /\ ReconnectTypeOK /\ AudioTypeOK

(* The variables keep their types, and the menu of audio profiles, which two services and
   the applet's own menu have to agree on, is as AudioOffered says. *)
ProfilesOffered == TypeOK /\ AudioOffered
===============================================================================
