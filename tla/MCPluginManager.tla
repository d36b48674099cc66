--------------------------- MODULE MCPluginManager ---------------------------
(***************************************************************************)
(* A table of plugins with every relation of the classes under             *)
(* plugins/applet, in one place: there StandardItems is permanent and      *)
(* depends on Menu, KillSwitch depends on PowerManager, and NMDUNSupport   *)
(* (priority 1, without on_unload) conflicts with PPPSupport, both over    *)
(* DBusService, which is permanent.  Here they are the permanent Item over *)
(* Mid over Base, of which Base and Mid are not permanent themselves:      *)
(* whether Base can be unloaded is found out when the classes are gone     *)
(* through, or when unloading comes to Mid; and New and Old over Item, Old *)
(* also over Bus.                                                          *)
(***************************************************************************)
EXTENDS PluginManager

TablePlugins == {"Base", "Mid", "Item", "Bus", "Old", "New"}

TableDepends ==
    [p \in TablePlugins |->
        CASE p \in {"Base", "Bus"} -> {}
          [] p = "Mid" -> {"Base"}
          [] p = "Item" -> {"Mid"}
          [] p = "Old" -> {"Bus", "Item"}
          [] p = "New" -> {"Item"}]

TableConflicts ==
    [p \in TablePlugins |->
        CASE p = "Old" -> {"New"}
          [] p = "New" -> {"Old"}
          [] OTHER -> {}]

TablePriority == [p \in TablePlugins |-> IF p = "New" THEN 1 ELSE 0]

TablePermanent == {"Item"}

TableNoUnload == {"New"}

\* Bounds: at the start the setting is about the plugins that conflict only,
\* and Mid and Item, which cannot be unloaded, are disabled only because they
\* fail to load; while an error dialog is on the screen, the setting changes
\* only for New and only if the dialog is about Old, and only one deep.
Touched == IF loops = << >> THEN TablePlugins \ {"Mid", "Item"}
           ELSE IF Loop.failed = {"Old"} THEN {"New"} ELSE {}
Depth == 2
TableInit == Init /\ \A p \in TablePlugins \ {"Old", "New"} : config[p] = "unset"
TableNext ==
    \/ Work
    \/ \E p \in TablePlugins : CloseDialog(p)
    \/ \E p \in Touched, state \in {"on", "off"} :
           Len(loops) < Depth /\ SetConfig(p, state)

\* Python runs a call it has begun.
TableSpec == TableInit /\ [][TableNext]_vars /\ WF_vars(Work)
=============================================================================
