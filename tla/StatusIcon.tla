----------------------------- MODULE StatusIcon -----------------------------
(***************************************************************************)
(* When the tray icon is shown: query_visibility and its timer in the      *)
(* StatusIcon plugin (plugins/applet/StatusIcon.py).  Who asks, and        *)
(* whether something keeps the icon, is for the module that extends this.  *)
(***************************************************************************)
EXTENDS Naturals

VARIABLES
    shown,     \* the plugin is loaded
    visible,
    timeout,   \* visibility_timeout holds a source
    sources    \* timers of the plugin that GLib still runs

iconVars == <<shown, visible, timeout, sources>>

\* A timer that will ask again is already running.
Waiting == timeout
\* An adapter, or a StatusIconVisibilityHandler, keeps the icon.
Shows(keep) == keep

\* query_visibility(delay_hiding)
QueryVisibility(keep, delay) ==
    /\ UNCHANGED shown
    /\ \/ /\ Shows(keep)
          /\ visible' = TRUE
          /\ UNCHANGED <<timeout, sources>>
       \/ /\ ~Shows(keep) /\ Waiting
          /\ UNCHANGED <<visible, timeout, sources>>
       \/ /\ ~Shows(keep) /\ ~Waiting /\ delay
          /\ timeout' = TRUE
          /\ sources' = sources + 1
          /\ UNCHANGED visible
       \/ /\ ~Shows(keep) /\ ~Waiting /\ ~delay
          /\ visible' = FALSE
          /\ UNCHANGED <<timeout, sources>>

QueryIfShown(keep, delay) ==
    IF shown THEN QueryVisibility(keep, delay) ELSE UNCHANGED iconVars

\* Mutant: the timeout forgets to ask.
TimeoutOnly(keep) ==
    /\ sources > 0 /\ timeout' = FALSE /\ sources' = sources - 1
    /\ UNCHANGED <<shown, visible>>

\* on_visibility_timeout, which asserts that visibility_timeout is set.
OnVisibilityTimeout(keep) ==
    /\ sources > 0
    /\ timeout' = FALSE
    /\ sources' = sources - 1
    /\ visible' = keep
    /\ UNCHANGED shown

LoadIcon(keep) ==
    /\ ~shown /\ shown' = TRUE /\ visible' = keep
    /\ UNCHANGED <<timeout, sources>>

UnloadIcon ==
    /\ shown /\ shown' = FALSE
    /\ timeout' = FALSE
    /\ sources' = IF timeout THEN sources - 1 ELSE sources
    /\ UNCHANGED visible

IconInit ==
    /\ shown = FALSE /\ visible = FALSE /\ timeout = FALSE /\ sources = 0

\* One timer at most runs, and only while visibility_timeout is set: the
\* assertion of on_visibility_timeout always holds.
OneTimer == sources = IF timeout THEN 1 ELSE 0
=============================================================================
