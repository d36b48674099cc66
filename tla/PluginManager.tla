---------------------------- MODULE PluginManager ----------------------------
(***************************************************************************)
(* PluginManager and PersistentPluginManager (main/PluginManager.py):      *)
(* plugins are loaded with what they depend on, unloaded with what depends *)
(* on them, and kept apart from what they conflict with, at start-up and   *)
(* whenever the "plugin-list" setting changes.                             *)
(*                                                                         *)
(* __load_plugin and unload_plugin call themselves and each other; a call  *)
(* in progress is a frame on `stack', and a step works on the top frame.   *)
(* on_property_changed calls itself through set_config, and may be called  *)
(* by the main loop that the dialog about a plugin that fails to load      *)
(* runs; its calls are on `loops'.                                         *)
(***************************************************************************)
EXTENDS Naturals, Sequences, FiniteSets

CONSTANTS
    Plugins,      \* the plugin classes (their names)
    depends,      \* __depends__
    conflicts,    \* __cfls: __conflicts__ made symmetric by load_plugin
    priority,     \* __priority__
    autoload,     \* the plugins with __autoload__
    permanent,    \* the plugins declared with __unloadable__ = False
    noUnload      \* the plugins without on_unload

\* What holds of the plugin classes of blueman: a plugin that conflicts with
\* another has no dependants and is not permanent; one without on_unload
\* (NMDUNSupport, NMPANSupport) depends on permanent plugins only and gives
\* way to none.
ASSUME PluginAssumption ==
    /\ depends \in [Plugins -> SUBSET Plugins]
    /\ conflicts \in [Plugins -> SUBSET Plugins]
    /\ \A p, q \in Plugins : q \in conflicts[p] => p \in conflicts[q]
    /\ \A p \in Plugins : p \notin conflicts[p]
    /\ \A p \in Plugins : conflicts[p] # {} =>
           \A q \in Plugins : p \notin depends[q]
    /\ priority \in [Plugins -> Nat]
    /\ autoload \subseteq Plugins
    /\ permanent \subseteq Plugins
    /\ \A p \in permanent : conflicts[p] = {}
    /\ noUnload \subseteq Plugins
    /\ \A p \in noUnload : /\ depends[p] \subseteq permanent
                           /\ \A q \in conflicts[p] : priority[p] >= priority[q]

VARIABLES
    loaded,      \* __loaded
    unloadable,  \* the plugins whose class has __unloadable__ set
    config,      \* plugin-list: what it says of each plugin
    stack,       \* calls of __load_plugin and unload_plugin in progress
    starting,    \* classes load_plugin() has still to go through
    loops,       \* on_property_changed calls: the items each has left, and the
                 \* plugin whose error dialog it waits for
    status       \* "running", or how the process ended

vars == <<loaded, unloadable, config, stack, starting, loops, status>>

\* Mutants: __deps is empty; __deps is filled the wrong way round.
noDependants(p) == {}
reversedDependants(p) == depends[p]

\* __deps: the plugins that depend on p.
dependants(p) == {q \in Plugins : p \in depends[q]}

enable_plugin(p) == config[p] = "on"
disable_plugin(p) == config[p] = "off"

\* The items of plugin-list: "p" enables, "!p" disables.
Items(cfg) == {i \in Plugins \X {"on", "off"} : cfg[i[1]] = i[2]}

-----------------------------------------------------------------------------
(* Frames *)

LoadFrame == [op : {"load"}, plugin : Plugins,
              deps : SUBSET Plugins, cfls : SUBSET Plugins]
UnloadFrame == [op : {"unload"}, plugin : Plugins,
                deps : SUBSET Plugins, cfls : {{}}]

loadFrame(p) == [op |-> "load", plugin |-> p,
                 deps |-> depends[p], cfls |-> conflicts[p]]
unloadFrame(p) == [op |-> "unload", plugin |-> p,
                   deps |-> dependants(p), cfls |-> {}]

Top == stack[Len(stack)]
Rest == SubSeq(stack, 1, Len(stack) - 1)

Return == stack' = Rest
Continue(frame) == stack' = Append(Rest, frame)
Call(frame, callee) == stack' = Append(Append(Rest, frame), callee)

\* The top frame is a call of this kind, still at work.
Running(op) == status = "running" /\ stack # << >> /\ Top.op = op

PropertyChanged(cfg) == [items |-> Items(cfg), failed |-> {}]

\* A plugin in the way: a LoadException without a cause ends every
\* __load_plugin call, and load_plugin() passes over it.
RaiseLoadException ==
    /\ stack' = << >>
    /\ UNCHANGED <<loaded, unloadable, config, starting, loops>>

\* on_load has raised, which the LoadException has as its cause: outside the
\* start-up load_plugin() asks the user to acknowledge it first.
RaiseWithCause ==
    /\ stack' = << >>
    /\ loops' = IF loops = << >> THEN loops
                ELSE [loops EXCEPT ![Len(loops)].failed = {stack[1].plugin}]
    /\ UNCHANGED <<loaded, unloadable, config, starting>>

\* An exception that nobody catches ends the start-up; later it ends the
\* innermost on_property_changed, a signal handler.
RaiseUnloadException ==
    /\ stack' = << >>
    /\ IF loops = << >>
       THEN status' = "crashed" /\ UNCHANGED loops
       ELSE loops' = SubSeq(loops, 1, Len(loops) - 1) /\ UNCHANGED status
    /\ UNCHANGED <<loaded, unloadable, config, starting>>

-----------------------------------------------------------------------------
(* __load_plugin *)

AlreadyLoaded ==
    /\ Running("load")
    /\ Top.plugin \in loaded
    /\ Return
    /\ UNCHANGED <<loaded, unloadable, config, starting, loops, status>>

\* Mutant: the dependency is looked at again and again.
LoadDependencyAgain(d) ==
    /\ Running("load")
    /\ Top.plugin \notin loaded
    /\ d \in Top.deps
    /\ IF d \in loaded THEN Continue(Top) ELSE Call(Top, loadFrame(d))
    /\ UNCHANGED <<loaded, unloadable, config, starting, loops, status>>

\* One item of __depends__ (it is not looked at again after the call).
LoadDependency(d) ==
    /\ Running("load")
    /\ Top.plugin \notin loaded
    /\ d \in Top.deps
    /\ LET frame == [Top EXCEPT !.deps = @ \ {d}]
       IN IF d \in loaded THEN Continue(frame) ELSE Call(frame, loadFrame(d))
    /\ UNCHANGED <<loaded, unloadable, config, starting, loops, status>>

\* One conflict: the plugin gives way silently, the conflicting plugin is
\* unloaded, the load fails, or there is nothing to do.
CheckConflict(c) ==
    /\ Running("load")
    /\ Top.plugin \notin loaded
    /\ Top.deps = {}
    /\ c \in Top.cfls
    /\ LET p == Top.plugin
           frame == [Top EXCEPT !.cfls = @ \ {c}]
           givesWay == /\ priority[c] > priority[p]
                       /\ ~disable_plugin(c)
                       /\ ~enable_plugin(p)
           wins == priority[p] > priority[c] /\ ~enable_plugin(c)
       IN \/ /\ givesWay
             /\ Return
             /\ UNCHANGED <<loaded, unloadable, config, starting, loops>>
          \/ /\ ~givesWay /\ c \notin loaded
             /\ Continue(frame)
             /\ UNCHANGED <<loaded, unloadable, config, starting, loops>>
          \/ /\ ~givesWay /\ c \in loaded /\ wins
             /\ Call(frame, unloadFrame(c))
             /\ UNCHANGED <<loaded, unloadable, config, starting, loops>>
          \/ /\ ~givesWay /\ c \in loaded /\ ~wins
             /\ RaiseLoadException
    /\ UNCHANGED status

\* The instance is made and on_load returns.
Instantiate ==
    /\ Running("load")
    /\ Top.plugin \notin loaded
    /\ Top.deps = {} /\ Top.cfls = {}
    /\ loaded' = loaded \cup {Top.plugin}
    /\ Return
    /\ UNCHANGED <<unloadable, config, starting, loops, status>>

\* on_load raises: blueman exits if it cannot do without the plugin.
FailToInstantiate ==
    /\ Running("load")
    /\ Top.plugin \notin loaded
    /\ Top.deps = {} /\ Top.cfls = {}
    /\ IF Top.plugin \in unloadable
       THEN RaiseWithCause /\ UNCHANGED status
       ELSE /\ status' = "exited"
            /\ UNCHANGED <<loaded, unloadable, config, stack, starting, loops>>

-----------------------------------------------------------------------------
(* unload_plugin *)

RefuseUnload ==
    /\ Running("unload")
    /\ Top.plugin \notin unloadable
    /\ RaiseUnloadException

UnloadDependant(d) ==
    /\ Running("unload")
    /\ Top.plugin \in unloadable
    /\ d \in Top.deps
    /\ Call([Top EXCEPT !.deps = @ \ {d}], unloadFrame(d))
    /\ UNCHANGED <<loaded, unloadable, config, starting, loops, status>>

FinishUnload ==
    /\ Running("unload")
    /\ Top.plugin \in unloadable
    /\ Top.deps = {}
    /\ loaded' = IF Top.plugin \in noUnload THEN loaded
                 ELSE loaded \ {Top.plugin}
    /\ Return
    /\ UNCHANGED <<unloadable, config, starting, loops, status>>

\* on_unload raises; at the start-up a plugin has nothing to clear up yet.
FailToUnload ==
    /\ Running("unload")
    /\ Top.plugin \in unloadable
    /\ Top.deps = {}
    /\ Top.plugin \in loaded \ noUnload
    /\ loops # << >>
    /\ RaiseUnloadException

-----------------------------------------------------------------------------
(* Who calls them *)

Idle == status = "running" /\ stack = << >>

\* load_plugin(): the next class of the start-up.
StartClass(p) ==
    /\ Idle
    /\ p \in starting
    /\ starting' = starting \ {p}
    /\ unloadable' = IF dependants(p) \subseteq unloadable
                     THEN unloadable ELSE unloadable \ {p}
    /\ stack' = IF (p \in autoload \/ enable_plugin(p))
                      /\ ~(p \in unloadable' /\ disable_plugin(p))
                THEN <<loadFrame(p)>> ELSE << >>
    /\ UNCHANGED <<loaded, config, loops, status>>

Loop == loops[Len(loops)]

\* The main loop of the applet, or that of an error dialog, takes events.
Ready == Idle /\ starting = {} /\ (loops # << >> => Loop.failed # {})

\* set_config, from the plugin dialog or D-Bus.
SetConfig(p, state) ==
    /\ Ready
    /\ config' = [config EXCEPT ![p] = state]
    /\ loops' = Append(loops, PropertyChanged(config'))
    /\ UNCHANGED <<loaded, unloadable, stack, starting, status>>

\* on_property_changed takes the next item of the list it was given, which
\* may no longer be what the setting says.
ConfigItem(p, state) ==
    /\ Idle
    /\ loops # << >>
    /\ Loop.failed = {}
    /\ <<p, state>> \in Loop.items
    /\ loops' = [loops EXCEPT ![Len(loops)].items = @ \ {<<p, state>>}]
    /\ stack' = IF state = "off"
                THEN IF p \in unloadable /\ p \in loaded
                     THEN <<unloadFrame(p)>> ELSE << >>
                ELSE IF p \notin loaded THEN <<loadFrame(p)>> ELSE << >>
    /\ UNCHANGED <<loaded, unloadable, config, starting, status>>

\* The user closes the innermost error dialog: the plugin is disabled, and
\* the change of the setting calls on_property_changed again.
CloseDialog(p) ==
    /\ Idle
    /\ loops # << >>
    /\ p \in Loop.failed
    /\ config' = [config EXCEPT ![p] = "off"]
    /\ loops' = Append([loops EXCEPT ![Len(loops)].failed = {}],
                       PropertyChanged(config'))
    /\ UNCHANGED <<loaded, unloadable, stack, starting, status>>

LoopEnds ==
    /\ Idle
    /\ loops # << >>
    /\ Loop = [items |-> {}, failed |-> {}]
    /\ loops' = SubSeq(loops, 1, Len(loops) - 1)
    /\ UNCHANGED <<loaded, unloadable, config, stack, starting, status>>

-----------------------------------------------------------------------------
declaredUnloadable == Plugins \ permanent

Init ==
    /\ loaded = {}
    /\ unloadable = declaredUnloadable
    /\ config \in [Plugins -> {"unset", "on", "off"}]
    /\ stack = << >>
    /\ starting = Plugins
    /\ loops = << >>
    /\ status = "running"

Work ==
    \/ AlreadyLoaded \/ Instantiate \/ FailToInstantiate
    \/ RefuseUnload \/ FinishUnload \/ FailToUnload
    \/ \E p \in Plugins : \/ LoadDependency(p) \/ CheckConflict(p)
                          \/ UnloadDependant(p)
                          \/ StartClass(p)
    \/ \E p \in Plugins, state \in {"on", "off"} : ConfigItem(p, state)
    \/ LoopEnds

Next ==
    \/ Work
    \/ \E p \in Plugins : CloseDialog(p)
    \/ \E p \in Plugins, state \in {"on", "off"} : SetConfig(p, state)

Spec == Init /\ [][Next]_vars

-----------------------------------------------------------------------------
(* Properties *)

TypeOK ==
    /\ loaded \subseteq Plugins
    /\ unloadable \subseteq Plugins
    /\ config \in [Plugins -> {"unset", "on", "off"}]
    /\ stack \in Seq(LoadFrame \cup UnloadFrame)
    /\ starting \subseteq Plugins
    /\ loops \in Seq([items : SUBSET (Plugins \X {"on", "off"}),
                       failed : SUBSET Plugins])
    /\ status \in {"running", "exited", "crashed"}

\* Plugins use each other through Plugins.Menu, Plugins.PowerManager and so
\* on without asking: nothing is ever loaded without all it depends on, not
\* even half-way through a recursive load or unload.
DependencyClosed == \A p \in loaded : depends[p] \subseteq loaded

\* Two plugins that conflict (NMPANSupport and DhcpClient bring up the same
\* interface) are never loaded together.
NoConflict == \A p, q \in loaded : q \notin conflicts[p]

\* Both hold at every step of the nested loads, unloads and setting changes.
LoadedAreConsistent == DependencyClosed /\ NoConflict

\* A permanent plugin, once loaded, stays.
PermanentStays == [][permanent \cap loaded \subseteq loaded']_vars

\* No PluginUnloadException escapes from the start-up.
StartupSurvives == status # "crashed"

\* Recursive loading and unloading, and the property changes they cause, come
\* to an end: the applet takes events again, if only for an error dialog.
Settles == status = "running" ~> (status # "running" \/ Ready)
=============================================================================
