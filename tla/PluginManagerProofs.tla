------------------------ MODULE PluginManagerProofs ------------------------
(***************************************************************************)
(* Proofs about PluginManager, for any plugin classes that keep            *)
(* PluginAssumption: dependencies may even be circular.                    *)
(*                                                                         *)
(* The invariant describes the stack of calls: loads at the bottom, then   *)
(* unloads; what a frame has done is done or is being done by the frame    *)
(* above it.                                                               *)
(*                                                                         *)
(* And about one of the plugins, AuthAgent with the pairing agent it       *)
(* makes, for any requests, devices and messages on their way.             *)
(***************************************************************************)
EXTENDS PluginManager, BluezAgent, SequenceTheorems, TLAPS

Frame == LoadFrame \cup UnloadFrame

\* Frame i waits for the one above, which does op to q.
Working(s, i, op, q) ==
    i < Len(s) /\ s[i + 1].op = op /\ s[i + 1].plugin = q

\* A load stands on loads only.  Its dependencies are looked at before its
\* conflicts; those it has looked at are loaded and unloaded, respectively.
LoadOK(s, L, i) ==
    /\ \A j \in 1..i : s[j].op = "load"
    /\ s[i].deps \subseteq depends[s[i].plugin]
    /\ s[i].cfls \subseteq conflicts[s[i].plugin]
    /\ s[i].cfls # conflicts[s[i].plugin] => s[i].deps = {}
    /\ \A d \in depends[s[i].plugin] \ s[i].deps :
           d \in L \/ Working(s, i, "load", d)
    /\ \A c \in conflicts[s[i].plugin] \ s[i].cfls :
           c \notin L \/ Working(s, i, "unload", c)
    /\ i < Len(s) /\ s[i + 1].op = "load" =>
           /\ s[i + 1].plugin \in depends[s[i].plugin]
           /\ s[i].cfls = conflicts[s[i].plugin]

\* A load only has a conflicting plugin unloaded; a plugin without on_unload
\* is unloaded for its own sake only.
UnloadOK(s, L, i) ==
    /\ i > 1 => s[i].plugin \notin noUnload
    /\ s[1].op = "load" => conflicts[s[i].plugin] # {}
    /\ s[i].deps \subseteq dependants(s[i].plugin)
    /\ \A d \in dependants(s[i].plugin) \ s[i].deps :
           d \notin L \/ Working(s, i, "unload", d)

StackOK(s, L) ==
    \A i \in 1..Len(s) : /\ s[i].op = "load" => LoadOK(s, L, i)
                         /\ s[i].op = "unload" => UnloadOK(s, L, i)

\* Only the start-up loads with no on_property_changed below, and what it
\* has unloaded are plugins with conflicts, which all are unloadable.
StartupOK ==
    /\ stack # << >> /\ stack[1].op = "unload" => loops # << >>
    /\ \A p \in Plugins : conflicts[p] # {} => p \in unloadable
    /\ permanent \cap unloadable = {}

Safe ==
    /\ TypeOK
    /\ DependencyClosed
    /\ NoConflict
    /\ StackOK(stack, loaded)
    /\ StartupOK
    /\ StartupSurvives

-----------------------------------------------------------------------------
(* The stack as a sequence *)

\* Return: the frames below the top stay as they are.
LEMMA RestFacts ==
    ASSUME NEW s \in Seq(Frame), s # << >>
    PROVE  /\ SubSeq(s, 1, Len(s) - 1) \in Seq(Frame)
           /\ Len(SubSeq(s, 1, Len(s) - 1)) = Len(s) - 1
           /\ \A i \in 1..(Len(s) - 1) : SubSeq(s, 1, Len(s) - 1)[i] = s[i]
           /\ Len(s) \in Nat \ {0}
           /\ s[Len(s)] \in Frame
<1>1. Len(s) \in Nat \ {0}
  BY EmptySeq, LenProperties
<1>2. \A i \in 1..Len(s) : s[i] \in Frame
  BY ElementOfSeq
<1>3. \A i \in 1..(Len(s) - 1) : s[i] \in Frame
  BY <1>1, <1>2
<1>4. PICK n \in Nat : n = Len(s) - 1
  BY <1>1
<1>5. /\ SubSeq(s, 1, n) \in Seq(Frame)
      /\ Len(SubSeq(s, 1, n)) = IF 1 <= n THEN n - 1 + 1 ELSE 0
      /\ \A i \in 1..(n - 1 + 1) : SubSeq(s, 1, n)[i] = s[1 + i - 1]
  <2>1. \A i \in 1..n : s[i] \in Frame
    BY <1>3, <1>4
  <2> QED
    BY <2>1, SubSeqProperties
<1>6. /\ Len(SubSeq(s, 1, n)) = n
      /\ \A i \in 1..n : SubSeq(s, 1, n)[i] = s[i]
  BY <1>5
<1> QED
  BY <1>1, <1>2, <1>4, <1>5, <1>6

\* Continue: the top is replaced.
LEMMA ContinueFacts ==
    ASSUME NEW s \in Seq(Frame), s # << >>, NEW f \in Frame, NEW t,
           t = Append(SubSeq(s, 1, Len(s) - 1), f)
    PROVE  /\ t \in Seq(Frame)
           /\ Len(t) = Len(s)
           /\ \A i \in 1..(Len(s) - 1) : t[i] = s[i]
           /\ t[Len(s)] = f
<1> DEFINE r == SubSeq(s, 1, Len(s) - 1)
<1>1. /\ r \in Seq(Frame) /\ Len(r) = Len(s) - 1
      /\ \A i \in 1..(Len(s) - 1) : r[i] = s[i]
      /\ Len(s) \in Nat \ {0}
  BY RestFacts
<1>2. t = Append(r, f)
  OBVIOUS
<1> HIDE DEF r
<1>3. /\ Append(r, f) \in Seq(Frame)
      /\ Len(Append(r, f)) = Len(r) + 1
      /\ \A i \in 1..Len(r) : Append(r, f)[i] = r[i]
      /\ Append(r, f)[Len(r) + 1] = f
  BY <1>1, AppendProperties
<1> QED
  BY <1>1, <1>2, <1>3

\* Call: the top is replaced and another frame put over it.
LEMMA CallFacts ==
    ASSUME NEW s \in Seq(Frame), s # << >>,
           NEW f \in Frame, NEW g \in Frame, NEW t,
           t = Append(Append(SubSeq(s, 1, Len(s) - 1), f), g)
    PROVE  /\ t \in Seq(Frame)
           /\ Len(t) = Len(s) + 1
           /\ \A i \in 1..(Len(s) - 1) : t[i] = s[i]
           /\ t[Len(s)] = f
           /\ t[Len(s) + 1] = g
<1> DEFINE r == SubSeq(s, 1, Len(s) - 1)
           u == Append(r, f)
<1>1. /\ r \in Seq(Frame) /\ Len(r) = Len(s) - 1
      /\ \A i \in 1..(Len(s) - 1) : r[i] = s[i]
      /\ Len(s) \in Nat \ {0}
  BY RestFacts
<1>2. t = Append(u, g)
  OBVIOUS
<1> HIDE DEF r
<1>3. /\ u \in Seq(Frame) /\ Len(u) = Len(r) + 1 /\ u[Len(r) + 1] = f
      /\ \A i \in 1..Len(r) : u[i] = r[i]
  BY <1>1, AppendProperties
<1> HIDE DEF u
<1>4. /\ Append(u, g) \in Seq(Frame)
      /\ Len(Append(u, g)) = Len(u) + 1
      /\ \A i \in 1..Len(u) : Append(u, g)[i] = u[i]
      /\ Append(u, g)[Len(u) + 1] = g
  BY <1>3, AppendProperties
<1> QED
  BY <1>1, <1>2, <1>3, <1>4

\* The top of a call in progress is a frame; so is the bottom.
LEMMA TopFrame ==
    ASSUME TypeOK, stack # << >>
    PROVE  /\ Top \in Frame /\ stack[1] \in Frame
           /\ Top.plugin \in Plugins /\ stack[1].plugin \in Plugins
           /\ Top.deps \subseteq Plugins /\ Top.cfls \subseteq Plugins
           /\ Top.op = "load" => Top \in LoadFrame
           /\ Top.op = "unload" => Top \in UnloadFrame
<1>1. stack \in Seq(Frame)
  BY DEF TypeOK, Frame
<1>2. Len(stack) \in Nat \ {0}
  BY <1>1, RestFacts
<1>3. Top \in Frame /\ stack[1] \in Frame
  BY <1>1, <1>2, ElementOfSeq DEF Top
<1> QED
  BY <1>3 DEF Frame, LoadFrame, UnloadFrame

\* A new call starts with a frame.
LEMMA NewFrames ==
    ASSUME NEW p \in Plugins
    PROVE  /\ loadFrame(p) \in LoadFrame /\ loadFrame(p) \in Frame
           /\ unloadFrame(p) \in UnloadFrame /\ unloadFrame(p) \in Frame
BY PluginAssumption DEF loadFrame, unloadFrame, LoadFrame, UnloadFrame,
                        Frame, dependants

\* What is left of a frame is a frame.
LEMMA SmallerFrames ==
    ASSUME NEW f \in Frame, NEW x
    PROVE  /\ [f EXCEPT !.deps = @ \ {x}] \in Frame
           /\ f.op = "load" => [f EXCEPT !.cfls = @ \ {x}] \in Frame
BY DEF Frame, LoadFrame, UnloadFrame

\* The stack after Continue and after Call.
LEMMA ContinueStack ==
    ASSUME TypeOK, stack # << >>, NEW f \in Frame, Continue(f)
    PROVE  /\ Len(stack') = Len(stack) /\ stack'[Len(stack)] = f
           /\ \A j \in 1..(Len(stack) - 1) : stack'[j] = stack[j]
BY RestFacts, ContinueFacts DEF TypeOK, Frame, Continue, Rest

LEMMA CallStack ==
    ASSUME TypeOK, stack # << >>, NEW f \in Frame, NEW g \in Frame, Call(f, g)
    PROVE  /\ Len(stack') = Len(stack) + 1
           /\ stack'[Len(stack)] = f /\ stack'[Len(stack) + 1] = g
           /\ \A j \in 1..(Len(stack) - 1) : stack'[j] = stack[j]
BY RestFacts, CallFacts DEF TypeOK, Frame, Call, Rest

LoopItems == [items : SUBSET (Plugins \X {"on", "off"}),
              failed : SUBSET Plugins]

\* The innermost on_property_changed.
LEMMA LoopFacts ==
    ASSUME TypeOK, loops # << >>
    PROVE  /\ loops \in Seq(LoopItems)
           /\ Len(loops) \in Nat \ {0} /\ Len(loops) \in 1..Len(loops)
           /\ Loop \in LoopItems
           /\ SubSeq(loops, 1, Len(loops) - 1) \in Seq(LoopItems)
<1>1. loops \in Seq(LoopItems)
  BY DEF TypeOK, LoopItems
<1>2. Len(loops) \in Nat \ {0}
  BY <1>1, EmptySeq
<1>3. \A i \in 1..Len(loops) : loops[i] \in LoopItems
  BY <1>1, ElementOfSeq
<1>4. SubSeq(loops, 1, Len(loops) - 1) \in Seq(LoopItems)
  BY <1>2, <1>3, SubSeqProperties
<1> QED
  BY <1>1, <1>2, <1>3, <1>4 DEF Loop

\* A change of the setting is an element of loops.
LEMMA ChangeType ==
    ASSUME NEW cfg PROVE PropertyChanged(cfg) \in LoopItems
BY DEF PropertyChanged, Items, LoopItems

\* Exceptions leave a well typed state.
LEMMA RaiseType ==
    ASSUME TypeOK, stack # << >>,
           \/ RaiseLoadException /\ status' = status
           \/ RaiseWithCause /\ status' = status
           \/ RaiseUnloadException
    PROVE  TypeOK'
<1>1. stack' \in Seq(Frame)
  BY EmptySeq DEF RaiseLoadException, RaiseWithCause, RaiseUnloadException
<1>2. UNCHANGED <<loaded, unloadable, config, starting>>
  BY DEF RaiseLoadException, RaiseWithCause, RaiseUnloadException
<1>3. loops' \in Seq(LoopItems)
  <2>1. CASE loops' = loops
    BY <2>1 DEF TypeOK, LoopItems
  <2>2. CASE RaiseWithCause /\ loops # << >>
    <3> DEFINE l == [Loop EXCEPT !.failed = {stack[1].plugin}]
    <3>1. l \in LoopItems
      BY <2>2, LoopFacts, TopFrame DEF LoopItems
    <3>2. loops' = [loops EXCEPT ![Len(loops)] = l]
      BY <2>2 DEF RaiseWithCause, Loop
    <3> QED
      BY <2>2, <3>1, <3>2, LoopFacts, ExceptSeq
  <2>3. CASE RaiseUnloadException /\ loops # << >>
    BY <2>3, LoopFacts DEF RaiseUnloadException
  <2> QED
    BY <2>1, <2>2, <2>3
       DEF RaiseLoadException, RaiseWithCause, RaiseUnloadException
<1>4. status' \in {"running", "exited", "crashed"}
  BY DEF RaiseUnloadException, TypeOK
<1> QED
  BY <1>1, <1>2, <1>3, <1>4 DEF TypeOK, Frame, LoopItems

\* Every step keeps every variable in its type.
LEMMA TypeStep == TypeOK /\ [Next]_vars => TypeOK'
<1> SUFFICES ASSUME TypeOK, [Next]_vars PROVE TypeOK'
  OBVIOUS
<1> USE DEF Frame
<1>0. stack \in Seq(Frame) /\ loops \in Seq(LoopItems)
  BY DEF TypeOK, LoopItems
<1>1. ASSUME stack # << >>, Return,
             UNCHANGED <<unloadable, config, starting, loops, status>>,
             loaded' \subseteq Plugins
      PROVE  TypeOK'
  BY <1>0, <1>1, RestFacts DEF TypeOK, Return, Rest
<1>2. ASSUME stack # << >>, NEW f \in Frame, Continue(f),
             UNCHANGED <<loaded, unloadable, config, starting, loops, status>>
      PROVE  TypeOK'
  BY <1>0, <1>2, ContinueFacts DEF TypeOK, Continue, Rest
<1>3. ASSUME stack # << >>, NEW f \in Frame, NEW g \in Frame, Call(f, g),
             UNCHANGED <<loaded, unloadable, config, starting, loops, status>>
      PROVE  TypeOK'
  BY <1>0, <1>3, CallFacts DEF TypeOK, Call, Rest
<1>4. CASE AlreadyLoaded
  BY <1>1, <1>4 DEF AlreadyLoaded, Running, TypeOK
<1>5. CASE Instantiate
  BY <1>1, <1>5, TopFrame DEF Instantiate, Running, TypeOK
<1>6. CASE FailToInstantiate
  <2>1. stack # << >>
    BY <1>6 DEF FailToInstantiate, Running
  <2>2. CASE RaiseWithCause /\ UNCHANGED status
    BY <2>1, <2>2, RaiseType
  <2>3. CASE /\ status' = "exited"
             /\ UNCHANGED <<loaded, unloadable, config, stack, starting, loops>>
    BY <2>3 DEF TypeOK
  <2> QED
    BY <1>6, <2>2, <2>3 DEF FailToInstantiate
<1>7. CASE RefuseUnload \/ FailToUnload
  BY <1>7, RaiseType DEF RefuseUnload, FailToUnload, Running
<1>8. CASE FinishUnload
  BY <1>1, <1>8 DEF FinishUnload, Running, TypeOK
<1>9. ASSUME NEW d \in Plugins, LoadDependency(d) PROVE TypeOK'
  <2> DEFINE f == [Top EXCEPT !.deps = @ \ {d}]
  <2>1. stack # << >> /\ f \in Frame /\ loadFrame(d) \in Frame
    BY <1>9, TopFrame, SmallerFrames, NewFrames DEF LoadDependency, Running
  <2> QED
    BY <1>2, <1>3, <1>9, <2>1 DEF LoadDependency
<1>10. ASSUME NEW c \in Plugins, CheckConflict(c) PROVE TypeOK'
  <2> DEFINE f == [Top EXCEPT !.cfls = @ \ {c}]
  <2>1. stack # << >> /\ f \in Frame /\ unloadFrame(c) \in Frame
    BY <1>10, TopFrame, SmallerFrames, NewFrames DEF CheckConflict, Running
  <2>2. status' = status
    BY <1>10 DEF CheckConflict
  <2>3. CASE RaiseLoadException
    BY <2>1, <2>2, <2>3, RaiseType
  <2>4. CASE /\ Return \/ Continue(f) \/ Call(f, unloadFrame(c))
             /\ UNCHANGED <<loaded, unloadable, config, starting, loops>>
    <3>1. loaded' \subseteq Plugins
      BY <2>4 DEF TypeOK
    <3> QED
      BY <1>1, <1>2, <1>3, <2>1, <2>2, <2>4, <3>1
  <2> QED
    BY <1>10, <2>3, <2>4 DEF CheckConflict
<1>11. ASSUME NEW d \in Plugins, UnloadDependant(d) PROVE TypeOK'
  <2> DEFINE f == [Top EXCEPT !.deps = @ \ {d}]
  <2>1. stack # << >> /\ f \in Frame /\ unloadFrame(d) \in Frame
    BY <1>11, TopFrame, SmallerFrames, NewFrames DEF UnloadDependant, Running
  <2> QED
    BY <1>3, <1>11, <2>1 DEF UnloadDependant
<1>12. ASSUME NEW f \in Frame PROVE <<f>> \in Seq(Frame)
  OBVIOUS
<1>13. << >> \in Seq(Frame)
  BY EmptySeq
<1>14. ASSUME NEW p \in Plugins, StartClass(p) PROVE TypeOK'
  <2>1. stack' \in Seq(Frame)
    BY <1>12, <1>13, <1>14, NewFrames DEF StartClass
  <2> QED
    BY <1>14, <2>1 DEF StartClass, TypeOK
<1>15. ASSUME NEW p \in Plugins, NEW state \in {"on", "off"},
              SetConfig(p, state)
       PROVE  TypeOK'
  <2>1. config' \in [Plugins -> {"unset", "on", "off"}]
    BY <1>15 DEF SetConfig, TypeOK
  <2>3. loops' = Append(loops, PropertyChanged(config'))
    BY <1>15 DEF SetConfig
  <2>2. loops' \in Seq(LoopItems)
    BY <1>0, <2>3, ChangeType, AppendProperties
  <2> QED
    BY <1>15, <2>1, <2>2 DEF SetConfig, TypeOK, LoopItems
<1>16. ASSUME NEW p \in Plugins, NEW state \in {"on", "off"},
              ConfigItem(p, state)
       PROVE  TypeOK'
  <2>1. stack' \in Seq(Frame)
    BY <1>12, <1>13, <1>16, NewFrames DEF ConfigItem
  <2> DEFINE l == [Loop EXCEPT !.items = @ \ {<<p, state>>}]
  <2>2. l \in LoopItems
    BY <1>16, LoopFacts DEF ConfigItem, LoopItems
  <2>3. loops' = [loops EXCEPT ![Len(loops)] = l]
    BY <1>16 DEF ConfigItem, Loop
  <2>4. loops # << >>
    BY <1>16 DEF ConfigItem
  <2> HIDE DEF l
  <2>5. loops' \in Seq(LoopItems)
    BY <2>2, <2>3, <2>4, LoopFacts, ExceptSeq
  <2> QED
    BY <1>16, <2>1, <2>5 DEF ConfigItem, TypeOK, LoopItems
<1>17. CASE LoopEnds
  BY <1>17, LoopFacts DEF LoopEnds, TypeOK, LoopItems
<1>19. ASSUME NEW p \in Plugins, CloseDialog(p) PROVE TypeOK'
  <2> DEFINE l == [Loop EXCEPT !.failed = {}]
             m == [loops EXCEPT ![Len(loops)] = l]
  <2>1. config' \in [Plugins -> {"unset", "on", "off"}]
    BY <1>19 DEF CloseDialog, TypeOK
  <2>2. l \in LoopItems
    BY <1>19, LoopFacts DEF CloseDialog, LoopItems
  <2>3. m \in Seq(LoopItems)
    BY <1>19, <2>2, LoopFacts, ExceptSeq DEF CloseDialog
  <2>4. loops' = Append(m, PropertyChanged(config'))
    BY <1>19 DEF CloseDialog, Loop
  <2>5. loops' \in Seq(LoopItems)
    BY <2>3, <2>4, ChangeType, AppendProperties
  <2> QED
    BY <1>19, <2>1, <2>5 DEF CloseDialog, TypeOK, LoopItems
<1>18. CASE UNCHANGED vars
  BY <1>18 DEF vars, TypeOK
<1> QED
  BY <1>4, <1>5, <1>6, <1>7, <1>8, <1>9, <1>10, <1>11, <1>14, <1>15, <1>16,
     <1>17, <1>18, <1>19 DEF Next, Work

\* The initial state is well typed.
LEMMA InitType == Init => TypeOK
<1> SUFFICES ASSUME Init PROVE TypeOK
  OBVIOUS
<1>1. stack \in Seq(Frame) /\ loops \in Seq(LoopItems)
  BY EmptySeq DEF Init
<1> QED
  BY <1>1 DEF Init, TypeOK, declaredUnloadable, Frame, LoopItems

-----------------------------------------------------------------------------
(* Each way a step changes the stack keeps StackOK.  A stack of one frame,  *)
(* or none, is easy.                                                       *)

\* A call begins with nothing done.
LEMMA FreshCall ==
    ASSUME NEW p \in Plugins, NEW L
    PROVE  StackOK(<<loadFrame(p)>>, L) /\ StackOK(<<unloadFrame(p)>>, L)
BY DEF StackOK, LoadOK, UnloadOK, loadFrame, unloadFrame

\* A load is done: its plugin is loaded.
LEMMA LoadReturns ==
    ASSUME TypeOK, StackOK(stack, loaded), stack # << >>, Top.op = "load",
           Return, loaded' = loaded \cup {Top.plugin}
    PROVE  StackOK(stack', loaded')
<1>0. /\ Len(stack) \in Nat \ {0} /\ Len(stack') = Len(stack) - 1
      /\ \A i \in 1..(Len(stack) - 1) : stack'[i] = stack[i]
  BY RestFacts DEF TypeOK, Frame, Return, Rest
<1> SUFFICES ASSUME NEW i \in 1..(Len(stack) - 1)
             PROVE  LoadOK(stack', loaded', i) /\ stack'[i].op = "load"
  BY <1>0 DEF StackOK
<1>1. LoadOK(stack, loaded, Len(stack))
  BY <1>0 DEF StackOK, Top
<1>2. LoadOK(stack, loaded, i) /\ stack[i].op = "load"
  BY <1>0, <1>1 DEF StackOK, LoadOK
<1>3. stack'[i] = stack[i]
  BY <1>0
<1>4. stack[i + 1].op = "load"
  BY <1>0, <1>1 DEF LoadOK
<1>5. \A d \in depends[stack[i].plugin] \ stack[i].deps :
          d \in loaded' \/ Working(stack', i, "load", d)
  BY <1>0, <1>2 DEF LoadOK, Working, Top
<1>6. conflicts[stack[i].plugin] \ stack[i].cfls = {}
  BY <1>0, <1>2, <1>4 DEF LoadOK
<1>7. i < Len(stack') /\ stack'[i + 1].op = "load" =>
          /\ stack'[i + 1].plugin \in depends[stack'[i].plugin]
          /\ stack'[i].cfls = conflicts[stack'[i].plugin]
  BY <1>0, <1>2, <1>3 DEF LoadOK
<1>8. \A j \in 1..i : stack'[j].op = "load"
  BY <1>0, <1>2 DEF LoadOK
<1> QED
  BY <1>2, <1>3, <1>5, <1>6, <1>7, <1>8 DEF LoadOK

\* A load that gives way is not on behalf of another: nothing depends on a
\* plugin that conflicts with one.
LEMMA GivesWay ==
    ASSUME TypeOK, StackOK(stack, loaded), stack # << >>, Top.op = "load",
           Return, conflicts[Top.plugin] # {}
    PROVE  stack' = << >>
<1>0. Len(stack) \in Nat \ {0}
  BY RestFacts DEF TypeOK, Frame
<1>1. LoadOK(stack, loaded, Len(stack))
  BY <1>0 DEF StackOK, Top
<1>2. ASSUME Len(stack) > 1 PROVE FALSE
  <2> DEFINE i == Len(stack) - 1
  <2>1. stack[i].op = "load" /\ LoadOK(stack, loaded, i)
    BY <1>0, <1>1, <1>2 DEF StackOK, LoadOK
  <2>2. Top.plugin \in depends[stack[i].plugin]
    BY <1>0, <1>2, <2>1 DEF LoadOK, Top
  <2>3. stack[i] \in Frame
    BY <1>0, <1>2, ElementOfSeq DEF TypeOK, Frame
  <2> QED
    BY <2>2, <2>3, TopFrame, PluginAssumption
       DEF Frame, LoadFrame, UnloadFrame
<1>3. stack' = SubSeq(stack, 1, 0)
  BY <1>0, <1>2 DEF Return, Rest
<1> QED
  BY <1>3, SubSeqEmpty

\* The top frame has looked at one more dependency or conflict.
LEMMA Continues ==
    ASSUME TypeOK, StackOK(stack, loaded), stack # << >>, loaded' = loaded,
           NEW f \in Frame, f.op = Top.op, f.plugin = Top.plugin, Continue(f),
           f.op = "load" => LoadOK(stack', loaded', Len(stack)),
           f.op = "unload" => UnloadOK(stack', loaded', Len(stack))
    PROVE  StackOK(stack', loaded')
<1>0. /\ Len(stack) \in Nat \ {0} /\ Len(stack') = Len(stack)
      /\ \A i \in 1..(Len(stack) - 1) : stack'[i] = stack[i]
      /\ stack'[Len(stack)] = f
  BY RestFacts, ContinueStack DEF TypeOK, Frame
<1>1. \A i \in 1..Len(stack) : stack'[i].op = stack[i].op
                               /\ stack'[i].plugin = stack[i].plugin
  BY <1>0 DEF Top
<1>2. ASSUME NEW i \in 1..(Len(stack) - 1)
      PROVE  /\ stack'[i].op = "load" => LoadOK(stack', loaded', i)
             /\ stack'[i].op = "unload" => UnloadOK(stack', loaded', i)
  <2>1. /\ stack'[i] = stack[i]
        /\ i + 1 \in 1..Len(stack) /\ 1 \in 1..Len(stack)
        /\ \A j \in 1..i : j \in 1..Len(stack)
    BY <1>0
  <2>2. \A op, q : Working(stack, i, op, q) = Working(stack', i, op, q)
    BY <1>0, <1>1, <2>1 DEF Working
  <2>3. ASSUME stack[i].op = "load" PROVE LoadOK(stack', loaded', i)
    <3>1. LoadOK(stack, loaded, i)
      BY <1>0, <2>3 DEF StackOK
    <3>2. \A j \in 1..i : stack'[j].op = "load"
      BY <1>1, <2>1, <3>1 DEF LoadOK
    <3> QED
      BY <1>0, <1>1, <2>1, <2>2, <3>1, <3>2 DEF LoadOK
  <2>4. ASSUME stack[i].op = "unload" PROVE UnloadOK(stack', loaded', i)
    <3>1. UnloadOK(stack, loaded, i) /\ stack'[1].op = stack[1].op
      BY <1>0, <1>1, <2>1, <2>4 DEF StackOK
    <3> QED
      BY <2>1, <2>2, <3>1 DEF UnloadOK
  <2> QED
    BY <2>1, <2>3, <2>4
<1> QED
  BY <1>0, <1>2 DEF StackOK

\* The top frame calls another.
LEMMA Calls ==
    ASSUME TypeOK, StackOK(stack, loaded), stack # << >>, loaded' = loaded,
           NEW f \in Frame, f.op = Top.op, f.plugin = Top.plugin,
           NEW g \in Frame, Call(f, g),
           f.op = "load" => LoadOK(stack', loaded', Len(stack)),
           f.op = "unload" => UnloadOK(stack', loaded', Len(stack)),
           g.op = "load" => LoadOK(stack', loaded', Len(stack) + 1),
           g.op = "unload" => UnloadOK(stack', loaded', Len(stack) + 1)
    PROVE  StackOK(stack', loaded')
<1>0. /\ Len(stack) \in Nat \ {0} /\ Len(stack') = Len(stack) + 1
      /\ \A i \in 1..(Len(stack) - 1) : stack'[i] = stack[i]
      /\ stack'[Len(stack)] = f /\ stack'[Len(stack) + 1] = g
  BY RestFacts, CallStack DEF TypeOK, Frame
<1>1. \A i \in 1..Len(stack) : stack'[i].op = stack[i].op
                               /\ stack'[i].plugin = stack[i].plugin
  BY <1>0 DEF Top
<1>2. ASSUME NEW i \in 1..(Len(stack) - 1)
      PROVE  /\ stack'[i].op = "load" => LoadOK(stack', loaded', i)
             /\ stack'[i].op = "unload" => UnloadOK(stack', loaded', i)
  <2>1. /\ stack'[i] = stack[i]
        /\ i + 1 \in 1..Len(stack) /\ 1 \in 1..Len(stack)
        /\ \A j \in 1..i : j \in 1..Len(stack)
    BY <1>0
  <2>2. \A op, q : Working(stack, i, op, q) = Working(stack', i, op, q)
    BY <1>0, <1>1, <2>1 DEF Working
  <2>3. ASSUME stack[i].op = "load" PROVE LoadOK(stack', loaded', i)
    <3>1. LoadOK(stack, loaded, i)
      BY <1>0, <2>3 DEF StackOK
    <3>2. \A j \in 1..i : stack'[j].op = "load"
      BY <1>1, <2>1, <3>1 DEF LoadOK
    <3> QED
      BY <1>0, <1>1, <2>1, <2>2, <3>1, <3>2 DEF LoadOK
  <2>4. ASSUME stack[i].op = "unload" PROVE UnloadOK(stack', loaded', i)
    <3>1. UnloadOK(stack, loaded, i) /\ stack'[1].op = stack[1].op
      BY <1>0, <1>1, <2>1, <2>4 DEF StackOK
    <3> QED
      BY <2>1, <2>2, <3>1 DEF UnloadOK
  <2> QED
    BY <2>1, <2>3, <2>4
<1>3. \A i \in 1..Len(stack') : \/ i \in 1..(Len(stack) - 1)
                                \/ i = Len(stack) \/ i = Len(stack) + 1
  BY <1>0
<1> QED
  BY <1>0, <1>2, <1>3 DEF StackOK

\* What stands on an unload is an unload, and what a load has unloaded has
\* no dependants.
LEMMA UnloadTop ==
    ASSUME TypeOK, StackOK(stack, loaded), stack # << >>, Top.op = "unload"
    PROVE  /\ Len(stack) \in Nat \ {0}
           /\ UnloadOK(stack, loaded, Len(stack))
           /\ \A i \in 1..Len(stack) :
                  stack[i].op = "load" => dependants(Top.plugin) = {}
<1>0. Len(stack) \in Nat \ {0}
  BY RestFacts DEF TypeOK, Frame
<1>1. UnloadOK(stack, loaded, Len(stack))
  BY <1>0 DEF StackOK, Top
<1>2. ASSUME NEW i \in 1..Len(stack), stack[i].op = "load"
      PROVE  dependants(Top.plugin) = {}
  <2>1. stack[1].op = "load"
    BY <1>0, <1>2 DEF StackOK, LoadOK
  <2>2. conflicts[Top.plugin] # {}
    BY <1>1, <2>1 DEF UnloadOK, Top
  <2> QED
    BY <2>2, TopFrame, PluginAssumption DEF dependants
<1> QED
  BY <1>0, <1>1, <1>2

\* An unload is done.
LEMMA UnloadReturns ==
    ASSUME TypeOK, StackOK(stack, loaded), stack # << >>, Top.op = "unload",
           Return,
           loaded' = IF Top.plugin \in noUnload THEN loaded
                     ELSE loaded \ {Top.plugin}
    PROVE  StackOK(stack', loaded')
<1>0. /\ Len(stack) \in Nat \ {0} /\ Len(stack') = Len(stack) - 1
      /\ \A i \in 1..(Len(stack) - 1) : stack'[i] = stack[i]
  BY RestFacts DEF TypeOK, Frame, Return, Rest
<1> SUFFICES ASSUME NEW i \in 1..(Len(stack) - 1)
             PROVE  /\ stack[i].op = "load" => LoadOK(stack', loaded', i)
                    /\ stack[i].op = "unload" => UnloadOK(stack', loaded', i)
  BY <1>0 DEF StackOK
<1>1. /\ i \in 1..Len(stack) /\ 1 \in 1..(Len(stack) - 1)
      /\ stack'[i] = stack[i] /\ stack'[1] = stack[1]
  BY <1>0
<1>6. loaded' = loaded \ {Top.plugin}
  BY <1>0, UnloadTop DEF UnloadOK, Top
<1>2. ASSUME NEW op, NEW q, Working(stack, i, op, q)
      PROVE  Working(stack', i, op, q) \/ (op = "unload" /\ q = Top.plugin)
  BY <1>0, <1>1, <1>2 DEF Working, Top
<1>3. stack[i] \in Frame
  BY <1>1, ElementOfSeq DEF TypeOK, Frame
<1>4. ASSUME stack[i].op = "load" PROVE LoadOK(stack', loaded', i)
  <2>1. LoadOK(stack, loaded, i) /\ dependants(Top.plugin) = {}
    BY <1>1, <1>4, UnloadTop DEF StackOK
  <2>2. \A d \in depends[stack[i].plugin] \ stack[i].deps :
            d \in loaded' \/ Working(stack', i, "load", d)
    <3> SUFFICES ASSUME NEW d \in depends[stack[i].plugin] \ stack[i].deps
                 PROVE  d \in loaded' \/ Working(stack', i, "load", d)
      OBVIOUS
    <3>1. d # Top.plugin
      BY <1>3, <2>1 DEF dependants, Frame, LoadFrame, UnloadFrame
    <3>2. d \in loaded \/ Working(stack, i, "load", d)
      BY <2>1 DEF LoadOK
    <3> QED
      BY <1>2, <1>6, <3>1, <3>2
  <2>3. \A c \in conflicts[stack[i].plugin] \ stack[i].cfls :
            c \notin loaded' \/ Working(stack', i, "unload", c)
    BY <1>2, <1>6, <2>1 DEF LoadOK
  <2>4. \A j \in 1..i : stack'[j].op = "load"
    <3>1. \A j \in 1..i : stack'[j] = stack[j]
      BY <1>0
    <3> QED
      BY <2>1, <3>1 DEF LoadOK
  <2>5. i < Len(stack') => stack'[i + 1] = stack[i + 1] /\ i < Len(stack)
    BY <1>0
  <2> QED
    BY <1>1, <2>1, <2>2, <2>3, <2>4, <2>5 DEF LoadOK
<1>5. ASSUME stack[i].op = "unload" PROVE UnloadOK(stack', loaded', i)
  <2>1. UnloadOK(stack, loaded, i)
    BY <1>1, <1>5 DEF StackOK
  <2> QED
    BY <1>1, <1>2, <1>6, <2>1 DEF UnloadOK
<1> QED
  BY <1>4, <1>5

-----------------------------------------------------------------------------
(* The actions *)

\* One dependency of a load.
LEMMA LoadDependencyStep ==
    ASSUME TypeOK, StackOK(stack, loaded), NEW d \in Plugins,
           LoadDependency(d)
    PROVE  StackOK(stack', loaded')
<1> DEFINE n == Len(stack)
           f == [Top EXCEPT !.deps = @ \ {d}]
           g == loadFrame(d)
<1>1. stack # << >> /\ Top.op = "load" /\ d \in Top.deps /\ loaded' = loaded
  BY DEF LoadDependency, Running
<1>2. /\ f \in Frame /\ f.op = "load" /\ f.plugin = Top.plugin
      /\ f.deps = Top.deps \ {d} /\ f.cfls = Top.cfls
  BY <1>1, TopFrame, SmallerFrames DEF Frame, LoadFrame, UnloadFrame
<1>3. /\ n \in Nat \ {0} /\ LoadOK(stack, loaded, n)
      /\ stack \in Seq(Frame) /\ Top = stack[n]
  BY <1>1, RestFacts DEF StackOK, Top, TypeOK, Frame
<1>4. f.cfls = conflicts[f.plugin] /\ d \in depends[f.plugin]
  BY <1>1, <1>2, <1>3 DEF LoadOK
<1>5. /\ g.op = "load" /\ g.plugin = d /\ g.deps = depends[d]
      /\ g.cfls = conflicts[d] /\ g \in Frame
  BY NewFrames DEF loadFrame
<1>6. (d \in loaded /\ Continue(f)) \/ Call(f, g)
  BY DEF LoadDependency
<1>7. \A j \in 1..n : stack[j].op = "load"
  BY <1>3 DEF LoadOK
<1> HIDE DEF f, g
<1>8. CASE d \in loaded /\ Continue(f)
  <2>1. /\ Len(stack') = n /\ stack'[n] = f
        /\ \A j \in 1..(n - 1) : stack'[j] = stack[j]
    BY <1>1, <1>2, <1>8, ContinueStack
  <2>2. \A j \in 1..n : stack'[j].op = "load"
    BY <1>2, <1>3, <1>7, <2>1
  <2>3. LoadOK(stack', loaded', n)
    BY <1>1, <1>2, <1>3, <1>4, <1>8, <2>1, <2>2 DEF LoadOK, Working
  <2> QED
    BY <1>1, <1>2, <1>8, <2>3, Continues
<1>9. CASE Call(f, g)
  <2>1. /\ Len(stack') = n + 1 /\ stack'[n] = f /\ stack'[n + 1] = g
        /\ \A j \in 1..(n - 1) : stack'[j] = stack[j]
    BY <1>1, <1>2, <1>5, <1>9, CallStack
  <2>2. \A j \in 1..(n + 1) : stack'[j].op = "load"
    BY <1>2, <1>3, <1>5, <1>7, <2>1
  <2>3. LoadOK(stack', loaded', n)
    BY <1>1, <1>2, <1>3, <1>4, <1>5, <2>1, <2>2 DEF LoadOK, Working
  <2>4. LoadOK(stack', loaded', n + 1)
    BY <1>3, <1>5, <2>1, <2>2 DEF LoadOK, Working
  <2> QED
    BY <1>1, <1>2, <1>5, <1>9, <2>3, <2>4, Calls
<1> QED
  BY <1>6, <1>8, <1>9

\* One conflict of a load.
LEMMA CheckConflictStep ==
    ASSUME TypeOK, StackOK(stack, loaded), NEW c \in Plugins,
           CheckConflict(c)
    PROVE  StackOK(stack', loaded')
<1> DEFINE n == Len(stack)
           f == [Top EXCEPT !.cfls = @ \ {c}]
           g == unloadFrame(c)
<1>1. stack # << >> /\ Top.op = "load" /\ c \in Top.cfls /\ Top.deps = {}
  BY DEF CheckConflict, Running
<1>2. /\ f \in Frame /\ f.op = "load" /\ f.plugin = Top.plugin
      /\ f.deps = {} /\ f.cfls = Top.cfls \ {c}
  BY <1>1, TopFrame, SmallerFrames DEF Frame, LoadFrame, UnloadFrame
<1>3. /\ n \in Nat \ {0} /\ LoadOK(stack, loaded, n)
      /\ stack \in Seq(Frame) /\ Top = stack[n]
  BY <1>1, RestFacts DEF StackOK, Top, TypeOK, Frame
<1>4. c \in conflicts[Top.plugin] /\ conflicts[c] # {}
  BY <1>1, <1>3, TopFrame, PluginAssumption DEF LoadOK
<1>5. /\ g.op = "unload" /\ g.plugin = c /\ g \in Frame
      /\ g.deps = dependants(c)
  BY NewFrames DEF unloadFrame
<1>6. \A j \in 1..n : stack[j].op = "load"
  BY <1>3 DEF LoadOK
<1>7. \/ Return /\ loaded' = loaded
      \/ Continue(f) /\ c \notin loaded /\ loaded' = loaded
      \/ /\ Call(f, g) /\ loaded' = loaded
         /\ priority[Top.plugin] > priority[c]
      \/ RaiseLoadException
  BY DEF CheckConflict
<1> HIDE DEF f, g
<1>8. CASE Return
  BY <1>1, <1>4, <1>8, GivesWay, EmptySeq DEF StackOK
<1>9. CASE Continue(f) /\ c \notin loaded /\ loaded' = loaded
  <2>1. /\ Len(stack') = n /\ stack'[n] = f
        /\ \A j \in 1..(n - 1) : stack'[j] = stack[j]
    BY <1>1, <1>2, <1>9, ContinueStack
  <2>2. \A j \in 1..n : stack'[j].op = "load"
    BY <1>2, <1>3, <1>6, <2>1
  <2>3. LoadOK(stack', loaded', n)
    BY <1>1, <1>2, <1>3, <1>9, <2>1, <2>2 DEF LoadOK, Working
  <2> QED
    BY <1>1, <1>2, <1>9, <2>3, Continues
<1>10. CASE /\ Call(f, g) /\ loaded' = loaded
            /\ priority[Top.plugin] > priority[c]
  <2>1. /\ Len(stack') = n + 1 /\ stack'[n] = f /\ stack'[n + 1] = g
        /\ \A j \in 1..(n - 1) : stack'[j] = stack[j]
    BY <1>1, <1>2, <1>5, <1>10, CallStack
  <2>2. \A j \in 1..n : stack'[j].op = "load"
    BY <1>2, <1>3, <1>6, <2>1
  <2>3. LoadOK(stack', loaded', n)
    BY <1>1, <1>2, <1>3, <1>5, <1>10, <2>1, <2>2 DEF LoadOK, Working
  <2>5. c \notin noUnload
    <3>1. Top.plugin \in Plugins /\ Top.plugin \in conflicts[c]
      BY <1>1, <1>4, TopFrame, PluginAssumption
    <3>2. priority[c] \in Nat /\ priority[Top.plugin] \in Nat
      BY <3>1, PluginAssumption
    <3> QED
      BY <1>10, <3>1, <3>2, PluginAssumption
  <2>4. UnloadOK(stack', loaded', n + 1)
    BY <1>3, <1>4, <1>5, <2>1, <2>5 DEF UnloadOK
  <2> QED
    BY <1>1, <1>2, <1>5, <1>10, <2>3, <2>4, Calls
<1>11. CASE RaiseLoadException
  BY <1>11, EmptySeq DEF RaiseLoadException, StackOK
<1> QED
  BY <1>7, <1>8, <1>9, <1>10, <1>11

\* One dependant of an unload.
LEMMA UnloadDependantStep ==
    ASSUME TypeOK, StackOK(stack, loaded), NEW d \in Plugins,
           UnloadDependant(d), permanent \cap unloadable = {}
    PROVE  StackOK(stack', loaded')
<1> DEFINE n == Len(stack)
           f == [Top EXCEPT !.deps = @ \ {d}]
           g == unloadFrame(d)
<1>1. /\ stack # << >> /\ Top.op = "unload" /\ d \in Top.deps
      /\ loaded' = loaded /\ Call(f, g)
  BY DEF UnloadDependant, Running
<1>2. /\ f \in Frame /\ f.op = "unload" /\ f.plugin = Top.plugin
      /\ f.deps = Top.deps \ {d}
  BY <1>1, TopFrame, SmallerFrames DEF Frame, LoadFrame, UnloadFrame
<1>3. /\ n \in Nat \ {0} /\ UnloadOK(stack, loaded, n) /\ Top = stack[n]
      /\ 1 \in 1..n
  BY <1>1, UnloadTop DEF Top
<1>4. d \in dependants(Top.plugin) /\ stack[1].op # "load"
  BY <1>1, <1>3, UnloadTop DEF UnloadOK
<1>5. /\ g.op = "unload" /\ g.plugin = d /\ g \in Frame
      /\ g.deps = dependants(d)
  BY NewFrames DEF unloadFrame
<1> HIDE DEF f, g
<1>6. /\ Len(stack') = n + 1 /\ stack'[n] = f /\ stack'[n + 1] = g
      /\ \A j \in 1..(n - 1) : stack'[j] = stack[j]
  BY <1>1, <1>2, <1>5, CallStack
<1>7. stack'[1].op # "load"
  BY <1>2, <1>3, <1>4, <1>6
<1>8. UnloadOK(stack', loaded', n)
  BY <1>1, <1>2, <1>3, <1>5, <1>6, <1>7 DEF UnloadOK, Working
<1>10. d \notin noUnload
  <2>1. Top.plugin \in depends[d] /\ Top.plugin \in unloadable
    BY <1>4 DEF dependants, UnloadDependant
  <2> QED
    BY <2>1, PluginAssumption
<1>9. UnloadOK(stack', loaded', n + 1)
  BY <1>5, <1>6, <1>7, <1>10 DEF UnloadOK
<1> QED
  BY <1>1, <1>2, <1>5, <1>8, <1>9, Calls

\* Every step keeps the description of the stack.
LEMMA StackStep ==
    TypeOK /\ StackOK(stack, loaded) /\ StartupOK /\ [Next]_vars
        => StackOK(stack', loaded')
<1> SUFFICES ASSUME TypeOK, StackOK(stack, loaded), StartupOK, [Next]_vars
             PROVE  StackOK(stack', loaded')
  OBVIOUS
<1>1. ASSUME stack' = << >> PROVE StackOK(stack', loaded')
  BY <1>1, EmptySeq DEF StackOK
<1>2. CASE AlreadyLoaded
  <2>1. loaded' = loaded \cup {Top.plugin}
    BY <1>2 DEF AlreadyLoaded
  <2> QED
    BY <1>2, <2>1, LoadReturns DEF AlreadyLoaded, Running
<1>3. CASE Instantiate
  BY <1>3, LoadReturns DEF Instantiate, Running
<1>4. CASE FailToInstantiate
  BY <1>1, <1>4 DEF FailToInstantiate, RaiseWithCause
<1>5. CASE RefuseUnload \/ FailToUnload
  BY <1>1, <1>5 DEF RefuseUnload, FailToUnload, RaiseUnloadException
<1>6. CASE FinishUnload
  BY <1>6, UnloadReturns DEF FinishUnload, Running
<1>7. ASSUME NEW p \in Plugins, StartClass(p)
      PROVE  StackOK(stack', loaded')
  <2>1. loaded' = loaded /\ (stack' = << >> \/ stack' = <<loadFrame(p)>>)
    BY <1>7 DEF StartClass
  <2> QED
    BY <1>1, <2>1, FreshCall
<1>8. ASSUME NEW p \in Plugins, NEW state \in {"on", "off"},
             ConfigItem(p, state)
      PROVE  StackOK(stack', loaded')
  <2>1. \/ stack' = << >> \/ stack' = <<loadFrame(p)>>
        \/ stack' = <<unloadFrame(p)>>
    BY <1>8 DEF ConfigItem
  <2> QED
    BY <1>1, <2>1, FreshCall
<1>9. ASSUME UNCHANGED <<stack, loaded>> PROVE StackOK(stack', loaded')
  BY <1>9
<1>10. CASE LoopEnds \/ UNCHANGED vars
  BY <1>9, <1>10 DEF LoopEnds, vars
<1>11. ASSUME NEW p \in Plugins, NEW state \in {"on", "off"},
              SetConfig(p, state)
       PROVE  StackOK(stack', loaded')
  BY <1>9, <1>11 DEF SetConfig
<1>12. ASSUME NEW p \in Plugins, CloseDialog(p)
       PROVE  StackOK(stack', loaded')
  BY <1>9, <1>12 DEF CloseDialog
<1>13. ASSUME NEW d \in Plugins, UnloadDependant(d)
       PROVE  StackOK(stack', loaded')
  BY <1>13, UnloadDependantStep DEF StartupOK
<1> QED
  BY <1>2, <1>3, <1>4, <1>5, <1>6, <1>7, <1>8, <1>10, <1>11, <1>12, <1>13,
     LoadDependencyStep, CheckConflictStep DEF Next, Work

-----------------------------------------------------------------------------
(* The properties *)

\* What is loaded and unloaded keeps dependencies and conflicts.
LEMMA LoadedStep ==
    TypeOK /\ StackOK(stack, loaded) /\ DependencyClosed /\ NoConflict
        /\ [Next]_vars => DependencyClosed' /\ NoConflict'
<1> SUFFICES ASSUME TypeOK, StackOK(stack, loaded), DependencyClosed,
                    NoConflict, [Next]_vars
             PROVE  DependencyClosed' /\ NoConflict'
  OBVIOUS
<1>1. CASE loaded' = loaded
  BY <1>1 DEF DependencyClosed, NoConflict
<1>2. CASE Instantiate
  <2> DEFINE n == Len(stack)
             p == Top.plugin
  <2>1. /\ stack # << >> /\ Top.op = "load" /\ Top.deps = {} /\ Top.cfls = {}
        /\ loaded' = loaded \cup {p}
    BY <1>2 DEF Instantiate, Running
  <2>2. n \in Nat \ {0} /\ LoadOK(stack, loaded, n) /\ Top = stack[n]
    BY <2>1, RestFacts DEF StackOK, Top, TypeOK, Frame
  <2>3. p \in Plugins /\ loaded \subseteq Plugins
    BY <2>1, TopFrame DEF TypeOK
  <2>4. \A d \in depends[p] : d \in loaded
    BY <2>1, <2>2 DEF LoadOK, Working
  <2>5. \A c \in conflicts[p] : c \notin loaded
    BY <2>1, <2>2 DEF LoadOK, Working
  <2>6. DependencyClosed'
    BY <2>1, <2>4 DEF DependencyClosed
  <2>7. \A q \in loaded : p \notin conflicts[q]
    BY <2>3, <2>5, PluginAssumption
  <2>8. NoConflict'
    BY <2>1, <2>3, <2>5, <2>7, PluginAssumption DEF NoConflict
  <2> QED
    BY <2>6, <2>8
<1>3. CASE FinishUnload /\ Top.plugin \notin noUnload
  <2>1. /\ stack # << >> /\ Top.op = "unload" /\ Top.deps = {}
        /\ loaded' = loaded \ {Top.plugin}
    BY <1>3 DEF FinishUnload, Running
  <2>2. UnloadOK(stack, loaded, Len(stack)) /\ Len(stack) \in Nat
    BY <2>1, UnloadTop
  <2>3. \A d \in dependants(Top.plugin) : d \notin loaded
    BY <2>1, <2>2 DEF UnloadOK, Working, Top
  <2>4. DependencyClosed'
    BY <2>1, <2>3 DEF DependencyClosed, dependants, TypeOK
  <2> QED
    BY <2>1, <2>4 DEF NoConflict
<1>4. CASE FailToInstantiate \/ RefuseUnload \/ FailToUnload
  BY <1>1, <1>4 DEF FailToInstantiate, RefuseUnload, FailToUnload,
                    RaiseWithCause, RaiseUnloadException
<1>6. CASE FinishUnload /\ Top.plugin \in noUnload
  BY <1>1, <1>6 DEF FinishUnload
<1>5. ASSUME NEW c \in Plugins, CheckConflict(c)
      PROVE  loaded' = loaded
  BY <1>5 DEF CheckConflict, RaiseLoadException
<1> QED
  BY <1>1, <1>2, <1>3, <1>4, <1>5, <1>6
     DEF Next, Work, AlreadyLoaded, LoadDependency, UnloadDependant,
         StartClass, ConfigItem, LoopEnds, CloseDialog, SetConfig, vars

\* Calls keep the operation at the bottom of the stack.
LEMMA BottomStep ==
    ASSUME TypeOK, stack # << >>, stack' # << >>,
           \/ Return
           \/ \E f \in Frame : f.op = Top.op /\ Continue(f)
           \/ \E f, g \in Frame : f.op = Top.op /\ Call(f, g)
    PROVE  stack'[1].op = stack[1].op
<1>1. /\ stack \in Seq(Frame) /\ Len(stack) \in Nat \ {0}
      /\ Top = stack[Len(stack)]
  BY RestFacts DEF TypeOK, Frame, Top
<1>2. CASE Return
  <2>1. stack' \in Seq(Frame) /\ Len(stack') = Len(stack) - 1
        /\ \A i \in 1..(Len(stack) - 1) : stack'[i] = stack[i]
    BY <1>1, <1>2, RestFacts DEF Return, Rest
  <2>2. Len(stack') \in Nat \ {0}
    BY <2>1, EmptySeq
  <2> QED
    BY <1>1, <2>1, <2>2
<1>3. ASSUME NEW f \in Frame, f.op = Top.op, Continue(f)
      PROVE  stack'[1].op = stack[1].op
  BY <1>1, <1>3, ContinueStack
<1>4. ASSUME NEW f \in Frame, NEW g \in Frame, f.op = Top.op, Call(f, g)
      PROVE  stack'[1].op = stack[1].op
  BY <1>1, <1>4, CallStack
<1> QED
  BY <1>2, <1>3, <1>4

\* A plugin with conflicts is never protected: nothing depends on it.
LEMMA UnloadableStep ==
    ASSUME TypeOK, StartupOK, NEW q \in Plugins, StartClass(q)
    PROVE  /\ \A p \in Plugins : conflicts[p] # {} => p \in unloadable'
           /\ permanent \cap unloadable' = {}
<1>1. unloadable' \subseteq unloadable
  BY DEF StartClass
<1>2. ASSUME NEW p \in Plugins, conflicts[p] # {} PROVE p \in unloadable'
  <2>1. dependants(p) = {}
    BY <1>2, PluginAssumption DEF dependants
  <2>2. p \in unloadable
    BY <1>2 DEF StartupOK
  <2> QED
    BY <2>1, <2>2 DEF StartClass
<1> QED
  BY <1>1, <1>2 DEF StartupOK

\* A step that goes on with the calls keeps StartupOK.
LEMMA CallsKeepStartup ==
    ASSUME TypeOK, StartupOK, stack # << >>,
           unloadable' = unloadable, loops' = loops,
           \/ Return
           \/ \E f \in Frame : f.op = Top.op /\ Continue(f)
           \/ \E f, g \in Frame : f.op = Top.op /\ Call(f, g)
    PROVE  StartupOK'
<1>1. stack' # << >> => stack'[1].op = stack[1].op
  BY BottomStep
<1> QED
  BY <1>1 DEF StartupOK

\* Every step keeps StartupOK.
LEMMA StartupStep == TypeOK /\ StartupOK /\ [Next]_vars => StartupOK'
<1> SUFFICES ASSUME TypeOK, StartupOK, [Next]_vars PROVE StartupOK'
  OBVIOUS
<1>1. CASE stack' = << >> /\ unloadable' = unloadable
  BY <1>1 DEF StartupOK
<1>2. CASE AlreadyLoaded \/ Instantiate \/ FinishUnload
  BY <1>2, CallsKeepStartup
     DEF AlreadyLoaded, Instantiate, FinishUnload, Running
<1>3. CASE FailToInstantiate \/ RefuseUnload \/ FailToUnload
  <2>1. CASE status' = "exited" /\ UNCHANGED <<stack, loops, unloadable>>
    BY <2>1 DEF StartupOK
  <2> QED
    BY <1>1, <1>3, <2>1 DEF FailToInstantiate, RefuseUnload, FailToUnload,
       RaiseWithCause, RaiseUnloadException
<1>4. ASSUME NEW d \in Plugins, LoadDependency(d) PROVE StartupOK'
  <2> DEFINE f == [Top EXCEPT !.deps = @ \ {d}]
  <2>1. stack # << >> /\ unloadable' = unloadable /\ loops' = loops
    BY <1>4 DEF LoadDependency, Running
  <2>2. f \in Frame /\ f.op = Top.op /\ loadFrame(d) \in Frame
    BY <2>1, TopFrame, SmallerFrames, NewFrames
       DEF Frame, LoadFrame, UnloadFrame
  <2>3. Continue(f) \/ Call(f, loadFrame(d))
    BY <1>4 DEF LoadDependency
  <2> HIDE DEF f
  <2> QED
    BY <2>1, <2>2, <2>3, CallsKeepStartup
<1>5. ASSUME NEW c \in Plugins, CheckConflict(c) PROVE StartupOK'
  <2> DEFINE f == [Top EXCEPT !.cfls = @ \ {c}]
  <2>1. stack # << >> /\ Top.op = "load"
    BY <1>5 DEF CheckConflict, Running
  <2>2. f \in Frame /\ f.op = Top.op /\ unloadFrame(c) \in Frame
    BY <2>1, TopFrame, SmallerFrames, NewFrames
       DEF Frame, LoadFrame, UnloadFrame
  <2>3. \/ /\ Return \/ Continue(f) \/ Call(f, unloadFrame(c))
           /\ unloadable' = unloadable /\ loops' = loops
        \/ RaiseLoadException
    BY <1>5 DEF CheckConflict
  <2> HIDE DEF f
  <2>4. CASE RaiseLoadException
    BY <1>1, <2>4 DEF RaiseLoadException
  <2> QED
    BY <2>1, <2>2, <2>3, <2>4, CallsKeepStartup
<1>6. ASSUME NEW d \in Plugins, UnloadDependant(d) PROVE StartupOK'
  <2> DEFINE f == [Top EXCEPT !.deps = @ \ {d}]
  <2>1. stack # << >> /\ unloadable' = unloadable /\ loops' = loops
    BY <1>6 DEF UnloadDependant, Running
  <2>2. f \in Frame /\ f.op = Top.op /\ unloadFrame(d) \in Frame
    BY <2>1, TopFrame, SmallerFrames, NewFrames
       DEF Frame, LoadFrame, UnloadFrame
  <2>3. Call(f, unloadFrame(d))
    BY <1>6 DEF UnloadDependant
  <2> HIDE DEF f
  <2> QED
    BY <2>1, <2>2, <2>3, CallsKeepStartup
<1>7. ASSUME NEW p \in Plugins, StartClass(p) PROVE StartupOK'
  <2>1. stack' = << >> \/ (stack' = <<loadFrame(p)>> /\ stack'[1].op = "load")
    BY <1>7 DEF StartClass, loadFrame
  <2>2. /\ \A q \in Plugins : conflicts[q] # {} => q \in unloadable'
        /\ permanent \cap unloadable' = {}
    BY <1>7, UnloadableStep
  <2> QED
    BY <2>1, <2>2 DEF StartupOK
<1>8. ASSUME NEW p \in Plugins, NEW state \in {"on", "off"},
             ConfigItem(p, state)
      PROVE  StartupOK'
  <2>1. loops \in Seq(LoopItems) /\ loops # << >>
    BY <1>8 DEF ConfigItem, TypeOK, LoopItems
  <2>2. Len(loops) \in Nat \ {0} /\ DOMAIN loops = 1..Len(loops)
    BY <2>1, EmptySeq, LenProperties
  <2>3. 1 \in DOMAIN loops /\ DOMAIN loops' = DOMAIN loops
    BY <1>8, <2>2 DEF ConfigItem
  <2>4. loops' # << >>
    BY <2>3
  <2> QED
    BY <1>8, <2>4 DEF ConfigItem, StartupOK
<1>9. CASE LoopEnds
  BY <1>9 DEF LoopEnds, Idle, StartupOK
<1>10. ASSUME NEW p \in Plugins, NEW state \in {"on", "off"},
              SetConfig(p, state)
       PROVE  StartupOK'
  BY <1>10 DEF SetConfig, Ready, Idle, StartupOK
<1>12. ASSUME NEW p \in Plugins, CloseDialog(p) PROVE StartupOK'
  BY <1>12 DEF CloseDialog, Idle, StartupOK
<1>11. CASE UNCHANGED vars
  BY <1>11 DEF vars, StartupOK
<1> QED
  BY <1>2, <1>3, <1>4, <1>5, <1>6, <1>7, <1>8, <1>9, <1>10, <1>11,
     <1>12 DEF Next, Work

\* An unload is only refused to a change of the setting.
LEMMA SurvivesStep ==
    Safe /\ [Next]_vars => StartupSurvives'
<1> SUFFICES ASSUME Safe, [Next]_vars PROVE StartupSurvives'
  OBVIOUS
<1>1. CASE RefuseUnload
  <2>1. /\ stack # << >> /\ Top.op = "unload"
        /\ Top.plugin \notin unloadable
    BY <1>1 DEF RefuseUnload, Running
  <2>2. UnloadOK(stack, loaded, Len(stack)) /\ stack[1] \in Frame
    BY <2>1, UnloadTop, TopFrame DEF Safe
  <2>3. conflicts[Top.plugin] = {}
    BY <2>1, TopFrame DEF Safe, StartupOK
  <2>4. stack[1].op = "unload"
    BY <2>2, <2>3 DEF UnloadOK, Top, Frame, LoadFrame, UnloadFrame
  <2>5. loops # << >>
    BY <2>1, <2>4 DEF Safe, StartupOK
  <2> QED
    BY <1>1, <2>5 DEF RefuseUnload, RaiseUnloadException, Safe,
                      StartupSurvives
<1>2. CASE FailToInstantiate \/ FailToUnload
  BY <1>2 DEF FailToInstantiate, FailToUnload, RaiseUnloadException, Safe,
              StartupSurvives
<1>3. CASE status' = status
  BY <1>3 DEF Safe, StartupSurvives
<1> QED
  BY <1>1, <1>2, <1>3
     DEF Next, Work, AlreadyLoaded, LoadDependency, CheckConflict,
         Instantiate, UnloadDependant, FinishUnload, StartClass, ConfigItem,
         LoopEnds, CloseDialog, SetConfig, vars

\* The invariant holds.
LEMMA SafeInvariant == Spec => []Safe
<1>1. Init => Safe
  <2> SUFFICES ASSUME Init PROVE Safe
    OBVIOUS
  <2>1. StackOK(stack, loaded)
    BY EmptySeq DEF Init, StackOK
  <2>2. StartupOK
    BY PluginAssumption DEF Init, StartupOK, declaredUnloadable
  <2> QED
    BY <2>1, <2>2, InitType DEF Init, Safe, DependencyClosed, NoConflict,
       StartupSurvives
<1>2. Safe /\ [Next]_vars => Safe'
  BY TypeStep, StackStep, LoadedStep, StartupStep, SurvivesStep DEF Safe
<1> QED
  BY <1>1, <1>2, PTL DEF Spec

\* Every variable keeps its type: the frames of calls, however deep, too.
THEOREM TypeCorrect == Spec => []TypeOK
BY SafeInvariant, PTL DEF Safe

\* A plugin is never loaded without what it depends on, half-way through
\* recursive loads and unloads included.
THEOREM DependenciesAreLoaded == Spec => []DependencyClosed
BY SafeInvariant, PTL DEF Safe

\* Two plugins that conflict are never loaded together.
THEOREM ConflictsAreApart == Spec => []NoConflict
BY SafeInvariant, PTL DEF Safe

\* What is loaded is consistent half-way through every nested call.
THEOREM LoadedStayConsistent == Spec => []LoadedAreConsistent
BY SafeInvariant, PTL DEF Safe, LoadedAreConsistent

\* No PluginUnloadException ends the start-up.
THEOREM NoCrashAtStart == Spec => []StartupSurvives
BY SafeInvariant, PTL DEF Safe

\* A permanent plugin is never unloaded, although one pass over the classes
\* protects only a part of what it depends on.
THEOREM PermanentPluginsStay == Spec => PermanentStays
<1>1. Safe /\ [Next]_vars => [permanent \cap loaded \subseteq loaded']_vars
  <2> SUFFICES ASSUME Safe, [Next]_vars
               PROVE  permanent \cap loaded \subseteq loaded'
    OBVIOUS
  <2>1. CASE FinishUnload
    BY <2>1 DEF FinishUnload, Safe, StartupOK
  <2>2. CASE loaded \subseteq loaded'
    BY <2>2
  <2>3. CASE FailToInstantiate \/ RefuseUnload \/ FailToUnload
    BY <2>2, <2>3 DEF FailToInstantiate, RefuseUnload, FailToUnload,
                      RaiseWithCause, RaiseUnloadException
  <2>4. ASSUME NEW c \in Plugins, CheckConflict(c)
        PROVE  permanent \cap loaded \subseteq loaded'
    BY <2>2, <2>4 DEF CheckConflict, RaiseLoadException
  <2> QED
    BY <2>1, <2>2, <2>3, <2>4
       DEF Next, Work, AlreadyLoaded, LoadDependency, Instantiate,
           UnloadDependant, StartClass, ConfigItem, LoopEnds, CloseDialog,
           SetConfig, vars
<1> QED
  BY <1>1, SafeInvariant, PTL DEF Spec, PermanentStays

(***************************************************************************)
(* What the order of the messages that wait comes to, as in                *)
(* AppletPluginsProofs.                                                    *)
(***************************************************************************)
LEMMA Appending ==
    ASSUME NEW S, NEW q \in Seq(S), NEW m \in S
    PROVE  /\ Append(q, m) \in Seq(S) /\ Len(q) \in Nat
           /\ DOMAIN Append(q, m) = DOMAIN q \cup {Len(q) + 1} /\ DOMAIN q = 1 .. Len(q)
           /\ Append(q, m)[Len(q) + 1] = m /\ \A i \in DOMAIN q : Append(q, m)[i] = q[i]
OBVIOUS

LEMMA Taking ==
    ASSUME NEW S, NEW q \in Seq(S), q # <<>>
    PROVE  /\ Tail(q) \in Seq(S) /\ Head(q) \in S /\ Head(q) = q[1] /\ 1 \in DOMAIN q
           /\ Len(q) \in Nat /\ DOMAIN q = 1 .. Len(q) /\ Len(Tail(q)) = Len(q) - 1
           /\ \A i \in DOMAIN Tail(q) : i + 1 \in DOMAIN q /\ Tail(q)[i] = q[i + 1]
           /\ \A i \in DOMAIN q : i > 1 => i - 1 \in DOMAIN Tail(q) /\ Tail(q)[i - 1] = q[i]
OBVIOUS

Has(q, Y) == \E j \in DOMAIN q : q[j] \in Y

\* Each message of X is followed by one of Y.
Followed(q, X, Y) == \A i \in DOMAIN q : q[i] \in X => \E j \in DOMAIN q : j > i /\ q[j] \in Y

\* Each message of Z comes after one of Y.
Preceded(q, Y, Z) == \A i \in DOMAIN q : q[i] \in Z => \E j \in DOMAIN q : j < i /\ q[j] \in Y

\* Between a message of X and one of Z that comes later there is one of Y.
Separated(q, X, Y, Z) ==
    \A i, k \in DOMAIN q : i < k /\ q[i] \in X /\ q[k] \in Z =>
        \E j \in DOMAIN q : i < j /\ j < k /\ q[j] \in Y

LEMMA AppendHas ==
    ASSUME NEW S, NEW q \in Seq(S), NEW m \in S, NEW Y
    PROVE  Has(Append(q, m), Y) <=> Has(q, Y) \/ m \in Y
BY Appending DEF Has

LEMMA AppendFollowed ==
    ASSUME NEW S, NEW q \in Seq(S), NEW m \in S, NEW X, NEW Y, m \notin X, Followed(q, X, Y) \/ m \in Y
    PROVE  Followed(Append(q, m), X, Y)
<1>1. /\ DOMAIN Append(q, m) = DOMAIN q \cup {Len(q) + 1} /\ DOMAIN q = 1 .. Len(q) /\ Len(q) \in Nat
      /\ Append(q, m)[Len(q) + 1] = m /\ \A i \in DOMAIN q : Append(q, m)[i] = q[i]
  BY Appending
<1> QED
  BY <1>1 DEF Followed

LEMMA AppendSeparated ==
    ASSUME NEW S, NEW q \in Seq(S), NEW m \in S, NEW X, NEW Y, NEW Z, Separated(q, X, Y, Z),
           m \in Z => Followed(q, X, Y)
    PROVE  Separated(Append(q, m), X, Y, Z)
<1>1. /\ DOMAIN Append(q, m) = DOMAIN q \cup {Len(q) + 1} /\ DOMAIN q = 1 .. Len(q) /\ Len(q) \in Nat
      /\ Append(q, m)[Len(q) + 1] = m /\ \A i \in DOMAIN q : Append(q, m)[i] = q[i]
  BY Appending
<1> SUFFICES ASSUME NEW i \in DOMAIN Append(q, m), NEW k \in DOMAIN Append(q, m),
                    i < k, Append(q, m)[i] \in X, Append(q, m)[k] \in Z
             PROVE  \E j \in DOMAIN Append(q, m) : i < j /\ j < k /\ Append(q, m)[j] \in Y
  BY DEF Separated
<1>2. i \in DOMAIN q /\ q[i] \in X
  BY <1>1
<1>3. CASE k \in DOMAIN q
  BY <1>1, <1>2, <1>3 DEF Separated
<1>4. CASE k = Len(q) + 1
  <2>1. PICK j \in DOMAIN q : j > i /\ q[j] \in Y
    BY <1>1, <1>2, <1>4 DEF Followed
  <2> QED
    BY <1>1, <1>4, <2>1
<1> QED
  BY <1>1, <1>3, <1>4

\* What handling the first message leaves of the order of the others
LEMMA TailOrder ==
    ASSUME NEW S, NEW q \in Seq(S), q # <<>>
    PROVE  /\ \A Y : Has(q, Y) <=> Head(q) \in Y \/ Has(Tail(q), Y)
           /\ \A X, Y : Followed(q, X, Y) => Followed(Tail(q), X, Y) /\ (Head(q) \in X => Has(Tail(q), Y))
           /\ \A Y, Z : Preceded(q, Y, Z) => Head(q) \notin Z /\ (Head(q) \notin Y => Preceded(Tail(q), Y, Z))
           /\ \A X, Y, Z : Separated(q, X, Y, Z) =>
                Separated(Tail(q), X, Y, Z) /\ (Head(q) \in X => Preceded(Tail(q), Y, Z))
<1>0. /\ Head(q) = q[1] /\ 1 \in DOMAIN q /\ Len(q) \in Nat /\ DOMAIN q = 1 .. Len(q)
      /\ \A i \in DOMAIN Tail(q) : i \in Nat /\ i >= 1 /\ i + 1 \in DOMAIN q /\ Tail(q)[i] = q[i + 1]
      /\ \A i \in DOMAIN q : i > 1 => i - 1 \in DOMAIN Tail(q) /\ Tail(q)[i - 1] = q[i]
  <2>1. DOMAIN Tail(q) = 1 .. Len(Tail(q)) /\ Len(Tail(q)) \in Nat
    OBVIOUS
  <2> QED
    BY <2>1, Taking
<1>1. \A Y : Has(q, Y) <=> Head(q) \in Y \/ Has(Tail(q), Y)
  <2> SUFFICES ASSUME NEW Y PROVE Has(q, Y) <=> Head(q) \in Y \/ Has(Tail(q), Y)
    OBVIOUS
  <2>1. Has(q, Y) => Head(q) \in Y \/ Has(Tail(q), Y)
    <3> SUFFICES ASSUME NEW j \in DOMAIN q, q[j] \in Y, Head(q) \notin Y PROVE Has(Tail(q), Y)
      BY DEF Has
    <3>1. j > 1
      BY <1>0
    <3> QED
      BY <1>0, <3>1 DEF Has
  <2>2. Has(Tail(q), Y) => Has(q, Y)
    BY <1>0 DEF Has
  <2> QED
    BY <2>1, <2>2, <1>0 DEF Has
<1>2. \A X, Y : Followed(q, X, Y) => Followed(Tail(q), X, Y) /\ (Head(q) \in X => Has(Tail(q), Y))
  <2> SUFFICES ASSUME NEW X, NEW Y, Followed(q, X, Y)
               PROVE  Followed(Tail(q), X, Y) /\ (Head(q) \in X => Has(Tail(q), Y))
    OBVIOUS
  <2>1. Followed(Tail(q), X, Y)
    <3> SUFFICES ASSUME NEW i \in DOMAIN Tail(q), Tail(q)[i] \in X
                 PROVE  \E j \in DOMAIN Tail(q) : j > i /\ Tail(q)[j] \in Y
      BY DEF Followed
    <3>1. PICK j \in DOMAIN q : j > i + 1 /\ q[j] \in Y
      BY <1>0 DEF Followed
    <3>2. j - 1 \in DOMAIN Tail(q) /\ j - 1 > i /\ Tail(q)[j - 1] \in Y
      BY <1>0, <3>1
    <3> QED
      BY <3>2
  <2>2. Head(q) \in X => Has(Tail(q), Y)
    BY <1>0 DEF Followed, Has
  <2> QED
    BY <2>1, <2>2
<1>3. \A Y, Z : Preceded(q, Y, Z) => Head(q) \notin Z /\ (Head(q) \notin Y => Preceded(Tail(q), Y, Z))
  <2> SUFFICES ASSUME NEW Y, NEW Z, Preceded(q, Y, Z)
               PROVE  Head(q) \notin Z /\ (Head(q) \notin Y => Preceded(Tail(q), Y, Z))
    OBVIOUS
  <2>1. Head(q) \notin Z
    BY <1>0 DEF Preceded
  <2>2. Head(q) \notin Y => Preceded(Tail(q), Y, Z)
    <3> SUFFICES ASSUME Head(q) \notin Y, NEW i \in DOMAIN Tail(q), Tail(q)[i] \in Z
                 PROVE  \E j \in DOMAIN Tail(q) : j < i /\ Tail(q)[j] \in Y
      BY DEF Preceded
    <3>1. PICK j \in DOMAIN q : j < i + 1 /\ q[j] \in Y
      BY <1>0 DEF Preceded
    <3>2. j > 1
      BY <1>0, <3>1
    <3> QED
      BY <1>0, <3>1, <3>2
  <2> QED
    BY <2>1, <2>2
<1>4. \A X, Y, Z : Separated(q, X, Y, Z) =>
        Separated(Tail(q), X, Y, Z) /\ (Head(q) \in X => Preceded(Tail(q), Y, Z))
  <2> SUFFICES ASSUME NEW X, NEW Y, NEW Z, Separated(q, X, Y, Z)
               PROVE  Separated(Tail(q), X, Y, Z) /\ (Head(q) \in X => Preceded(Tail(q), Y, Z))
    OBVIOUS
  <2>1. Separated(Tail(q), X, Y, Z)
    <3> SUFFICES ASSUME NEW i \in DOMAIN Tail(q), NEW k \in DOMAIN Tail(q),
                        i < k, Tail(q)[i] \in X, Tail(q)[k] \in Z
                 PROVE  \E j \in DOMAIN Tail(q) : i < j /\ j < k /\ Tail(q)[j] \in Y
      BY DEF Separated
    <3>1. PICK j \in DOMAIN q : i + 1 < j /\ j < k + 1 /\ q[j] \in Y
      BY <1>0 DEF Separated
    <3>2. j - 1 \in DOMAIN Tail(q) /\ i < j - 1 /\ j - 1 < k /\ Tail(q)[j - 1] \in Y
      BY <1>0, <3>1
    <3> QED
      BY <3>2
  <2>2. Head(q) \in X => Preceded(Tail(q), Y, Z)
    <3> SUFFICES ASSUME Head(q) \in X, NEW i \in DOMAIN Tail(q), Tail(q)[i] \in Z
                 PROVE  \E j \in DOMAIN Tail(q) : j < i /\ Tail(q)[j] \in Y
      BY DEF Preceded
    <3>1. i + 1 \in DOMAIN q /\ 1 < i + 1 /\ q[1] \in X /\ q[i + 1] \in Z
      BY <1>0
    <3>2. PICK j \in DOMAIN q : 1 < j /\ j < i + 1 /\ q[j] \in Y
      BY <1>0, <3>1 DEF Separated
    <3>3. j - 1 \in DOMAIN Tail(q) /\ j - 1 < i /\ Tail(q)[j - 1] \in Y
      BY <1>0, <3>2
    <3> QED
      BY <3>3
  <2> QED
    BY <2>1, <2>2
<1> QED
  BY <1>1, <1>2, <1>3, <1>4

(***************************************************************************)
(* The pairing agent: what bluetoothd has asked and told, and what the     *)
(* user can still answer.                                                  *)
(***************************************************************************)
Asks(r) == {[kind |-> "request", r |-> r]}
Cancels(r) == {[kind |-> "cancel", r |-> r]}
Displays(code) == [kind : {"display"}, dev : Devices, code : {code}]
Ups == {[kind |-> "up"]}
Downs == {[kind |-> "down"]}
Releases == {[kind |-> "release"]}
AgentMessages ==
    [kind : {"request", "cancel"}, r : Requests] \cup [kind : {"display"}, dev : Devices, code : Codes]
    \cup [kind : {"property"}, dev : Devices] \cup [kind : {"up", "down", "release"}]

AgentTyped == AgentTypeOK /\ queue \in Seq(AgentMessages)

\* What the agent shows; and what the notification of r is replaced by
Mine == screen \ stray
Hiding(r) == Displays("pin") \cup UNION {Asks(s) : s \in Requests \ {r}}

\* A request is asked once, and answered once at most: not while its call is on its way, not
\* before it is shown or refused, and never twice.
RequestsOK ==
    /\ \A r \in Requests :
         /\ answers[r] \in {0, 1}
         /\ request[r].state \in {"unused", "open"} => answers[r] = 0
         /\ request[r].state = "unused" => r \notin screen /\ ~Has(queue, Asks(r))
         /\ request[r].state = "answered" => answers[r] = 1
         /\ r \in screen \/ Has(queue, Asks(r)) => answers[r] = 0
         /\ ~(r \in screen /\ Has(queue, Asks(r)))
         /\ Separated(queue, Asks(r), {}, Asks(r))
         /\ Has(queue, Cancels(r)) => request[r].state = "over"
    /\ \A r, s \in Requests : request[r].state = "open" /\ request[s].state = "open" => r = s

\* The records of the agent are of the requests it shows.
ShownOK ==
    /\ dialog \in Requests => dialog \in Mine /\ request[dialog].kind = "passkey"
    /\ note \in Requests => request[note].kind = "confirm" /\ request[note].state # "unused"
    /\ \A r \in services : request[r].kind = "service" /\ request[r].state # "unused"
    /\ \A r \in Mine : /\ request[r].kind = "passkey" => dialog = r
                       /\ request[r].kind = "service" => r \in services

\* A confirmation that may still be cancelled is the one notified: what bluetoothd asks or
\* displays before the cancel it asks before the request.
NoteOK == \A r \in Mine : request[r].kind = "confirm" =>
            note = r \/ (request[r].state # "open" /\ ~Has(queue, Cancels(r)))
HidingOrder ==
    \A r \in Requests : /\ Separated(queue, Hiding(r), Asks(r), Cancels(r))
                        /\ request[r].state = "open" => Followed(queue, Hiding(r), Asks(r))

\* The plugin knows whether bluetoothd runs, or is told; it serves it, or is told of its end.
ServedOK ==
    /\ plugin.has <=> plugin.loaded /\ plugin.state
    /\ exported = "agent" => plugin.has
    /\ bluez.knows => bluez.up
    /\ bluez.up => Followed(queue, Downs, Ups)
    /\ ~bluez.up => Followed(queue, Ups, Downs)
    /\ ~Has(queue, Ups \cup Downs) => (plugin.state <=> bluez.up)
    /\ Followed(queue, Releases, Downs)
    /\ plugin.has /\ exported = "nobody" => Has(queue, Downs)
    /\ exported = "agent" /\ ~bluez.knows => Has(queue, Downs)

AgentInv == AgentTyped /\ RequestsOK /\ ShownOK /\ NoteOK /\ HidingOrder /\ ServedOK

\* Which message is which
LEMMA AgentMessageKinds ==
    ASSUME NEW m \in AgentMessages
    PROVE  /\ m.kind \in {"request", "cancel"} => m.r \in Requests
           /\ m.kind \in {"display", "property"} => m.dev \in Devices
           /\ m.kind = "display" => m.code \in Codes
           /\ \A r \in Requests : /\ m \in Asks(r) <=> m.kind = "request" /\ m.r = r
                                  /\ m \in Cancels(r) <=> m.kind = "cancel" /\ m.r = r
           /\ m \in Displays("pin") <=> m.kind = "display" /\ m.code = "pin"
           /\ m \in Ups <=> m.kind = "up"
           /\ m \in Downs <=> m.kind = "down"
           /\ m \in Releases <=> m.kind = "release"
           /\ \A r \in Requests : m \in Hiding(r) <=>
                \/ m.kind = "display" /\ m.code = "pin"
                \/ m.kind = "request" /\ m.r # r
<1>1. CASE m \in [kind : {"request", "cancel"}, r : Requests]
  BY <1>1 DEF Asks, Cancels, Displays, Ups, Downs, Releases, Hiding
<1>2. CASE m \in [kind : {"display"}, dev : Devices, code : Codes]
  BY <1>2 DEF Asks, Cancels, Displays, Ups, Downs, Releases, Hiding
<1>3. CASE m \in [kind : {"property"}, dev : Devices]
  BY <1>3 DEF Asks, Cancels, Displays, Ups, Downs, Releases, Hiding
<1>4. CASE m \in [kind : {"up", "down", "release"}]
  BY <1>4 DEF Asks, Cancels, Displays, Ups, Downs, Releases, Hiding
<1> QED
  BY <1>1, <1>2, <1>3, <1>4 DEF AgentMessages

\* The messages that are sent
LEMMA AgentMessagesSent ==
    /\ \A r \in Requests : [kind |-> "request", r |-> r] \in AgentMessages
                           /\ [kind |-> "cancel", r |-> r] \in AgentMessages
    /\ \A d \in Devices : /\ \A code \in Codes : [kind |-> "display", dev |-> d, code |-> code] \in AgentMessages
                          /\ [kind |-> "property", dev |-> d] \in AgentMessages
    /\ [kind |-> "up"] \in AgentMessages /\ [kind |-> "down"] \in AgentMessages
    /\ [kind |-> "release"] \in AgentMessages
BY DEF AgentMessages

\* Two messages that are sent at once
LEMMA AppendTwo ==
    ASSUME NEW S, NEW q \in Seq(S), NEW m \in S, NEW n \in S
    PROVE  q \o <<m, n>> = Append(Append(q, m), n) /\ Len(q \o <<m, n>>) = Len(q) + 2
<1>1. Append(q, m) \in Seq(S) /\ Append(Append(q, m), n) \in Seq(S)
  OBVIOUS
<1>2. Append(Append(q, m), n) = q \o <<m, n>>
  <2>1. Len(Append(Append(q, m), n)) = Len(q) + 2
    OBVIOUS
  <2>2. Len(q \o <<m, n>>) = Len(q) + 2 /\ q \o <<m, n>> \in Seq(S)
    OBVIOUS
  <2>3. \A i \in 1 .. Len(q) + 2 : Append(Append(q, m), n)[i] = (q \o <<m, n>>)[i]
    OBVIOUS
  <2> QED
    BY <1>1, <2>1, <2>2, <2>3
<1> QED
  BY <1>2

LEMMA AgentTypes ==
    ASSUME AgentTyped
    PROVE  /\ queue \in Seq(AgentMessages) /\ Len(queue) \in Nat
           /\ request \in [Requests -> [kind : RequestKinds, state : {"unused", "open", "answered", "over"}]]
           /\ answers \in [Requests -> Nat] /\ handlers \in [Devices -> Nat]
           /\ bluez \in [up : BOOLEAN, knows : BOOLEAN, starts : 0 .. MaxStarts]
           /\ plugin \in [loaded : BOOLEAN, state : BOOLEAN, has : BOOLEAN]
           /\ exported \in {"agent", "forgotten", "nobody"}
           /\ dialog \in Requests \cup {NoRequest, Unshown} /\ note \in Requests \cup {NoRequest, Code, Unshown}
           /\ services \subseteq Requests /\ screen \subseteq Requests /\ stray \subseteq screen
           /\ NoRequest \notin Requests /\ Code \notin Requests /\ NoRequest # Code
           /\ Unshown \notin Requests /\ Unshown # NoRequest
           /\ MaxQueue \in Nat \ {0} /\ MaxStarts \in Nat /\ MaxShown \in Nat
BY AgentAssumption DEF AgentTyped, AgentTypeOK

\* What a reply leaves of the requests and their answers
LEMMA ReplyTypes ==
    ASSUME AgentTyped, NEW rs, Reply(rs)
    PROVE  /\ request' \in [Requests -> [kind : RequestKinds, state : {"unused", "open", "answered", "over"}]]
           /\ answers' \in [Requests -> Nat]
           /\ \A r \in Requests :
                /\ request'[r].kind = request[r].kind
                /\ request'[r].state = IF r \in rs /\ request[r].state = "open" THEN "answered"
                                       ELSE request[r].state
                /\ answers'[r] = IF r \in rs THEN answers[r] + 1 ELSE answers[r]
<1>1. /\ request \in [Requests -> [kind : RequestKinds, state : {"unused", "open", "answered", "over"}]]
      /\ answers \in [Requests -> Nat]
  BY AgentTypes
<1>2. \A r \in Requests : [request[r] EXCEPT !.state = "answered"] \in
          [kind : RequestKinds, state : {"unused", "open", "answered", "over"}]
  BY <1>1
<1>3. \A r \in Requests : request'[r] = IF r \in rs /\ request[r].state = "open"
                                       THEN [request[r] EXCEPT !.state = "answered"] ELSE request[r]
  BY DEF Reply
<1>4. request' \in [Requests -> [kind : RequestKinds, state : {"unused", "open", "answered", "over"}]]
  BY <1>1, <1>2 DEF Reply
<1>5. answers' \in [Requests -> Nat] /\ \A r \in Requests : answers'[r] = IF r \in rs THEN answers[r] + 1 ELSE answers[r]
  BY <1>1 DEF Reply
<1> QED
  BY <1>1, <1>3, <1>4, <1>5

LEMMA GivenUpTypes ==
    ASSUME AgentTyped, request' = AllGivenUp
    PROVE  /\ request' \in [Requests -> [kind : RequestKinds, state : {"unused", "open", "answered", "over"}]]
           /\ \A r \in Requests :
                /\ request'[r].kind = request[r].kind
                /\ request'[r].state = IF request[r].state = "open" THEN "over" ELSE request[r].state
<1>1. request \in [Requests -> [kind : RequestKinds, state : {"unused", "open", "answered", "over"}]]
  BY AgentTypes
<1>2. \A r \in Requests : [request[r] EXCEPT !.state = "over"] \in
          [kind : RequestKinds, state : {"unused", "open", "answered", "over"}]
  BY <1>1
<1>3. \A r \in Requests : request'[r] = IF request[r].state = "open"
                                       THEN [request[r] EXCEPT !.state = "over"] ELSE request[r]
  BY DEF AllGivenUp
<1> QED
  BY <1>1, <1>2, <1>3 DEF AllGivenUp

\* What bluetoothd does to the queue, and what the applet does
Sends(m) == m \in AgentMessages /\ Len(queue) + 1 <= MaxQueue /\ queue' = Append(queue, m)
SendsTwo(m, n) ==
    m \in AgentMessages /\ n \in AgentMessages /\ Len(queue) + 2 <= MaxQueue /\ queue' = Append(Append(queue, m), n)
Receives == queue # <<>> /\ queue' = Tail(queue)

LEMMA AgentQueue ==
    ASSUME AgentTyped,
           \/ \E m \in AgentMessages : Sends(m)
           \/ \E m, n \in AgentMessages : SendsTwo(m, n)
           \/ Receives \/ UNCHANGED queue
    PROVE  queue' \in Seq(AgentMessages) /\ Len(queue') <= MaxQueue
<1>1. queue \in Seq(AgentMessages) /\ Len(queue) \in Nat /\ Len(queue) <= MaxQueue /\ MaxQueue \in Nat
  BY AgentTypes DEF AgentTyped, AgentTypeOK
<1>2. ASSUME NEW m \in AgentMessages, Sends(m)
      PROVE  queue' \in Seq(AgentMessages) /\ Len(queue') <= MaxQueue
  BY <1>1, <1>2 DEF Sends
<1>3. ASSUME NEW m \in AgentMessages, NEW n \in AgentMessages, SendsTwo(m, n)
      PROVE  queue' \in Seq(AgentMessages) /\ Len(queue') <= MaxQueue
  <2>1. Append(queue, m) \in Seq(AgentMessages) /\ Len(Append(queue, m)) = Len(queue) + 1
    BY <1>1
  <2>2. queue' = Append(Append(queue, m), n) /\ Len(queue) + 2 <= MaxQueue
    BY <1>3 DEF SendsTwo
  <2>3. queue' \in Seq(AgentMessages) /\ Len(queue') = Len(queue) + 2
    BY <1>1, <2>1, <2>2
  <2> QED
    BY <1>1, <2>2, <2>3
<1>4. CASE Receives
  BY <1>1, <1>4 DEF Receives
<1> QED
  BY <1>1, <1>2, <1>3, <1>4

\* What each step sends
LEMMA AgentSends ==
    ASSUME AgentTyped
    PROVE  /\ \A r \in Requests : \A kind \in RequestKinds : Ask(r, kind) => Sends([kind |-> "request", r |-> r])
           /\ \A r \in Requests : Withdraw(r) => Sends([kind |-> "cancel", r |-> r]) \/ UNCHANGED queue
           /\ \A d \in Devices : /\ DevicePropertyChanges(d) => Sends([kind |-> "property", dev |-> d])
                                 /\ \A code \in Codes : Display(d, code) =>
                                        Sends([kind |-> "display", dev |-> d, code |-> code])
           /\ Stop => SendsTwo([kind |-> "release"], [kind |-> "down"]) \/ Sends([kind |-> "down"])
           /\ Start => Sends([kind |-> "up"])
<1>1. queue \in Seq(AgentMessages) /\ Len(queue) \in Nat /\ MaxQueue \in Nat
  BY AgentTypes
<1>2. \A m, n \in AgentMessages : queue \o <<m, n>> = Append(Append(queue, m), n)
  BY <1>1, AppendTwo
<1>3. Stop => SendsTwo([kind |-> "release"], [kind |-> "down"]) \/ Sends([kind |-> "down"])
  <2> DEFINE m == [kind |-> "release"]
             n == [kind |-> "down"]
  <2>1. m \in AgentMessages /\ n \in AgentMessages
    BY AgentMessagesSent
  <2>2. Stop => Len(queue) + 2 <= MaxQueue /\ (queue' = queue \o <<m, n>> \/ queue' = Append(queue, n))
    BY DEF Stop, HasRoom, Send
  <2> HIDE DEF m, n
  <2>3. Stop => SendsTwo(m, n) \/ Sends(n)
    BY <1>1, <1>2, <2>1, <2>2 DEF SendsTwo, Sends
  <2> QED
    BY <2>3 DEF m, n
<1>4. \A r \in Requests : \A kind \in RequestKinds : Ask(r, kind) => Sends([kind |-> "request", r |-> r])
  BY AgentMessagesSent DEF Ask, HasRoom, Send, Sends
<1>5. \A r \in Requests : Withdraw(r) => Sends([kind |-> "cancel", r |-> r]) \/ UNCHANGED queue
  BY AgentMessagesSent DEF Withdraw, HasRoom, Send, Sends
<1>6. \A d \in Devices : /\ DevicePropertyChanges(d) => Sends([kind |-> "property", dev |-> d])
                         /\ \A code \in Codes : Display(d, code) =>
                                Sends([kind |-> "display", dev |-> d, code |-> code])
  BY AgentMessagesSent DEF DevicePropertyChanges, Display, HasRoom, Send, Sends
<1>7. Start => Sends([kind |-> "up"])
  BY AgentMessagesSent DEF Start, HasRoom, Send, Sends
<1> QED
  BY <1>3, <1>4, <1>5, <1>6, <1>7

\* The message that is received
LEMMA AgentHead ==
    ASSUME AgentTyped, NEW kind, Receive(kind)
    PROVE  /\ Receives /\ Head(queue) \in AgentMessages /\ Head(queue).kind = kind
           /\ kind \in {"request", "cancel"} => Head(queue).r \in Requests
           /\ kind \in {"display", "property"} => Head(queue).dev \in Devices
           /\ kind = "display" => Head(queue).code \in Codes
<1>1. queue \in Seq(AgentMessages)
  BY AgentTypes
<1>2. queue # <<>> /\ queue' = Tail(queue) /\ Head(queue).kind = kind
  BY DEF Receive
<1>3. Head(queue) \in AgentMessages
  BY <1>1, <1>2
<1> QED
  BY <1>2, <1>3, AgentMessageKinds DEF Receives

\* The types of everything else
AgentRestTyped ==
    /\ bluez \in [up : BOOLEAN, knows : BOOLEAN, starts : 0 .. MaxStarts]
    /\ request \in [Requests -> [kind : RequestKinds, state : {"unused", "open", "answered", "over"}]]
    /\ plugin \in [loaded : BOOLEAN, state : BOOLEAN, has : BOOLEAN]
    /\ exported \in {"agent", "forgotten", "nobody"}
    /\ dialog \in Requests \cup {NoRequest, Unshown} /\ note \in Requests \cup {NoRequest, Code, Unshown}
    /\ services \subseteq Requests /\ screen \subseteq Requests /\ stray \subseteq screen
    /\ entry \subseteq Devices /\ handlers \in [Devices -> Nat]
    /\ \A d \in entry : handlers[d] > 0
    /\ answers \in [Requests -> Nat]

LEMMA AgentRest == AgentTyped <=> AgentRestTyped /\ queue \in Seq(AgentMessages) /\ Len(queue) <= MaxQueue
BY DEF AgentTyped, AgentTypeOK, AgentRestTyped

LEMMA CancelPromptsTypes ==
    ASSUME AgentTyped, CancelPrompts
    PROVE  /\ request' \in [Requests -> [kind : RequestKinds, state : {"unused", "open", "answered", "over"}]]
           /\ answers' \in [Requests -> Nat]
           /\ dialog' \in {NoRequest, Unshown} /\ note' \in {NoRequest, Unshown} /\ services' \subseteq services
           /\ screen' \subseteq Requests /\ stray' \subseteq screen'
<1>1. Reply({dialog} \cap Requests)
  BY DEF CancelPrompts
<1>2. /\ request' \in [Requests -> [kind : RequestKinds, state : {"unused", "open", "answered", "over"}]]
      /\ answers' \in [Requests -> Nat]
  BY <1>1, ReplyTypes
<1> QED
  BY <1>2, AgentTypes DEF CancelPrompts, Take, DestroyedDialog, NoteCloses

LEMMA AgentRestStep ==
    ASSUME AgentTyped, AgentNext
    PROVE  AgentRestTyped'
<1>0. AgentRestTyped
  BY AgentRest
<1>1. ASSUME NEW r \in Requests, NEW kind \in RequestKinds, Ask(r, kind)
      PROVE  AgentRestTyped'
  BY <1>0, <1>1 DEF Ask, AgentRestTyped, applet, prompts
<1>2. ASSUME NEW r \in Requests, Withdraw(r)
      PROVE  AgentRestTyped'
  BY <1>0, <1>2 DEF Withdraw, AgentRestTyped, applet, prompts
<1>3. ASSUME NEW r \in Requests, UserAnswers(r)
      PROVE  AgentRestTyped'
  <2>1. Reply({r})
    BY <1>3 DEF UserAnswers
  <2> QED
    BY <1>0, <1>3, <2>1, ReplyTypes DEF UserAnswers, Take, DestroyedDialog, AgentRestTyped
<1>4. ASSUME NEW r \in Requests, Dismiss(r)
      PROVE  AgentRestTyped'
  BY <1>0, <1>4 DEF Dismiss, Take, AgentRestTyped
<1>5. ASSUME NEW d \in Devices, NEW code \in Codes, DevicePropertyChanges(d) \/ Display(d, code)
      PROVE  AgentRestTyped'
  BY <1>0, <1>5 DEF DevicePropertyChanges, Display, AgentRestTyped, applet, prompts
<1>6. CASE Stop
  <2>1. request' = AllGivenUp /\ bluez' = [bluez EXCEPT !.up = FALSE, !.knows = FALSE] /\ UNCHANGED applet
    BY <1>6 DEF Stop
  <2>2. bluez' \in [up : BOOLEAN, knows : BOOLEAN, starts : 0 .. MaxStarts]
    BY <1>0, <2>1 DEF AgentRestTyped
  <2> QED
    BY <1>0, <2>1, <2>2, GivenUpTypes DEF AgentRestTyped, applet, prompts
<1>7. CASE Start
  <2>1. /\ bluez' = [bluez EXCEPT !.up = TRUE, !.starts = bluez.starts + 1] /\ bluez.starts < MaxStarts
        /\ UNCHANGED <<request, applet>>
    BY <1>7 DEF Start
  <2>3. bluez \in [up : BOOLEAN, knows : BOOLEAN, starts : 0 .. MaxStarts] /\ MaxStarts \in Nat
    BY <1>0, AgentAssumption DEF AgentRestTyped
  <2>4. bluez.starts + 1 \in 0 .. MaxStarts
    BY <2>1, <2>3
  <2>2. bluez' \in [up : BOOLEAN, knows : BOOLEAN, starts : 0 .. MaxStarts]
    BY <2>1, <2>3, <2>4
  <2> QED
    BY <1>0, <2>1, <2>2 DEF AgentRestTyped, applet, prompts
<1>8. CASE RefuseRequest \/ PasskeyUnshown \/ ConfirmationUnshown
  <2>1. /\ Reply({Head(queue).r}) /\ dialog' \in {dialog, Unshown} /\ note' \in {note, Unshown}
        /\ UNCHANGED <<bluez, plugin, exported, services, entry, handlers, screen, stray>>
    BY <1>8 DEF RefuseRequest, PasskeyUnshown, ConfirmationUnshown, prompts
  <2> QED
    BY <1>0, <2>1, ReplyTypes DEF AgentRestTyped
<1>9. CASE RequestPasskey \/ RequestConfirmation \/ AuthorizeService
  <2>1. Head(queue).r \in Requests
    BY <1>9, AgentHead DEF RequestPasskey, RequestConfirmation, AuthorizeService
  <2> QED
    BY <1>0, <1>9, <2>1 DEF RequestPasskey, RequestConfirmation, AuthorizeService, AgentRestTyped
<1>10. CASE DisplayCode \/ DisplayRaises
  <2> DEFINE d == Head(queue).dev
  <2>1. d \in Devices
    BY <1>10, AgentHead DEF DisplayCode, DisplayRaises
  <2>2. /\ entry' = entry \cup {d} /\ handlers' = [handlers EXCEPT ![d] = handlers[d] + 1]
        /\ note' \in {note, Code, Unshown}
        /\ screen' \subseteq screen /\ stray' \subseteq screen' /\ services' \subseteq services
        /\ UNCHANGED <<bluez, request, plugin, exported, dialog, answers>>
    BY <1>0, <1>10 DEF DisplayCode, DisplayRaises, Connected, Take, AgentRestTyped
  <2>3. handlers' \in [Devices -> Nat] /\ \A e \in entry' : handlers'[e] > 0
    BY <1>0, <2>1, <2>2 DEF AgentRestTyped
  <2> QED
    BY <1>0, <2>1, <2>2, <2>3 DEF AgentRestTyped
<1>11. CASE DisplayFails
  BY <1>0, <1>11 DEF DisplayFails, AgentRestTyped, applet, prompts
<1>12. CASE OnCancel
  <2>1. UNCHANGED <<bluez, plugin, exported, entry, handlers>>
    BY <1>12 DEF OnCancel
  <2>2. CancelPrompts \/ UNCHANGED <<request, dialog, note, services, screen, stray, answers>>
    BY <1>12 DEF OnCancel
  <2> QED
    BY <1>0, <2>1, <2>2, CancelPromptsTypes DEF AgentRestTyped
<1>13. CASE OnPropertyChanged
  <2> DEFINE d == Head(queue).dev
  <2>1. UNCHANGED <<bluez, plugin, exported>>
    BY <1>13 DEF OnPropertyChanged
  <2>2. CASE d \in entry
    <3>1. entry' = entry \ {d} /\ handlers' = [handlers EXCEPT ![d] = handlers[d] - 1] /\ CancelPrompts
      BY <1>13, <2>2 DEF OnPropertyChanged, OtherEntries, Remaining
    <3>2. d \in Devices /\ handlers[d] \in Nat /\ handlers[d] > 0
      BY <1>0, <2>2 DEF AgentRestTyped
    <3> HIDE DEF d
    <3>3. handlers' \in [Devices -> Nat] /\ \A e \in entry' : handlers'[e] > 0
      BY <1>0, <3>1, <3>2 DEF AgentRestTyped
    <3> QED
      BY <1>0, <2>1, <3>1, <3>3, CancelPromptsTypes DEF AgentRestTyped
  <2>3. CASE d \notin entry
    <3>1. UNCHANGED <<request, prompts, answers>>
      BY <1>13, <2>3 DEF OnPropertyChanged
    <3> QED
      BY <1>0, <2>1, <3>1 DEF AgentRestTyped, prompts
  <2> QED
    BY <2>2, <2>3
<1>14. CASE OnRelease
  <2>1. /\ UNCHANGED <<bluez, plugin, entry, handlers>> /\ exported' \in {exported, "nobody"}
        /\ CancelPrompts \/ UNCHANGED <<request, dialog, note, services, screen, stray, answers>>
    BY <1>14 DEF OnRelease
  <2> QED
    BY <1>0, <2>1, CancelPromptsTypes DEF AgentRestTyped
<1>15. ASSUME Register, UNCHANGED <<request, screen, answers>>, plugin' \in [loaded : BOOLEAN, state : BOOLEAN, has : BOOLEAN]
       PROVE  AgentRestTyped'
  <2>1. bluez' = [bluez EXCEPT !.knows = bluez.knows \/ (bluez.up /\ exported = "nobody")]
        /\ exported' \in {exported, "agent"}
        /\ stray' = screen /\ dialog' = NoRequest /\ note' = NoRequest /\ services' = {}
        /\ entry' = {} /\ handlers' = [d \in Devices |-> 0]
    BY <1>15 DEF Register, FreshAgent
  <2>2. bluez' \in [up : BOOLEAN, knows : BOOLEAN, starts : 0 .. MaxStarts]
    BY <1>0, <2>1 DEF AgentRestTyped
  <2> QED
    BY <1>0, <1>15, <2>1, <2>2 DEF AgentRestTyped
<1>16. CASE OnUp
  <2>1. plugin' = [plugin EXCEPT !.state = TRUE, !.has = plugin.loaded]
    BY <1>16 DEF OnUp
  <2>2. plugin' \in [loaded : BOOLEAN, state : BOOLEAN, has : BOOLEAN]
    BY <1>0, <2>1 DEF AgentRestTyped
  <2>3. \/ Register /\ UNCHANGED <<request, screen, answers>>
        \/ UNCHANGED <<bluez, request, exported, prompts, answers>>
    BY <1>16 DEF OnUp
  <2> QED
    BY <1>0, <1>15, <2>2, <2>3 DEF AgentRestTyped, prompts
<1>17. CASE OnDown
  <2>1. plugin' = [plugin EXCEPT !.state = FALSE, !.has = FALSE] /\ exported' \in {exported, "forgotten"}
        /\ UNCHANGED <<bluez, request, prompts, answers>>
    BY <1>17 DEF OnDown
  <2>2. plugin' \in [loaded : BOOLEAN, state : BOOLEAN, has : BOOLEAN]
    BY <1>0, <2>1 DEF AgentRestTyped
  <2> QED
    BY <1>0, <2>1, <2>2 DEF AgentRestTyped, prompts
<1>18. CASE LoadAuthAgent
  <2>1. plugin' = [plugin EXCEPT !.loaded = TRUE, !.has = plugin.state]
    BY <1>18 DEF LoadAuthAgent
  <2>2. plugin' \in [loaded : BOOLEAN, state : BOOLEAN, has : BOOLEAN]
    BY <1>0, <2>1 DEF AgentRestTyped
  <2>3. \/ Register /\ UNCHANGED <<request, screen, answers>>
        \/ UNCHANGED <<bluez, request, exported, prompts, answers>>
    BY <1>18 DEF LoadAuthAgent
  <2> QED
    BY <1>0, <1>15, <2>2, <2>3 DEF AgentRestTyped, prompts
<1>19. CASE UnloadAuthAgent
  <2>1. plugin' = [plugin EXCEPT !.loaded = FALSE, !.has = FALSE] /\ UNCHANGED <<prompts, answers>>
        /\ exported' \in {exported, "nobody"} /\ bluez' \in {bluez, [bluez EXCEPT !.knows = FALSE]}
        /\ request' \in {request, AllGivenUp}
    BY <1>19 DEF UnloadAuthAgent, Unexported
  <2>2. plugin' \in [loaded : BOOLEAN, state : BOOLEAN, has : BOOLEAN]
        /\ bluez' \in [up : BOOLEAN, knows : BOOLEAN, starts : 0 .. MaxStarts]
    BY <1>0, <2>1 DEF AgentRestTyped
  <2> QED
    BY <1>0, <2>1, <2>2, GivenUpTypes DEF AgentRestTyped, prompts
<1> QED
  BY <1>1, <1>2, <1>3, <1>4, <1>5, <1>6, <1>7, <1>8, <1>9, <1>10, <1>11, <1>12, <1>13, <1>14, <1>16, <1>17,
     <1>18, <1>19 DEF AgentNext, Codes

LEMMA AgentTypedStep ==
    ASSUME AgentTyped, AgentNext
    PROVE  AgentTyped'
<1>1. AgentRestTyped'
  BY AgentRestStep
<1>2. \/ \E m \in AgentMessages : Sends(m)
      \/ \E m, n \in AgentMessages : SendsTwo(m, n)
      \/ Receives \/ UNCHANGED queue
  <2>1. ASSUME NEW r \in Requests, (\E kind \in RequestKinds : Ask(r, kind)) \/ Withdraw(r) \/ UserAnswers(r) \/ Dismiss(r)
        PROVE  (\E m \in AgentMessages : Sends(m)) \/ UNCHANGED queue
    BY <2>1, AgentSends DEF Sends, UserAnswers, Dismiss
  <2>2. ASSUME NEW d \in Devices, DevicePropertyChanges(d) \/ \E code \in Codes : Display(d, code)
        PROVE  \E m \in AgentMessages : Sends(m)
    BY <2>2, AgentSends DEF Sends
  <2>3. CASE Stop \/ Start
    BY <2>3, AgentSends DEF Sends, SendsTwo
  <2>4. ASSUME NEW kind, Receive(kind)
        PROVE  Receives
    BY <2>4 DEF Receive, Receives
  <2>5. CASE LoadAuthAgent \/ UnloadAuthAgent
    BY <2>5 DEF LoadAuthAgent, UnloadAuthAgent
  <2>6. CASE \/ RefuseRequest \/ RequestPasskey \/ PasskeyUnshown \/ RequestConfirmation
             \/ ConfirmationUnshown \/ AuthorizeService \/ DisplayCode \/ DisplayRaises \/ DisplayFails
             \/ OnCancel \/ OnPropertyChanged \/ OnRelease \/ OnUp \/ OnDown
    BY <2>4, <2>6 DEF RefuseRequest, RequestPasskey, PasskeyUnshown, RequestConfirmation, ConfirmationUnshown,
       AuthorizeService, DisplayCode, DisplayRaises, DisplayFails, OnCancel, OnPropertyChanged, OnRelease, OnUp, OnDown
  <2> QED
    BY <2>1, <2>2, <2>3, <2>5, <2>6 DEF AgentNext
<1>3. queue' \in Seq(AgentMessages) /\ Len(queue') <= MaxQueue
  BY <1>2, AgentQueue
<1> QED
  BY <1>1, <1>3 DEF AgentTyped, AgentTypeOK, AgentRestTyped

\* All that happens to the queue but the calls of bluetoothd and their cancellation
Plain(m) == m.kind \notin {"request", "cancel"}
QuietQueue == \/ UNCHANGED queue \/ Receives
              \/ \E m \in AgentMessages : Plain(m) /\ Sends(m)
              \/ SendsTwo([kind |-> "release"], [kind |-> "down"])

LEMMA QuietAppends ==
    ASSUME NEW q \in Seq(AgentMessages), NEW m \in AgentMessages, Plain(m), NEW r \in Requests
    PROVE  /\ Append(q, m) \in Seq(AgentMessages)
           /\ Has(Append(q, m), Asks(r)) <=> Has(q, Asks(r))
           /\ Has(Append(q, m), Cancels(r)) <=> Has(q, Cancels(r))
           /\ Separated(q, Asks(r), {}, Asks(r)) => Separated(Append(q, m), Asks(r), {}, Asks(r))
           /\ Separated(q, Hiding(r), Asks(r), Cancels(r)) => Separated(Append(q, m), Hiding(r), Asks(r), Cancels(r))
<1>1. m \notin Asks(r) /\ m \notin Cancels(r)
  BY AgentMessageKinds DEF Plain
<1>2. Append(q, m) \in Seq(AgentMessages)
  BY Appending
<1>3. (Has(Append(q, m), Asks(r)) <=> Has(q, Asks(r))) /\ (Has(Append(q, m), Cancels(r)) <=> Has(q, Cancels(r)))
  BY <1>1, AppendHas
<1>4. Separated(q, Asks(r), {}, Asks(r)) => Separated(Append(q, m), Asks(r), {}, Asks(r))
  BY <1>1, AppendSeparated
<1>5. Separated(q, Hiding(r), Asks(r), Cancels(r)) => Separated(Append(q, m), Hiding(r), Asks(r), Cancels(r))
  BY <1>1, AppendSeparated
<1> QED
  BY <1>2, <1>3, <1>4, <1>5

LEMMA QuietSteps ==
    ASSUME AgentTyped, QuietQueue, NEW r \in Requests
    PROVE  /\ Has(queue', Asks(r)) => Has(queue, Asks(r))
           /\ Has(queue', Cancels(r)) => Has(queue, Cancels(r))
           /\ Separated(queue, Asks(r), {}, Asks(r)) => Separated(queue', Asks(r), {}, Asks(r))
           /\ Separated(queue, Hiding(r), Asks(r), Cancels(r)) => Separated(queue', Hiding(r), Asks(r), Cancels(r))
           /\ Receives /\ Head(queue) \in Asks(r) =>
                Has(queue, Asks(r)) /\ (Separated(queue, Asks(r), {}, Asks(r)) => ~Has(queue', Asks(r)))
<1>0. queue \in Seq(AgentMessages)
  BY AgentTypes
<1>1. CASE Receives
  <2>1. queue # <<>> /\ queue' = Tail(queue)
    BY <1>1 DEF Receives
  <2>2. ~(Head(queue) \in Asks(r) /\ Separated(queue, Asks(r), {}, Asks(r)) /\ Has(queue', Asks(r)))
    <3>1. Head(queue) \in Asks(r) /\ Separated(queue, Asks(r), {}, Asks(r)) => Preceded(Tail(queue), {}, Asks(r))
      BY <1>0, <2>1, TailOrder
    <3> QED
      BY <2>1, <3>1 DEF Preceded, Has
  <2>3. Has(queue, Asks(r)) <=> Head(queue) \in Asks(r) \/ Has(Tail(queue), Asks(r))
    BY <1>0, <2>1, TailOrder
  <2>4. Has(queue, Cancels(r)) <=> Head(queue) \in Cancels(r) \/ Has(Tail(queue), Cancels(r))
    BY <1>0, <2>1, TailOrder
  <2>5. /\ Separated(queue, Asks(r), {}, Asks(r)) => Separated(queue', Asks(r), {}, Asks(r))
        /\ Separated(queue, Hiding(r), Asks(r), Cancels(r)) => Separated(queue', Hiding(r), Asks(r), Cancels(r))
    BY <1>0, <2>1, TailOrder
  <2> QED
    BY <2>1, <2>2, <2>3, <2>4, <2>5
<1>2. CASE UNCHANGED queue
  <2>1. ~Receives
    BY <1>0, <1>2 DEF Receives
  <2> QED
    BY <1>2, <2>1
<1>3. ASSUME NEW m \in AgentMessages, Plain(m), Sends(m)
      PROVE  /\ Has(queue', Asks(r)) => Has(queue, Asks(r))
             /\ Has(queue', Cancels(r)) => Has(queue, Cancels(r))
             /\ Separated(queue, Asks(r), {}, Asks(r)) => Separated(queue', Asks(r), {}, Asks(r))
             /\ Separated(queue, Hiding(r), Asks(r), Cancels(r)) => Separated(queue', Hiding(r), Asks(r), Cancels(r))
  BY <1>0, <1>3, QuietAppends DEF Sends
<1>4. CASE SendsTwo([kind |-> "release"], [kind |-> "down"])
  <2> DEFINE m == [kind |-> "release"]
             n == [kind |-> "down"]
  <2>1. m \in AgentMessages /\ n \in AgentMessages /\ Plain(m) /\ Plain(n)
    BY AgentMessagesSent DEF Plain
  <2>2. queue' = Append(Append(queue, m), n)
    BY <1>4 DEF SendsTwo
  <2> HIDE DEF m, n
  <2>3. Append(queue, m) \in Seq(AgentMessages)
    BY <1>0, <2>1, QuietAppends
  <2>4. /\ Has(queue', Asks(r)) => Has(queue, Asks(r))
        /\ Has(queue', Cancels(r)) => Has(queue, Cancels(r))
        /\ Separated(queue, Asks(r), {}, Asks(r)) => Separated(queue', Asks(r), {}, Asks(r))
        /\ Separated(queue, Hiding(r), Asks(r), Cancels(r)) => Separated(queue', Hiding(r), Asks(r), Cancels(r))
    BY <1>0, <2>1, <2>2, <2>3, QuietAppends
  <2>5. ~Receives
    BY <1>0, <2>1, <2>2 DEF Receives
  <2> QED
    BY <2>4, <2>5
<1>5. CASE ~Receives
  BY <1>2, <1>3, <1>4, <1>5 DEF QuietQueue
<1> QED
  BY <1>1, <1>5

\* What every step but a request does: it answers the requests rs and shows the requests ns.
Answering(rs, ns) ==
    \A r \in Requests :
      /\ request'[r].kind = request[r].kind
      /\ IF r \in rs
         THEN /\ request'[r].state = IF request[r].state = "open" THEN "answered" ELSE request[r].state
              /\ answers'[r] = answers[r] + 1
              /\ r \notin screen'
              /\ r \in screen \/ (Has(queue, Asks(r)) /\ ~Has(queue', Asks(r)))
         ELSE /\ \/ request'[r].state = request[r].state
                 \/ request[r].state = "open" /\ request'[r].state = "over"
              /\ answers'[r] = answers[r]
      /\ r \in screen' => r \in screen \cup ns
      /\ r \in ns => Has(queue, Asks(r)) /\ ~Has(queue', Asks(r))
      /\ Has(queue', Asks(r)) => Has(queue, Asks(r))
      /\ Has(queue', Cancels(r)) => Has(queue, Cancels(r)) \/ request'[r].state = "over"
      /\ Separated(queue', Asks(r), {}, Asks(r))

LEMMA AnsweringKeepsRequests ==
    ASSUME AgentTyped, RequestsOK, NEW rs, NEW ns, Answering(rs, ns)
    PROVE  RequestsOK'
<1>1. ASSUME NEW r \in Requests
      PROVE  /\ answers'[r] \in {0, 1}
             /\ request'[r].state \in {"unused", "open"} => answers'[r] = 0
             /\ request'[r].state = "unused" => r \notin screen' /\ ~Has(queue', Asks(r))
             /\ request'[r].state = "answered" => answers'[r] = 1
             /\ r \in screen' \/ Has(queue', Asks(r)) => answers'[r] = 0
             /\ ~(r \in screen' /\ Has(queue', Asks(r)))
             /\ Separated(queue', Asks(r), {}, Asks(r))
             /\ Has(queue', Cancels(r)) => request'[r].state = "over"
  <2> DEFINE asked == Has(queue, Asks(r))
             still == Has(queue', Asks(r))
             cancelled == Has(queue, Cancels(r))
             withdrawn == Has(queue', Cancels(r))
  <2>1. /\ answers[r] \in {0, 1}
        /\ request[r].state \in {"unused", "open"} => answers[r] = 0
        /\ request[r].state = "unused" => r \notin screen /\ ~asked
        /\ request[r].state = "answered" => answers[r] = 1
        /\ r \in screen \/ asked => answers[r] = 0
        /\ ~(r \in screen /\ asked)
        /\ cancelled => request[r].state = "over"
    BY DEF RequestsOK
  <2>2. /\ IF r \in rs
           THEN /\ request'[r].state = IF request[r].state = "open" THEN "answered" ELSE request[r].state
                /\ answers'[r] = answers[r] + 1
                /\ r \notin screen'
                /\ r \in screen \/ (asked /\ ~still)
           ELSE /\ \/ request'[r].state = request[r].state
                   \/ request[r].state = "open" /\ request'[r].state = "over"
                /\ answers'[r] = answers[r]
        /\ r \in screen' => r \in screen \cup ns
        /\ r \in ns => asked /\ ~still
        /\ still => asked
        /\ withdrawn => cancelled \/ request'[r].state = "over"
        /\ Separated(queue', Asks(r), {}, Asks(r))
    BY DEF Answering
  <2> HIDE DEF asked, still, cancelled, withdrawn
  <2>3. /\ answers'[r] \in {0, 1}
        /\ request'[r].state \in {"unused", "open"} => answers'[r] = 0
        /\ request'[r].state = "unused" => r \notin screen' /\ ~still
        /\ request'[r].state = "answered" => answers'[r] = 1
        /\ r \in screen' \/ still => answers'[r] = 0
        /\ ~(r \in screen' /\ still)
        /\ withdrawn => request'[r].state = "over"
    <3>1. CASE r \in rs
      BY <2>1, <2>2, <3>1
    <3>2. CASE r \notin rs
      BY <2>1, <2>2, <3>2
    <3> QED
      BY <3>1, <3>2
  <2> QED
    BY <2>2, <2>3 DEF still, withdrawn
<1>2. \A r, s \in Requests : request'[r].state = "open" /\ request'[s].state = "open" => r = s
  <2>1. \A r \in Requests : request'[r].state = "open" => request[r].state = "open"
    BY DEF Answering
  <2> QED
    BY <2>1 DEF RequestsOK
<1> QED
  BY <1>1, <1>2 DEF RequestsOK

\* A step that answers and shows what the applet was waiting for
LEMMA QuietAnswers ==
    ASSUME AgentTyped, RequestsOK, QuietQueue, NEW rs, NEW ns,
           \A r \in Requests :
             /\ request'[r].kind = request[r].kind
             /\ IF r \in rs
                THEN /\ request'[r].state = IF request[r].state = "open" THEN "answered" ELSE request[r].state
                     /\ answers'[r] = answers[r] + 1
                     /\ r \notin screen' /\ (r \in screen \/ (Receives /\ Head(queue) \in Asks(r)))
                ELSE /\ \/ request'[r].state = request[r].state
                        \/ request[r].state = "open" /\ request'[r].state = "over"
                     /\ answers'[r] = answers[r]
             /\ r \in screen' => r \in screen \cup ns
             /\ r \in ns => Receives /\ Head(queue) \in Asks(r)
    PROVE  Answering(rs, ns)
<1> SUFFICES ASSUME NEW r \in Requests
             PROVE  /\ r \in rs => r \in screen \/ (Has(queue, Asks(r)) /\ ~Has(queue', Asks(r)))
                    /\ r \in ns => Has(queue, Asks(r)) /\ ~Has(queue', Asks(r))
                    /\ Has(queue', Asks(r)) => Has(queue, Asks(r))
                    /\ Has(queue', Cancels(r)) => Has(queue, Cancels(r)) \/ request'[r].state = "over"
                    /\ Separated(queue', Asks(r), {}, Asks(r))
  BY DEF Answering
<1>1. Separated(queue, Asks(r), {}, Asks(r))
  BY DEF RequestsOK
<1>2. /\ Has(queue', Asks(r)) => Has(queue, Asks(r))
      /\ Has(queue', Cancels(r)) => Has(queue, Cancels(r))
      /\ Separated(queue', Asks(r), {}, Asks(r))
      /\ Receives /\ Head(queue) \in Asks(r) => Has(queue, Asks(r)) /\ ~Has(queue', Asks(r))
  BY <1>1, QuietSteps
<1> QED
  BY <1>2

\* A step that answers nothing
LEMMA NothingAnswered ==
    ASSUME AgentTyped, RequestsOK, QuietQueue, screen' \subseteq screen, UNCHANGED answers,
           UNCHANGED request \/ request' = AllGivenUp
    PROVE  Answering({}, {})
<1>1. \A r \in Requests : /\ request'[r].kind = request[r].kind
                          /\ \/ request'[r].state = request[r].state
                             \/ request[r].state = "open" /\ request'[r].state = "over"
                          /\ answers'[r] = answers[r]
  BY GivenUpTypes
<1>2. \A r \in Requests : r \in screen' => r \in screen
  OBVIOUS
<1> QED
  BY <1>1, <1>2, QuietAnswers

\* The dialog is what Cancel answers.
LEMMA CancelAnswers ==
    ASSUME AgentTyped, RequestsOK, ShownOK, QuietQueue, CancelPrompts
    PROVE  Answering({dialog} \cap Requests, {})
<1> DEFINE rs == {dialog} \cap Requests
<1>1. Reply(rs) /\ screen' \subseteq screen \ {dialog}
  BY DEF CancelPrompts, Take
<1>2. \A r \in rs : r \in screen /\ r \notin screen'
  BY <1>1, AgentTypes DEF ShownOK, Mine
<1> HIDE DEF rs
<1>3. \A r \in Requests :
        /\ request'[r].kind = request[r].kind
        /\ request'[r].state = IF r \in rs /\ request[r].state = "open" THEN "answered" ELSE request[r].state
        /\ answers'[r] = IF r \in rs THEN answers[r] + 1 ELSE answers[r]
  BY <1>1, ReplyTypes
<1>4. Answering(rs, {})
  BY <1>1, <1>2, <1>3, QuietAnswers
<1> QED
  BY <1>4 DEF rs

\* Who sends and receives what
LEMMA AgentQuiet ==
    ASSUME AgentTyped
    PROVE  /\ \A r \in Requests : UserAnswers(r) \/ Dismiss(r) => UNCHANGED queue
           /\ LoadAuthAgent \/ UnloadAuthAgent => UNCHANGED queue
           /\ \A d \in Devices : \A code \in Codes : DevicePropertyChanges(d) \/ Display(d, code) => QuietQueue
           /\ Stop \/ Start => QuietQueue
           /\ \A kind : Receive(kind) => QuietQueue
<1>1. \A m \in AgentMessages : Plain(m) /\ Sends(m) => QuietQueue
  BY DEF QuietQueue
<1>2. ASSUME NEW d \in Devices, DevicePropertyChanges(d)
      PROVE  QuietQueue
  <2>1. Sends([kind |-> "property", dev |-> d]) /\ Plain([kind |-> "property", dev |-> d])
    BY <1>2, AgentSends DEF Plain
  <2> QED
    BY <1>1, <2>1, AgentMessagesSent
<1>3. ASSUME NEW d \in Devices, NEW code \in Codes, Display(d, code)
      PROVE  QuietQueue
  <2>1. Sends([kind |-> "display", dev |-> d, code |-> code]) /\ Plain([kind |-> "display", dev |-> d, code |-> code])
    BY <1>3, AgentSends DEF Plain
  <2> QED
    BY <1>1, <2>1, AgentMessagesSent
<1>4. ASSUME Stop \/ Start
      PROVE  QuietQueue
  <2>1. Plain([kind |-> "up"]) /\ Plain([kind |-> "down"])
    BY DEF Plain
  <2>2. SendsTwo([kind |-> "release"], [kind |-> "down"]) => QuietQueue
    BY DEF QuietQueue
  <2>3. Sends([kind |-> "up"]) \/ Sends([kind |-> "down"]) => QuietQueue
    BY <1>1, <2>1, AgentMessagesSent
  <2> QED
    BY <1>4, <2>2, <2>3, AgentSends
<1>5. \A kind : Receive(kind) => QuietQueue
  BY DEF Receive, QuietQueue, Receives
<1>6. LoadAuthAgent \/ UnloadAuthAgent => UNCHANGED queue
  BY DEF LoadAuthAgent, UnloadAuthAgent
<1>7. \A r \in Requests : UserAnswers(r) \/ Dismiss(r) => UNCHANGED queue
  BY DEF UserAnswers, Dismiss
<1>8. \A d \in Devices : \A code \in Codes : DevicePropertyChanges(d) \/ Display(d, code) => QuietQueue
  BY <1>2, <1>3
<1>9. Stop \/ Start => QuietQueue
  BY <1>4
<1> QED
  BY <1>5, <1>6, <1>7, <1>8, <1>9

LEMMA WithdrawAnswers ==
    ASSUME AgentTyped, RequestsOK, NEW r \in Requests, Withdraw(r)
    PROVE  Answering({}, {})
<1>0. queue \in Seq(AgentMessages) /\ request \in [Requests -> [kind : RequestKinds, state : {"unused", "open", "answered", "over"}]]
  BY AgentTypes
<1>1. request[r].state = "open" /\ request' = [request EXCEPT ![r].state = "over"] /\ UNCHANGED <<screen, answers>>
  BY DEF Withdraw, applet, prompts
<1>2. \A s \in Requests : /\ request'[s].kind = request[s].kind
                          /\ request'[s].state = IF s = r THEN "over" ELSE request[s].state
  BY <1>0, <1>1
<1>3. ASSUME NEW s \in Requests
      PROVE  /\ Has(queue', Asks(s)) => Has(queue, Asks(s))
             /\ Has(queue', Cancels(s)) => Has(queue, Cancels(s)) \/ request'[s].state = "over"
             /\ Separated(queue', Asks(s), {}, Asks(s))
  <2>1. Separated(queue, Asks(s), {}, Asks(s))
    BY DEF RequestsOK
  <2>2. CASE UNCHANGED queue
    BY <2>1, <2>2
  <2>3. CASE Sends([kind |-> "cancel", r |-> r])
    <3> DEFINE m == [kind |-> "cancel", r |-> r]
    <3>1. m \in AgentMessages /\ m \notin Asks(s) /\ (m \in Cancels(s) => s = r)
      BY AgentMessagesSent DEF Asks, Cancels
    <3>2. queue' = Append(queue, m)
      BY <2>3 DEF Sends
    <3> HIDE DEF m
    <3>3. Separated(queue', Asks(s), {}, Asks(s))
      BY <1>0, <2>1, <3>1, <3>2, AppendSeparated
    <3> QED
      BY <1>0, <1>2, <3>1, <3>2, <3>3, AppendHas
  <2> QED
    BY <2>2, <2>3, AgentSends
<1> QED
  BY <1>1, <1>2, <1>3 DEF Answering

\* Every step but a request answers.
LEMMA AgentAnswers ==
    ASSUME AgentTyped, RequestsOK, ShownOK, AgentNext,
           \A r \in Requests : \A kind \in RequestKinds : ~Ask(r, kind)
    PROVE  \E rs, ns \in SUBSET Requests : Answering(rs, ns)
<1>1. UNCHANGED queue => QuietQueue
  BY DEF QuietQueue
<1>2. Answering({}, {}) => \E rs, ns \in SUBSET Requests : Answering(rs, ns)
  OBVIOUS
<1>3. UNCHANGED <<request, screen, answers>> /\ QuietQueue => Answering({}, {})
  BY NothingAnswered
<1>4. CancelPrompts /\ QuietQueue => \E rs, ns \in SUBSET Requests : Answering(rs, ns)
  BY CancelAnswers
<1>5. ASSUME NEW r \in Requests, UserAnswers(r)
      PROVE  Answering({r}, {})
  <2>1. r \in screen /\ Reply({r}) /\ screen' = screen \ {r} /\ QuietQueue
    BY <1>1, <1>5 DEF UserAnswers, Take
  <2>2. \A s \in Requests :
        /\ request'[s].kind = request[s].kind
        /\ request'[s].state = IF s \in {r} /\ request[s].state = "open" THEN "answered" ELSE request[s].state
        /\ answers'[s] = IF s \in {r} THEN answers[s] + 1 ELSE answers[s]
    BY <2>1, ReplyTypes
  <2> QED
    BY <2>1, <2>2, QuietAnswers
<1>6. ASSUME NEW r \in Requests, Dismiss(r)
      PROVE  Answering({}, {})
  <2>1. screen' \subseteq screen /\ UNCHANGED <<request, answers, queue>>
    BY <1>6 DEF Dismiss, Take
  <2> QED
    BY <1>1, <2>1, NothingAnswered
<1>7. ASSUME NEW d \in Devices, NEW code \in Codes, DevicePropertyChanges(d) \/ Display(d, code)
      PROVE  Answering({}, {})
  <2>1. UNCHANGED <<request, screen, answers>>
    BY <1>7 DEF DevicePropertyChanges, Display, applet, prompts
  <2> QED
    BY <1>3, <1>7, <2>1, AgentQuiet
<1>8. CASE Stop \/ Start
  <2>1. UNCHANGED <<screen, answers>> /\ (UNCHANGED request \/ request' = AllGivenUp)
    BY <1>8 DEF Stop, Start, applet, prompts
  <2> QED
    BY <1>2, <1>8, <2>1, AgentQuiet, NothingAnswered
<1>9. ASSUME Receive("request")
      PROVE  Head(queue).r \in Requests /\ Head(queue) \in Asks(Head(queue).r) /\ Receives /\ QuietQueue
  <2>1. Head(queue) \in AgentMessages /\ Head(queue).kind = "request" /\ Head(queue).r \in Requests /\ Receives
    BY <1>9, AgentHead
  <2> QED
    BY <1>9, <2>1, AgentMessageKinds, AgentQuiet
<1>10. CASE RefuseRequest \/ PasskeyUnshown \/ ConfirmationUnshown
  <2> DEFINE r == Head(queue).r
  <2>1. Receive("request") /\ Reply({r}) /\ UNCHANGED screen
    BY <1>10 DEF RefuseRequest, PasskeyUnshown, ConfirmationUnshown, prompts
  <2>2. r \in Requests /\ Head(queue) \in Asks(r) /\ Receives /\ QuietQueue
    BY <1>9, <2>1
  <2>3. r \notin screen
    <3>1. Has(queue, Asks(r))
      BY <2>2, AgentTypes, TailOrder DEF Receives
    <3> QED
      BY <2>2, <3>1 DEF RequestsOK
  <2> HIDE DEF r
  <2>4. \A s \in Requests :
        /\ request'[s].kind = request[s].kind
        /\ request'[s].state = IF s \in {r} /\ request[s].state = "open" THEN "answered" ELSE request[s].state
        /\ answers'[s] = IF s \in {r} THEN answers[s] + 1 ELSE answers[s]
    BY <2>1, ReplyTypes
  <2>5. Answering({r}, {})
    BY <2>1, <2>2, <2>3, <2>4, QuietAnswers
  <2> QED
    BY <2>2, <2>5
<1>11. CASE RequestPasskey \/ RequestConfirmation \/ AuthorizeService
  <2> DEFINE r == Head(queue).r
  <2>1. Receive("request") /\ screen' = screen \cup {r} /\ UNCHANGED <<request, answers>>
    BY <1>11 DEF RequestPasskey, RequestConfirmation, AuthorizeService
  <2>2. r \in Requests /\ Head(queue) \in Asks(r) /\ Receives /\ QuietQueue
    BY <1>9, <2>1
  <2> HIDE DEF r
  <2>3. Answering({}, {r})
    BY <2>1, <2>2, QuietAnswers
  <2> QED
    BY <2>2, <2>3
<1>12. CASE DisplayCode \/ DisplayRaises \/ DisplayFails
  <2>1. Receive("display") /\ screen' \subseteq screen /\ UNCHANGED <<request, answers>>
    BY <1>12 DEF DisplayCode, DisplayRaises, DisplayFails, Take, applet, prompts
  <2> QED
    BY <1>2, <2>1, AgentQuiet, NothingAnswered
<1>13. CASE OnCancel \/ OnPropertyChanged \/ OnRelease
  <2>1. \E kind : Receive(kind)
    BY <1>13 DEF OnCancel, OnPropertyChanged, OnRelease
  <2>2. CancelPrompts \/ UNCHANGED <<request, screen, answers>>
    BY <1>13 DEF OnCancel, OnPropertyChanged, OnRelease, prompts
  <2> QED
    BY <1>2, <1>3, <1>4, <2>1, <2>2, AgentQuiet
<1>14. CASE OnUp \/ OnDown
  <2>1. \E kind : Receive(kind)
    BY <1>14 DEF OnUp, OnDown
  <2>2. UNCHANGED <<request, screen, answers>>
    BY <1>14 DEF OnUp, OnDown, prompts
  <2> QED
    BY <1>2, <1>3, <2>1, <2>2, AgentQuiet
<1>15. CASE LoadAuthAgent \/ UnloadAuthAgent
  <2>1. UNCHANGED <<screen, answers, queue>> /\ (UNCHANGED request \/ request' = AllGivenUp)
    BY <1>15 DEF LoadAuthAgent, UnloadAuthAgent, prompts
  <2> QED
    BY <1>1, <1>2, <2>1, NothingAnswered
<1> QED
  <2>1. \A r \in Requests : Withdraw(r) \/ UserAnswers(r) \/ Dismiss(r) => \E rs, ns \in SUBSET Requests : Answering(rs, ns)
    BY <1>2, <1>5, <1>6, WithdrawAnswers
  <2> QED
    BY <2>1, <1>2, <1>7, <1>8, <1>10, <1>11, <1>12, <1>13, <1>14, <1>15 DEF AgentNext, Codes

LEMMA AskTypes ==
    ASSUME AgentTyped, NEW r \in Requests, NEW kind \in RequestKinds, Ask(r, kind)
    PROVE  /\ request[r].state = "unused" /\ bluez.up /\ bluez.knows
           /\ \A s \in Requests : request[s].state # "open"
           /\ \A s \in Requests : /\ s = r => request'[s].kind = kind /\ request'[s].state = "open"
                                  /\ s # r => request'[s] = request[s]
           /\ queue' = Append(queue, [kind |-> "request", r |-> r])
           /\ [kind |-> "request", r |-> r] \in AgentMessages
           /\ UNCHANGED <<bluez, plugin, exported, dialog, note, services, screen, stray, answers>>
<1>1. request \in [Requests -> [kind : RequestKinds, state : {"unused", "open", "answered", "over"}]]
  BY AgentTypes
<1>2. request' = [request EXCEPT ![r] = [kind |-> kind, state |-> "open"]]
  BY DEF Ask
<1>3. \A s \in Requests : /\ s = r => request'[s].kind = kind /\ request'[s].state = "open"
                          /\ s # r => request'[s] = request[s]
  BY <1>1, <1>2
<1>4. UNCHANGED <<bluez, plugin, exported, dialog, note, services, screen, stray, answers>>
  BY DEF Ask, applet, prompts
<1> QED
  BY <1>3, <1>4, AgentMessagesSent DEF Ask, Send, NoneOpen

LEMMA AskKeepsRequests ==
    ASSUME AgentTyped, RequestsOK, NEW r \in Requests, NEW kind \in RequestKinds, Ask(r, kind)
    PROVE  RequestsOK'
<1> DEFINE m == [kind |-> "request", r |-> r]
<1>0. queue \in Seq(AgentMessages)
  BY AgentTypes
<1>1. /\ request[r].state = "unused" /\ \A s \in Requests : request[s].state # "open"
      /\ queue' = Append(queue, m) /\ m \in AgentMessages /\ UNCHANGED <<screen, answers>>
  BY AskTypes
<1>2. \A s \in Requests : /\ s = r => request'[s].state = "open"
                          /\ s # r => request'[s].state = request[s].state
  BY AskTypes
<1>3. \A s \in Requests : (m \in Asks(s) <=> s = r) /\ m \notin Cancels(s)
  BY DEF Asks, Cancels
<1> HIDE DEF m
<1>4. ASSUME NEW s \in Requests
      PROVE  /\ Has(queue', Asks(s)) <=> Has(queue, Asks(s)) \/ s = r
             /\ Has(queue', Cancels(s)) <=> Has(queue, Cancels(s))
             /\ Separated(queue', Asks(s), {}, Asks(s))
  <2>1. Separated(queue, Asks(s), {}, Asks(s)) /\ (s = r => ~Has(queue, Asks(s)))
    BY <1>1 DEF RequestsOK
  <2>2. m \in Asks(s) => Followed(queue, Asks(s), {})
    BY <1>3, <2>1 DEF Has, Followed
  <2>3. Separated(queue', Asks(s), {}, Asks(s))
    BY <1>0, <1>1, <2>1, <2>2, AppendSeparated
  <2> QED
    BY <1>0, <1>1, <1>3, <2>3, AppendHas
<1>5. ASSUME NEW s \in Requests
      PROVE  /\ answers'[s] \in {0, 1}
             /\ request'[s].state \in {"unused", "open"} => answers'[s] = 0
             /\ request'[s].state = "unused" => s \notin screen' /\ ~Has(queue', Asks(s))
             /\ request'[s].state = "answered" => answers'[s] = 1
             /\ s \in screen' \/ Has(queue', Asks(s)) => answers'[s] = 0
             /\ ~(s \in screen' /\ Has(queue', Asks(s)))
             /\ Has(queue', Cancels(s)) => request'[s].state = "over"
  <2>1. /\ answers[s] \in {0, 1}
        /\ request[s].state \in {"unused", "open"} => answers[s] = 0
        /\ request[s].state = "unused" => s \notin screen /\ ~Has(queue, Asks(s))
        /\ request[s].state = "answered" => answers[s] = 1
        /\ s \in screen \/ Has(queue, Asks(s)) => answers[s] = 0
        /\ ~(s \in screen /\ Has(queue, Asks(s)))
        /\ Has(queue, Cancels(s)) => request[s].state = "over"
    BY DEF RequestsOK
  <2>2. UNCHANGED <<screen, answers>>
    BY <1>1
  <2>3. CASE s = r
    BY <1>1, <1>2, <1>4, <2>1, <2>2, <2>3
  <2>4. CASE s # r
    BY <1>2, <1>4, <2>1, <2>2, <2>4
  <2> QED
    BY <2>3, <2>4
<1>6. \A s, t \in Requests : request'[s].state = "open" /\ request'[t].state = "open" => s = t
  BY <1>1, <1>2
<1> QED
  BY <1>4, <1>5, <1>6 DEF RequestsOK

LEMMA RequestsStep ==
    ASSUME AgentTyped, RequestsOK, ShownOK, AgentNext
    PROVE  RequestsOK'
BY AskKeepsRequests, AgentAnswers, AnsweringKeepsRequests

\* What a request that was asked keeps; only a request opens one
LEMMA RequestsKept ==
    ASSUME AgentTyped, RequestsOK, ShownOK, AgentNext
    PROVE  \A r \in Requests :
             /\ request[r].state # "unused" => request'[r].kind = request[r].kind /\ request'[r].state # "unused"
             /\ request'[r].state = "open" => request[r].state = "open" \/ \E kind \in RequestKinds : Ask(r, kind)
             /\ r \in screen \/ Has(queue, Asks(r)) => request[r].state # "unused"
             /\ request[r].kind \in RequestKinds
<1>1. ASSUME NEW s \in Requests, NEW kind \in RequestKinds, Ask(s, kind), NEW r \in Requests
      PROVE  /\ request[r].state # "unused" => request'[r].kind = request[r].kind /\ request'[r].state # "unused"
             /\ request'[r].state = "open" => request[r].state = "open" \/ Ask(r, kind)
  BY <1>1, AskTypes
<1>2. ASSUME NEW rs, NEW ns, Answering(rs, ns), NEW r \in Requests
      PROVE  /\ request[r].state # "unused" => request'[r].kind = request[r].kind /\ request'[r].state # "unused"
             /\ request'[r].state = "open" => request[r].state = "open"
  BY <1>2 DEF Answering
<1>3. \A r \in Requests : /\ r \in screen \/ Has(queue, Asks(r)) => request[r].state # "unused"
                          /\ request[r].kind \in RequestKinds
  BY AgentTypes DEF RequestsOK
<1> QED
  BY <1>1, <1>2, <1>3, AgentAnswers

LEMMA ShownKept ==
    ASSUME AgentTyped, RequestsOK, ShownOK, AgentNext, UNCHANGED <<dialog, note, services, screen, stray>>
    PROVE  ShownOK'
<1>1. /\ NoRequest \notin Requests /\ dialog \in Requests \cup {NoRequest, Unshown}
      /\ services \subseteq Requests /\ screen \subseteq Requests
  BY AgentTypes
<1>2. \A r \in Requests :
        /\ request[r].state # "unused" => request'[r].kind = request[r].kind /\ request'[r].state # "unused"
        /\ r \in screen => request[r].state # "unused"
  BY RequestsKept
<1> QED
  BY <1>1, <1>2 DEF ShownOK, Mine

\* What CancelPrompts leaves on the screen
LEMMA CancelShows ==
    ASSUME AgentTyped, ShownOK, CancelPrompts
    PROVE  /\ dialog' \in {NoRequest, Unshown} /\ Mine' \subseteq Mine
           /\ \A r \in Mine' : request[r].kind # "passkey"
           /\ note # Unshown => /\ note' = NoRequest /\ services' = {}
                              /\ \A r \in Mine' : request[r].kind # "service" /\ note # r
           /\ note = Unshown => UNCHANGED <<note, services>>
<1>0. /\ screen \subseteq Requests /\ dialog \in Requests \cup {NoRequest, Unshown}
      /\ NoRequest \notin Requests /\ Unshown \notin Requests
  BY AgentTypes
<1>1. /\ screen' \subseteq screen \ {dialog}
      /\ note # Unshown => /\ screen' = screen \ ({dialog} \cup Reached) /\ stray' = stray \ ({dialog} \cup Reached)
                         /\ note' = NoRequest /\ services' = {}
      /\ note = Unshown => /\ screen' = screen \ {dialog} /\ stray' = stray \ {dialog}
                         /\ UNCHANGED <<note, services>>
      /\ dialog' = IF dialog \in Requests THEN NoRequest ELSE dialog
  BY DEF CancelPrompts, Take, DestroyedDialog, NoteCloses
<1>2. /\ note # Unshown => Mine' = Mine \ ({dialog} \cup Reached)
      /\ note = Unshown => Mine' = Mine \ {dialog}
  BY <1>1 DEF Mine
<1>3. dialog' \in {NoRequest, Unshown} /\ Mine' \subseteq Mine \ {dialog}
  BY <1>0, <1>1, <1>2
<1>4. \A r \in Mine : r \in Requests /\ (request[r].kind = "passkey" => dialog = r)
                      /\ (request[r].kind = "service" => r \in services)
  BY <1>0 DEF ShownOK, Mine
<1>5. note # Unshown => \A r \in Mine' : request[r].kind # "service" /\ note # r
  BY <1>2, <1>4 DEF Reached
<1> QED
  BY <1>1, <1>3, <1>4, <1>5

LEMMA ShownStep ==
    ASSUME AgentTyped, RequestsOK, ShownOK, AgentNext
    PROVE  ShownOK'
<1>0. /\ NoRequest \notin Requests /\ Code \notin Requests
      /\ Unshown \notin Requests
      /\ dialog \in Requests \cup {NoRequest, Unshown} /\ note \in Requests \cup {NoRequest, Code, Unshown}
      /\ services \subseteq Requests /\ screen \subseteq Requests /\ stray \subseteq screen
  BY AgentTypes
<1>1. \A r \in Requests :
        /\ request[r].state # "unused" => request'[r].kind = request[r].kind /\ request'[r].state # "unused"
        /\ r \in screen \/ Has(queue, Asks(r)) => request[r].state # "unused"
  BY RequestsKept
<1>2. CASE UNCHANGED <<dialog, note, services, screen, stray>>
  BY <1>2, ShownKept
<1>3. CASE CancelPrompts
  <2>1. /\ dialog' \in {NoRequest, Unshown} /\ Mine' \subseteq Mine
        /\ \A r \in Mine' : request[r].kind # "passkey"
        /\ \/ note' = NoRequest /\ services' = {} /\ \A r \in Mine' : request[r].kind # "service"
           \/ UNCHANGED <<note, services>>
    BY <1>3, CancelShows
  <2>2. \A r \in Mine' : r \in Requests /\ r \in screen
    BY <1>0, <2>1 DEF Mine
  <2>3. \A r \in Mine' : request'[r].kind = request[r].kind
    BY <1>1, <2>2
  <2>4. dialog' \notin Requests
    BY <1>0, <2>1
  <2>5. CASE note' = NoRequest /\ services' = {} /\ \A r \in Mine' : request[r].kind # "service"
    BY <1>0, <2>1, <2>2, <2>3, <2>4, <2>5 DEF ShownOK
  <2>6. CASE UNCHANGED <<note, services>>
    BY <1>0, <1>1, <2>1, <2>2, <2>3, <2>4, <2>6 DEF ShownOK
  <2> QED
    BY <2>1, <2>5, <2>6
<1>4. CASE FreshAgent /\ UNCHANGED screen
  BY <1>0, <1>4 DEF FreshAgent, ShownOK, Mine
<1>5. ASSUME NEW r \in Requests, UserAnswers(r)
      PROVE  ShownOK'
  <2>1. /\ dialog' = IF dialog = r THEN NoRequest ELSE dialog
        /\ services' = services \ {r} /\ screen' = screen \ {r} /\ stray' = stray \ {r} /\ note' = note
    BY <1>5 DEF UserAnswers, Take, DestroyedDialog
  <2> QED
    BY <1>0, <1>1, <2>1 DEF ShownOK, Mine
<1>6. ASSUME NEW r \in Requests, Dismiss(r)
      PROVE  ShownOK'
  <2>1. /\ request[r].kind # "passkey"
        /\ screen' = screen \ {r} /\ stray' = stray \ {r} /\ UNCHANGED <<dialog, note, services>>
    BY <1>6 DEF Dismiss, Take
  <2> QED
    BY <1>0, <1>1, <2>1 DEF ShownOK, Mine
<1>7. ASSUME Receive("request")
      PROVE  /\ Head(queue).r \in Requests /\ Head(queue).r \notin screen
             /\ request[Head(queue).r].state # "unused"
  <2>1. Head(queue).r \in Requests /\ Has(queue, Asks(Head(queue).r))
    BY <1>7, AgentHead, AgentMessageKinds, AgentTypes, TailOrder DEF Receives
  <2> QED
    BY <1>1, <2>1 DEF RequestsOK
<1>8. CASE RequestPasskey
  <2> DEFINE r == Head(queue).r
  <2>1. /\ request[r].kind = "passkey" /\ dialog = NoRequest /\ dialog' = r /\ screen' = screen \cup {r}
        /\ UNCHANGED <<note, services, stray>>
    BY <1>8 DEF RequestPasskey, NoDialog
  <2>2. r \in Requests /\ r \notin screen /\ request[r].state # "unused"
    BY <1>7, <1>8 DEF RequestPasskey
  <2> HIDE DEF r
  <2> QED
    BY <1>0, <1>1, <2>1, <2>2 DEF ShownOK, Mine
<1>9. CASE RequestConfirmation
  <2> DEFINE r == Head(queue).r
  <2>1. /\ request[r].kind = "confirm" /\ note' = r /\ screen' = screen \cup {r}
        /\ UNCHANGED <<dialog, services, stray>>
    BY <1>9 DEF RequestConfirmation
  <2>2. r \in Requests /\ r \notin screen /\ request[r].state # "unused"
    BY <1>7, <1>9 DEF RequestConfirmation
  <2> HIDE DEF r
  <2> QED
    BY <1>0, <1>1, <2>1, <2>2 DEF ShownOK, Mine
<1>10. CASE AuthorizeService
  <2> DEFINE r == Head(queue).r
  <2>1. /\ request[r].kind = "service" /\ services' = services \cup {r} /\ screen' = screen \cup {r}
        /\ UNCHANGED <<dialog, note, stray>>
    BY <1>10 DEF AuthorizeService
  <2>2. r \in Requests /\ r \notin screen /\ request[r].state # "unused"
    BY <1>7, <1>10 DEF AuthorizeService
  <2> HIDE DEF r
  <2> QED
    BY <1>0, <1>1, <2>1, <2>2 DEF ShownOK, Mine
<1>17. CASE PasskeyUnshown \/ ConfirmationUnshown
  <2>1. dialog' \in {dialog, Unshown} /\ note' \in {note, Unshown} /\ UNCHANGED <<services, screen, stray>>
        /\ (dialog' = dialog \/ dialog = NoRequest)
    BY <1>17 DEF PasskeyUnshown, ConfirmationUnshown, NoDialog
  <2> QED
    BY <1>0, <1>1, <2>1 DEF ShownOK, Mine
<1>11. CASE DisplayCode
  <2>1. dialog' = dialog /\ note' \in {note, Code, Unshown}
    BY <1>11 DEF DisplayCode
  <2>2. CASE Head(queue).code = "passkey"
    <3>1. screen' = screen \ Reached /\ stray' = stray \ Reached /\ services' = {}
      BY <1>11, <2>2 DEF DisplayCode, Take
    <3>2. Mine' = Mine \ Reached /\ dialog \notin Reached /\ services \subseteq Reached
      BY <1>0, <3>1 DEF Mine, Reached, ShownOK
    <3> QED
      BY <1>0, <1>1, <2>1, <3>1, <3>2 DEF ShownOK, Mine
  <2>3. CASE Head(queue).code # "passkey"
    <3>1. UNCHANGED <<screen, stray, services>>
      BY <1>11, <2>3 DEF DisplayCode
    <3> QED
      BY <1>0, <1>1, <2>1, <3>1 DEF ShownOK, Mine
  <2> QED
    BY <2>2, <2>3
<1>12. \A r \in Requests : \/ \E kind \in RequestKinds : Ask(r, kind)
                           \/ Withdraw(r)
                           => UNCHANGED <<dialog, note, services, screen, stray>>
  BY DEF Ask, Withdraw, applet, prompts
<1>13. \A d \in Devices : DevicePropertyChanges(d) \/ (\E code \in Codes : Display(d, code))
                           => UNCHANGED <<dialog, note, services, screen, stray>>
  BY DEF DevicePropertyChanges, Display, applet, prompts
<1>14. Stop \/ Start \/ RefuseRequest \/ DisplayRaises \/ DisplayFails \/ OnDown \/ UnloadAuthAgent
         => UNCHANGED <<dialog, note, services, screen, stray>>
  BY DEF Stop, Start, RefuseRequest, DisplayRaises, DisplayFails, OnDown, UnloadAuthAgent, applet, prompts
<1>15. OnCancel \/ OnPropertyChanged \/ OnRelease
         => CancelPrompts \/ UNCHANGED <<dialog, note, services, screen, stray>>
  BY DEF OnCancel, OnPropertyChanged, OnRelease, prompts
<1>16. OnUp \/ LoadAuthAgent
         => (FreshAgent /\ UNCHANGED screen) \/ UNCHANGED <<dialog, note, services, screen, stray>>
  BY DEF OnUp, LoadAuthAgent, Register, prompts
<1> QED
  BY <1>2, <1>3, <1>4, <1>5, <1>6, <1>8, <1>9, <1>10, <1>11, <1>12, <1>13, <1>14, <1>15, <1>16, <1>17 DEF AgentNext

LEMMA HidingFollowed ==
    ASSUME NEW q \in Seq(AgentMessages), NEW m \in AgentMessages, NEW r \in Requests,
           Followed(q, Hiding(r), Asks(r)), m \notin Hiding(r)
    PROVE  Followed(Append(q, m), Hiding(r), Asks(r))
BY AppendFollowed

LEMMA AgentQuietQueue ==
    ASSUME AgentTyped, AgentNext,
           \A s \in Requests : ~Withdraw(s) /\ \A kind \in RequestKinds : ~Ask(s, kind)
    PROVE  QuietQueue
<1>1. UNCHANGED queue => QuietQueue
  BY DEF QuietQueue
<1>2. RefuseRequest \/ RequestPasskey \/ PasskeyUnshown \/ RequestConfirmation \/ ConfirmationUnshown
      \/ AuthorizeService \/ DisplayCode \/ DisplayRaises \/ DisplayFails
      \/ OnCancel \/ OnPropertyChanged \/ OnRelease \/ OnUp \/ OnDown => QuietQueue
  BY AgentQuiet DEF RefuseRequest, RequestPasskey, PasskeyUnshown, RequestConfirmation, ConfirmationUnshown,
     AuthorizeService, DisplayCode, DisplayRaises, DisplayFails, OnCancel, OnPropertyChanged, OnRelease, OnUp, OnDown
<1>3. \A d \in Devices : DevicePropertyChanges(d) \/ (\E code \in Codes : Display(d, code)) => QuietQueue
  BY AgentQuiet DEF Codes
<1>4. \A s \in Requests : UserAnswers(s) \/ Dismiss(s) => QuietQueue
  BY <1>1, AgentQuiet
<1>5. Stop \/ Start \/ LoadAuthAgent \/ UnloadAuthAgent => QuietQueue
  BY <1>1, AgentQuiet
<1> QED
  BY <1>2, <1>3, <1>4, <1>5 DEF AgentNext

LEMMA HidingOrderStep ==
    ASSUME AgentTyped, RequestsOK, ShownOK, HidingOrder, AgentNext
    PROVE  HidingOrder'
<1>0. queue \in Seq(AgentMessages)
  BY AgentTypes
<1>1. \A r \in Requests : request'[r].state = "open" =>
        request[r].state = "open" \/ \E kind \in RequestKinds : Ask(r, kind)
  BY RequestsKept
<1>2. ASSUME NEW s \in Requests, NEW kind \in RequestKinds, Ask(s, kind), NEW r \in Requests
      PROVE  /\ Separated(queue', Hiding(r), Asks(r), Cancels(r))
             /\ request'[r].state = "open" => Followed(queue', Hiding(r), Asks(r))
  <2> DEFINE m == [kind |-> "request", r |-> s]
  <2>1. /\ queue' = Append(queue, m) /\ m \in AgentMessages
        /\ \A t \in Requests : request[t].state # "open" /\ (t # s => request'[t] = request[t])
    BY <1>2, AskTypes
  <2>2. m \notin Cancels(r) /\ (m \in Asks(r) <=> r = s) /\ (r = s => m \notin Hiding(r))
    BY <2>1, AgentMessageKinds
  <2> HIDE DEF m
  <2>3. Separated(queue', Hiding(r), Asks(r), Cancels(r))
    BY <1>0, <2>1, <2>2, AppendSeparated DEF HidingOrder
  <2>4. request'[r].state = "open" => r = s
    BY <2>1
  <2>5. r = s => Followed(queue', Hiding(r), Asks(r))
    BY <1>0, <2>1, <2>2, AppendFollowed
  <2> QED
    BY <2>3, <2>4, <2>5
<1>3. ASSUME NEW s \in Requests, Withdraw(s), NEW r \in Requests
      PROVE  /\ Separated(queue', Hiding(r), Asks(r), Cancels(r))
             /\ request'[r].state = "open" => Followed(queue', Hiding(r), Asks(r))
  <2> DEFINE m == [kind |-> "cancel", r |-> s]
  <2>1. request[s].state = "open" /\ (UNCHANGED queue \/ queue' = Append(queue, m)) /\ m \in AgentMessages
    BY <1>3, AgentMessagesSent DEF Withdraw, Send
  <2>2. (m \in Cancels(r) => r = s) /\ m \notin Hiding(r)
    BY <2>1, AgentMessageKinds
  <2> HIDE DEF m
  <2>3. Separated(queue, Hiding(r), Asks(r), Cancels(r))
        /\ (request[r].state = "open" => Followed(queue, Hiding(r), Asks(r)))
    BY DEF HidingOrder
  <2>4. \A kind \in RequestKinds : ~Ask(r, kind)
    BY <2>1, AskTypes
  <2>5. queue' = Append(queue, m) => Separated(queue', Hiding(r), Asks(r), Cancels(r))
    BY <1>0, <2>1, <2>2, <2>3, AppendSeparated
  <2>6. request[r].state = "open" /\ queue' = Append(queue, m) => Followed(queue', Hiding(r), Asks(r))
    BY <1>0, <2>1, <2>2, <2>3, HidingFollowed
  <2> QED
    BY <1>1, <2>1, <2>3, <2>4, <2>5, <2>6
<1>4. ASSUME QuietQueue, \A s \in Requests : \A kind \in RequestKinds : ~Ask(s, kind), NEW r \in Requests,
             request[r].state = "open" => Followed(queue', Hiding(r), Asks(r))
      PROVE  /\ Separated(queue', Hiding(r), Asks(r), Cancels(r))
             /\ request'[r].state = "open" => Followed(queue', Hiding(r), Asks(r))
  BY <1>1, <1>4, QuietSteps DEF HidingOrder
<1>5. (\A s \in Requests : ~Withdraw(s) /\ \A kind \in RequestKinds : ~Ask(s, kind)) => QuietQueue
  BY AgentQuietQueue
<1>6. ASSUME NEW r \in Requests, request[r].state = "open",
             \A s \in Requests : ~Withdraw(s) /\ \A kind \in RequestKinds : ~Ask(s, kind)
      PROVE  Followed(queue', Hiding(r), Asks(r))
  <2>1. Followed(queue, Hiding(r), Asks(r))
    BY <1>6 DEF HidingOrder
  <2>2. CASE UNCHANGED queue
    BY <2>1, <2>2
  <2>3. CASE Receives
    BY <1>0, <2>1, <2>3, TailOrder DEF Receives
  <2>4. ASSUME NEW m \in AgentMessages, Sends(m), m \notin Hiding(r)
        PROVE  Followed(queue', Hiding(r), Asks(r))
    BY <1>0, <2>1, <2>4, HidingFollowed DEF Sends
  <2>5. CASE SendsTwo([kind |-> "release"], [kind |-> "down"])
    <3> DEFINE m == [kind |-> "release"]
               n == [kind |-> "down"]
    <3>1. m \in AgentMessages /\ n \in AgentMessages
      BY AgentMessagesSent
    <3>2. m \notin Hiding(r) /\ n \notin Hiding(r)
      BY <3>1, AgentMessageKinds
    <3>3. queue' = Append(Append(queue, m), n)
      BY <2>5 DEF SendsTwo
    <3> HIDE DEF m, n
    <3>4. Append(queue, m) \in Seq(AgentMessages) /\ Followed(Append(queue, m), Hiding(r), Asks(r))
      BY <1>0, <2>1, <3>1, <3>2, HidingFollowed, Appending
    <3> QED
      BY <3>1, <3>2, <3>3, <3>4, HidingFollowed
  <2>6. ASSUME NEW d \in Devices, NEW code \in Codes, Display(d, code)
        PROVE  Followed(queue', Hiding(r), Asks(r))
    <3> DEFINE m == [kind |-> "display", dev |-> d, code |-> code]
    <3>1. m \in AgentMessages /\ Sends(m)
      BY <2>6, AgentSends, AgentMessagesSent
    <3>2. code # "pin"
      BY <1>6, <2>6 DEF Display, NoneOpen
    <3>3. m \notin Hiding(r)
      BY <3>1, <3>2, AgentMessageKinds
    <3> QED
      BY <2>4, <3>1, <3>3
  <2>7. ASSUME NEW d \in Devices, DevicePropertyChanges(d)
        PROVE  Followed(queue', Hiding(r), Asks(r))
    <3> DEFINE m == [kind |-> "property", dev |-> d]
    <3>1. m \in AgentMessages /\ Sends(m)
      BY <2>7, AgentSends, AgentMessagesSent
    <3>2. m \notin Hiding(r)
      BY <3>1, AgentMessageKinds
    <3> QED
      BY <2>4, <3>1, <3>2
  <2>8. CASE Stop \/ Start
    <3>1. [kind |-> "up"] \notin Hiding(r) /\ [kind |-> "down"] \notin Hiding(r)
      BY AgentMessagesSent, AgentMessageKinds
    <3> QED
      BY <2>4, <2>5, <2>8, <3>1, AgentSends, AgentMessagesSent
  <2>9. ASSUME NEW s \in Requests, UserAnswers(s) \/ Dismiss(s)
        PROVE  UNCHANGED queue
    BY <2>9 DEF UserAnswers, Dismiss
  <2>10. CASE LoadAuthAgent \/ UnloadAuthAgent
    BY <2>2, <2>10 DEF LoadAuthAgent, UnloadAuthAgent
  <2>11. RefuseRequest \/ RequestPasskey \/ PasskeyUnshown \/ RequestConfirmation \/ ConfirmationUnshown
         \/ AuthorizeService \/ DisplayCode \/ DisplayRaises \/ DisplayFails
         \/ OnCancel \/ OnPropertyChanged \/ OnRelease \/ OnUp \/ OnDown => Receives
    BY DEF RefuseRequest, RequestPasskey, PasskeyUnshown, RequestConfirmation, ConfirmationUnshown,
       AuthorizeService, DisplayCode, DisplayRaises, DisplayFails, OnCancel, OnPropertyChanged, OnRelease, OnUp, OnDown, Receive, Receives
  <2> QED
    BY <1>6, <2>2, <2>3, <2>6, <2>7, <2>8, <2>9, <2>10, <2>11 DEF AgentNext
<1> QED
  BY <1>1, <1>2, <1>3, <1>4, <1>5, <1>6 DEF HidingOrder

\* When what hides a notification comes, the request is still to come if it can be cancelled.
LEMMA HiddenIsOver ==
    ASSUME AgentTyped, RequestsOK, HidingOrder, Receives, NEW r \in Requests, r \in screen, Head(queue) \in Hiding(r)
    PROVE  request[r].state # "open" /\ ~Has(queue', Cancels(r))
<1>1. queue \in Seq(AgentMessages) /\ queue # <<>> /\ queue' = Tail(queue)
  BY AgentTypes DEF Receives
<1>2. ~Has(Tail(queue), Asks(r))
  <2>1. ~Has(queue, Asks(r))
    BY DEF RequestsOK
  <2> QED
    BY <1>1, <2>1, TailOrder
<1>3. request[r].state # "open"
  <2>1. ~Followed(queue, Hiding(r), Asks(r))
    BY <1>1, <1>2, TailOrder
  <2> QED
    BY <2>1 DEF HidingOrder
<1>4. Preceded(Tail(queue), Asks(r), Cancels(r))
  <2>1. Separated(queue, Hiding(r), Asks(r), Cancels(r))
    BY DEF HidingOrder
  <2> QED
    BY <1>1, <2>1, TailOrder
<1> QED
  BY <1>1, <1>2, <1>3, <1>4 DEF Preceded, Has

LEMMA NoteStep ==
    ASSUME AgentTyped, RequestsOK, ShownOK, NoteOK, HidingOrder, AgentNext
    PROVE  NoteOK'
<1>0. screen \subseteq Requests /\ queue \in Seq(AgentMessages) /\ NoRequest \notin Requests /\ Code \notin Requests
  BY AgentTypes
<1>1. \A r \in Requests :
        /\ request[r].state # "unused" => request'[r].kind = request[r].kind /\ request'[r].state # "unused"
        /\ r \in screen => request[r].state # "unused"
  BY RequestsKept
<1>2. \A r \in Mine : r \in Requests /\ r \in screen /\ request'[r].kind = request[r].kind
  BY <1>0, <1>1 DEF Mine
<1>3. ASSUME \A s \in Requests : ~Withdraw(s), NEW r \in Mine
      PROVE  /\ request'[r].state = "open" => request[r].state = "open"
             /\ Has(queue', Cancels(r)) => Has(queue, Cancels(r))
  <2>1. request'[r].state = "open" => request[r].state = "open"
    <3>1. \A kind \in RequestKinds : Ask(r, kind) => request[r].state = "unused"
      BY <1>2, AskTypes
    <3> QED
      BY <1>1, <1>2, <3>1, RequestsKept
  <2>2. ASSUME NEW s \in Requests, NEW kind \in RequestKinds, Ask(s, kind)
        PROVE  Has(queue', Cancels(r)) => Has(queue, Cancels(r))
    <3> DEFINE m == [kind |-> "request", r |-> s]
    <3>1. queue' = Append(queue, m) /\ m \in AgentMessages
      BY <2>2, AskTypes
    <3>2. m \notin Cancels(r)
      BY DEF Cancels
    <3> HIDE DEF m
    <3> QED
      BY <1>0, <3>1, <3>2, AppendHas
  <2>3. CASE \A s \in Requests : \A kind \in RequestKinds : ~Ask(s, kind)
    <3>1. QuietQueue
      BY <1>3, <2>3, AgentQuietQueue
    <3> QED
      BY <1>2, <2>1, <3>1, QuietSteps
  <2> QED
    BY <2>1, <2>2, <2>3
<1>4. ASSUME NEW s \in Requests, Withdraw(s)
      PROVE  NoteOK'
  <2>1. /\ request[s].state = "open" /\ UNCHANGED <<note, screen, stray>>
        /\ request' = [request EXCEPT ![s].state = "over"]
        /\ UNCHANGED queue \/ Sends([kind |-> "cancel", r |-> s])
    BY <1>4, AgentSends DEF Withdraw, applet, prompts
  <2>2. ASSUME NEW r \in Mine, request[r].kind = "confirm", r # s
        PROVE  note = r \/ (request'[r].state # "open" /\ ~Has(queue', Cancels(r)))
    <3>1. note = r \/ (request[r].state # "open" /\ ~Has(queue, Cancels(r)))
      BY <2>2 DEF NoteOK
    <3>2. request'[r] = request[r]
      BY <1>2, <2>1, <2>2, AgentTypes
    <3>3. Has(queue', Cancels(r)) => Has(queue, Cancels(r))
      <4> DEFINE m == [kind |-> "cancel", r |-> s]
      <4>1. m \notin Cancels(r)
        BY <2>2 DEF Cancels
      <4>2. UNCHANGED queue \/ (m \in AgentMessages /\ queue' = Append(queue, m))
        BY <2>1 DEF Sends
      <4> HIDE DEF m
      <4> QED
        BY <1>0, <4>1, <4>2, AppendHas
    <3> QED
      BY <3>1, <3>2, <3>3
  <2>3. s \in Mine /\ request[s].kind = "confirm" => note = s
    BY <2>1 DEF NoteOK
  <2>4. Mine' = Mine
    BY <2>1 DEF Mine
  <2> QED
    BY <1>2, <2>1, <2>2, <2>3, <2>4 DEF NoteOK
<1>5. ASSUME \A s \in Requests : ~Withdraw(s), UNCHANGED note,
             \A r \in Mine' : r \in Mine \/ request'[r].kind # "confirm"
      PROVE  NoteOK'
  BY <1>2, <1>3, <1>5 DEF NoteOK
<1>6. ASSUME \A s \in Requests : ~Withdraw(s), CancelPrompts
      PROVE  NoteOK'
  <2>1. Mine' \subseteq Mine /\ \A r \in Mine' : note # r
    BY <1>2, <1>6, CancelShows, AgentTypes
  <2> QED
    BY <1>2, <1>3, <1>6, <2>1 DEF NoteOK
<1>7. ASSUME FreshAgent, UNCHANGED screen
      PROVE  NoteOK'
  BY <1>7 DEF FreshAgent, NoteOK, Mine
<1>8. ASSUME NEW r \in Requests, UserAnswers(r) \/ Dismiss(r)
      PROVE  UNCHANGED note /\ Mine' \subseteq Mine
  BY <1>8 DEF UserAnswers, Dismiss, Take, Mine
<1>9. ASSUME Receive("request")
      PROVE  /\ Receives /\ Head(queue).r \in Requests
             /\ request'[Head(queue).r].kind = request[Head(queue).r].kind
             /\ \A r \in Requests : r # Head(queue).r => Head(queue) \in Hiding(r)
  <2>1. /\ Receives /\ Head(queue) \in AgentMessages /\ Head(queue).kind = "request" /\ Head(queue).r \in Requests
        /\ \A r \in Requests : r # Head(queue).r => Head(queue) \in Hiding(r)
    BY <1>9, AgentHead, AgentMessageKinds
  <2>2. Has(queue, Asks(Head(queue).r))
    BY <2>1, AgentMessageKinds, AgentTypes, TailOrder DEF Receives
  <2> QED
    BY <2>1, <2>2, RequestsKept
<1>10. CASE RequestPasskey \/ AuthorizeService
  <2> DEFINE r == Head(queue).r
  <2>1. UNCHANGED <<note, stray>> /\ screen' = screen \cup {r} /\ request[r].kind # "confirm" /\ Receive("request")
    BY <1>10 DEF RequestPasskey, AuthorizeService
  <2>2. request'[r].kind # "confirm"
    BY <1>9, <2>1
  <2> HIDE DEF r
  <2>3. Mine' \subseteq Mine \cup {r}
    BY <2>1 DEF Mine
  <2>4. NoteOK' \/ \E s \in Requests : Withdraw(s)
    BY <1>5, <2>1, <2>2, <2>3
  <2> QED
    BY <1>4, <2>4
<1>11. CASE RequestConfirmation
  <2> DEFINE r == Head(queue).r
  <2>1. note' = r /\ screen' = screen \cup {r} /\ UNCHANGED <<request, stray>> /\ Receive("request")
    BY <1>11 DEF RequestConfirmation
  <2>2. ASSUME NEW s \in Mine, s # r
        PROVE  request[s].state # "open" /\ ~Has(queue', Cancels(s))
    BY <1>2, <1>9, <2>1, <2>2, HiddenIsOver
  <2> HIDE DEF r
  <2>3. Mine' \subseteq Mine \cup {r}
    BY <2>1 DEF Mine
  <2> QED
    BY <2>1, <2>2, <2>3 DEF NoteOK
<1>20. CASE ConfirmationUnshown
  <2> DEFINE r == Head(queue).r
  <2>1. note' = Unshown /\ UNCHANGED <<screen, stray>> /\ Receive("request")
    BY <1>20 DEF ConfirmationUnshown
  <2>2. Mine' = Mine
    BY <2>1 DEF Mine
  <2>3. r \notin Mine
    <3>1. r \in Requests /\ Has(queue, Asks(r))
      BY <2>1, AgentHead, AgentMessageKinds, AgentTypes, TailOrder DEF Receives
    <3> QED
      BY <3>1 DEF RequestsOK, Mine
  <2>4. ASSUME NEW s \in Mine
        PROVE  request[s].state # "open" /\ ~Has(queue', Cancels(s))
    BY <1>2, <1>9, <2>1, <2>3, <2>4, HiddenIsOver
  <2>5. \A s \in Requests : ~Withdraw(s)
    <3> SUFFICES ASSUME NEW s \in Requests, Withdraw(s) PROVE FALSE
      OBVIOUS
    <3>1. UNCHANGED note /\ (UNCHANGED queue \/ queue' = Append(queue, [kind |-> "cancel", r |-> s]))
      BY DEF Withdraw, Send, applet, prompts
    <3>2. [kind |-> "cancel", r |-> s] \in AgentMessages
      BY AgentMessagesSent
    <3>3. Len(queue') = Len(queue) \/ Len(queue') = Len(queue) + 1
      BY <1>0, <3>1, <3>2
    <3> QED
      BY <1>0, <2>1, <3>3 DEF Receive
  <2> QED
    BY <1>2, <1>3, <2>2, <2>4, <2>5 DEF NoteOK
<1>12. CASE DisplayCode
  <2>1. UNCHANGED request /\ Receive("display") /\ QuietQueue
    BY <1>12, AgentQuiet DEF DisplayCode
  <2>2. Receives /\ Head(queue) \in AgentMessages /\ Head(queue).kind = "display" /\ Head(queue).code \in Codes
    BY <2>1, AgentHead
  <2>3. \A r \in Mine : Has(queue', Cancels(r)) => Has(queue, Cancels(r))
    BY <1>2, <2>1, QuietSteps
  <2>4. CASE Head(queue).code = "passkey"
    <3>1. Mine' = Mine \ Reached
      BY <1>12, <2>4 DEF DisplayCode, Take, Mine
    <3>2. \A r \in Mine' : r \in Mine /\ note # r
      BY <1>2, <3>1 DEF Reached
    <3> QED
      BY <2>1, <2>3, <3>2 DEF NoteOK
  <2>5. Head(queue).code # "typed"
    BY <1>12 DEF DisplayCode
  <2>6. CASE Head(queue).code = "pin"
    <3>1. UNCHANGED <<screen, stray>>
      BY <1>12, <2>6 DEF DisplayCode
    <3>2. \A r \in Mine : request[r].state # "open" /\ ~Has(queue', Cancels(r))
      BY <1>2, <2>2, <2>6, AgentMessageKinds, HiddenIsOver
    <3> QED
      BY <2>1, <3>1, <3>2 DEF NoteOK, Mine
  <2> QED
    BY <2>2, <2>4, <2>5, <2>6 DEF Codes
<1>13. \A r \in Requests : (\E kind \in RequestKinds : Ask(r, kind)) => UNCHANGED <<note, screen, stray>>
  BY DEF Ask, applet, prompts
<1>14. \A d \in Devices : DevicePropertyChanges(d) \/ (\E code \in Codes : Display(d, code))
         => UNCHANGED <<note, screen, stray>>
  BY DEF DevicePropertyChanges, Display, applet, prompts
<1>15. Stop \/ Start \/ RefuseRequest \/ PasskeyUnshown \/ DisplayRaises \/ DisplayFails \/ OnDown \/ UnloadAuthAgent
         => UNCHANGED <<note, screen, stray>>
  BY DEF Stop, Start, RefuseRequest, PasskeyUnshown, DisplayRaises, DisplayFails, OnDown, UnloadAuthAgent, applet, prompts
<1>16. OnCancel \/ OnPropertyChanged \/ OnRelease => CancelPrompts \/ UNCHANGED <<note, screen, stray>>
  BY DEF OnCancel, OnPropertyChanged, OnRelease, prompts
<1>17. OnUp \/ LoadAuthAgent => (FreshAgent /\ UNCHANGED screen) \/ UNCHANGED <<note, screen, stray>>
  BY DEF OnUp, LoadAuthAgent, Register, prompts
<1>18. UNCHANGED <<note, screen, stray>> /\ (\A s \in Requests : ~Withdraw(s)) => NoteOK'
  <2>1. UNCHANGED <<screen, stray>> => Mine' = Mine
    BY DEF Mine
  <2> QED
    BY <1>5, <2>1
<1>19. (\E r \in Requests : UserAnswers(r) \/ Dismiss(r)) /\ (\A s \in Requests : ~Withdraw(s)) => NoteOK'
  BY <1>5, <1>8
<1> QED
  <2>1. CASE \E s \in Requests : Withdraw(s)
    BY <1>4, <2>1
  <2>2. CASE \A s \in Requests : ~Withdraw(s)
    BY <1>6, <1>7, <1>10, <1>11, <1>12, <1>13, <1>14, <1>15, <1>16, <1>17, <1>18, <1>19, <1>20, <2>2 DEF AgentNext
  <2> QED
    BY <2>1, <2>2

\* Whether bluetoothd runs, and what is on its way about it
RunTold(q, runs) ==
    /\ runs => Followed(q, Downs, Ups)
    /\ ~runs => Followed(q, Ups, Downs)
    /\ Followed(q, Releases, Downs)

LEMMA ToldAppends ==
    ASSUME NEW q \in Seq(AgentMessages), NEW m \in AgentMessages, NEW runs \in BOOLEAN, RunTold(q, runs),
           m.kind \notin {"up", "down", "release"}
    PROVE  /\ RunTold(Append(q, m), runs)
           /\ Has(Append(q, m), Downs) <=> Has(q, Downs)
           /\ Has(Append(q, m), Ups \cup Downs) <=> Has(q, Ups \cup Downs)
<1>1. m \notin Ups /\ m \notin Downs /\ m \notin Releases
  BY AgentMessageKinds
<1>2. /\ Followed(q, Downs, Ups) => Followed(Append(q, m), Downs, Ups)
      /\ Followed(q, Ups, Downs) => Followed(Append(q, m), Ups, Downs)
      /\ Followed(q, Releases, Downs) => Followed(Append(q, m), Releases, Downs)
  BY <1>1, AppendFollowed
<1>3. /\ Has(Append(q, m), Downs) <=> Has(q, Downs)
      /\ Has(Append(q, m), Ups \cup Downs) <=> Has(q, Ups \cup Downs)
  BY <1>1, AppendHas
<1> QED
  BY <1>2, <1>3 DEF RunTold

LEMMA ToldTails ==
    ASSUME NEW q \in Seq(AgentMessages), q # <<>>, NEW runs \in BOOLEAN, RunTold(q, runs)
    PROVE  /\ RunTold(Tail(q), runs)
           /\ Has(Tail(q), Ups \cup Downs) <=> Has(Tail(q), Ups) \/ Has(Tail(q), Downs)
           /\ Has(q, Ups \cup Downs) <=> Head(q) \in Ups \cup Downs \/ Has(Tail(q), Ups \cup Downs)
           /\ Has(q, Downs) <=> Head(q) \in Downs \/ Has(Tail(q), Downs)
           /\ Head(q) \in Downs /\ runs => Has(Tail(q), Ups)
           /\ Head(q) \in Ups /\ ~runs => Has(Tail(q), Downs)
           /\ Head(q) \in Releases => Has(Tail(q), Downs)
<1>1. /\ Followed(q, Downs, Ups) => Followed(Tail(q), Downs, Ups) /\ (Head(q) \in Downs => Has(Tail(q), Ups))
      /\ Followed(q, Ups, Downs) => Followed(Tail(q), Ups, Downs) /\ (Head(q) \in Ups => Has(Tail(q), Downs))
      /\ Followed(q, Releases, Downs) => Followed(Tail(q), Releases, Downs) /\ (Head(q) \in Releases => Has(Tail(q), Downs))
  BY TailOrder
<1>2. /\ Has(q, Ups \cup Downs) <=> Head(q) \in Ups \cup Downs \/ Has(Tail(q), Ups \cup Downs)
      /\ Has(q, Downs) <=> Head(q) \in Downs \/ Has(Tail(q), Downs)
  BY TailOrder
<1>3. Has(Tail(q), Ups \cup Downs) <=> Has(Tail(q), Ups) \/ Has(Tail(q), Downs)
  BY DEF Has
<1> QED
  BY <1>1, <1>2, <1>3 DEF RunTold

\* The plugin, its agent and bluetoothd
Service(runs, knows) ==
    /\ plugin.has <=> plugin.loaded /\ plugin.state
    /\ exported = "agent" => plugin.has
    /\ knows => runs
Awaited(q, runs, knows) ==
    /\ ~Has(q, Ups \cup Downs) => (plugin.state <=> runs)
    /\ plugin.has /\ exported = "nobody" => Has(q, Downs)
    /\ exported = "agent" /\ ~knows => Has(q, Downs)

LEMMA ServedParts ==
    ServedOK <=> /\ Service(bluez.up, bluez.knows) /\ RunTold(queue, bluez.up)
                 /\ Awaited(queue, bluez.up, bluez.knows)
BY DEF ServedOK, Service, RunTold, Awaited

LEMMA StopServed ==
    ASSUME AgentTyped, ServedOK, Stop
    PROVE  ServedOK'
<1>0. queue \in Seq(AgentMessages) /\ bluez \in [up : BOOLEAN, knows : BOOLEAN, starts : 0 .. MaxStarts]
  BY AgentTypes
<1>1. /\ bluez.up /\ ~bluez'.up /\ ~bluez'.knows /\ UNCHANGED <<plugin, exported>>
      /\ SendsTwo([kind |-> "release"], [kind |-> "down"]) \/ Sends([kind |-> "down"])
  BY <1>0, AgentSends DEF Stop, applet
<1>2. \E q \in Seq(AgentMessages) : queue' = Append(q, [kind |-> "down"])
  BY <1>0, <1>1, Appending DEF SendsTwo, Sends
<1>3. PICK q \in Seq(AgentMessages) : queue' = Append(q, [kind |-> "down"])
  BY <1>2
<1>4. /\ [kind |-> "down"] \in AgentMessages /\ [kind |-> "down"] \in Downs
      /\ [kind |-> "down"] \notin Ups /\ [kind |-> "down"] \notin Releases
  BY AgentMessagesSent, AgentMessageKinds
<1>5. Followed(queue', Ups, Downs) /\ Followed(queue', Releases, Downs)
  BY <1>3, <1>4, AppendFollowed
<1>6. Has(queue', Downs) /\ Has(queue', Ups \cup Downs)
  BY <1>3, <1>4, AppendHas
<1> QED
  BY <1>1, <1>5, <1>6 DEF ServedOK

LEMMA StartServed ==
    ASSUME AgentTyped, ServedOK, Start
    PROVE  ServedOK'
<1>0. queue \in Seq(AgentMessages) /\ bluez \in [up : BOOLEAN, knows : BOOLEAN, starts : 0 .. MaxStarts]
  BY AgentTypes
<1>1. /\ ~bluez.up /\ bluez'.up /\ bluez'.knows = bluez.knows /\ UNCHANGED <<plugin, exported>>
      /\ queue' = Append(queue, [kind |-> "up"])
  BY <1>0, AgentSends DEF Start, applet, Sends
<1>2. /\ [kind |-> "up"] \in AgentMessages /\ [kind |-> "up"] \in Ups
      /\ [kind |-> "up"] \notin Downs /\ [kind |-> "up"] \notin Releases
  BY AgentMessagesSent, AgentMessageKinds
<1>3. Followed(queue', Downs, Ups) /\ Followed(queue', Releases, Downs)
  BY <1>0, <1>1, <1>2, AppendFollowed DEF ServedOK
<1>4. Has(queue', Ups \cup Downs) /\ (Has(queue', Downs) <=> Has(queue, Downs))
  BY <1>0, <1>1, <1>2, AppendHas
<1> QED
  BY <1>1, <1>3, <1>4 DEF ServedOK

LEMMA ServedStep ==
    ASSUME AgentTyped, ServedOK, AgentNext
    PROVE  ServedOK'
<1>0. /\ queue \in Seq(AgentMessages) /\ bluez \in [up : BOOLEAN, knows : BOOLEAN, starts : 0 .. MaxStarts]
      /\ plugin \in [loaded : BOOLEAN, state : BOOLEAN, has : BOOLEAN]
      /\ exported \in {"agent", "forgotten", "nobody"}
  BY AgentTypes
<1>1. Service(bluez.up, bluez.knows) /\ RunTold(queue, bluez.up) /\ Awaited(queue, bluez.up, bluez.knows)
  BY ServedParts
<1>2. ASSUME UNCHANGED <<bluez, plugin, exported>>, UNCHANGED queue
      PROVE  ServedOK'
  BY <1>2 DEF ServedOK
<1>3. ASSUME UNCHANGED <<bluez, plugin, exported>>, NEW m \in AgentMessages, Sends(m),
             m.kind \notin {"up", "down", "release"}
      PROVE  ServedOK'
  <2>1. /\ RunTold(queue', bluez.up) /\ (Has(queue', Downs) <=> Has(queue, Downs))
        /\ Has(queue', Ups \cup Downs) <=> Has(queue, Ups \cup Downs)
    BY <1>0, <1>1, <1>3, ToldAppends DEF Sends
  <2> QED
    BY <1>1, <1>3, <2>1 DEF ServedOK, Service, RunTold, Awaited
<1>4. ASSUME NEW kind, Receive(kind)
      PROVE  /\ RunTold(queue', bluez.up)
             /\ Has(queue', Ups \cup Downs) <=> Has(queue', Ups) \/ Has(queue', Downs)
             /\ Has(queue, Ups \cup Downs) <=> kind \in {"up", "down"} \/ Has(queue', Ups \cup Downs)
             /\ Has(queue, Downs) <=> kind = "down" \/ Has(queue', Downs)
             /\ kind = "down" /\ bluez.up => Has(queue', Ups)
             /\ kind = "up" /\ ~bluez.up => Has(queue', Downs)
             /\ kind = "release" => Has(queue', Downs)
  <2>1. queue # <<>> /\ queue' = Tail(queue) /\ Head(queue) \in AgentMessages /\ Head(queue).kind = kind
    BY <1>4, AgentHead DEF Receives
  <2>2. /\ Head(queue) \in Ups <=> kind = "up"
        /\ Head(queue) \in Downs <=> kind = "down"
        /\ Head(queue) \in Releases <=> kind = "release"
    BY <2>1, AgentMessageKinds
  <2>3. bluez.up \in BOOLEAN
    BY <1>0
  <2> DEFINE runs == bluez.up
  <2>4. runs \in BOOLEAN /\ RunTold(queue, runs)
    BY <1>1, <2>3
  <2> HIDE DEF runs
  <2>5. /\ RunTold(Tail(queue), runs)
        /\ Has(Tail(queue), Ups \cup Downs) <=> Has(Tail(queue), Ups) \/ Has(Tail(queue), Downs)
        /\ Has(queue, Ups \cup Downs) <=> Head(queue) \in Ups \cup Downs \/ Has(Tail(queue), Ups \cup Downs)
        /\ Has(queue, Downs) <=> Head(queue) \in Downs \/ Has(Tail(queue), Downs)
        /\ Head(queue) \in Downs /\ runs => Has(Tail(queue), Ups)
        /\ Head(queue) \in Ups /\ ~runs => Has(Tail(queue), Downs)
        /\ Head(queue) \in Releases => Has(Tail(queue), Downs)
    BY <1>0, <2>1, <2>4, ToldTails
  <2> QED
    BY <2>1, <2>2, <2>5 DEF runs
<1>5. ASSUME UNCHANGED <<bluez, plugin, exported>>, NEW kind, Receive(kind), kind \notin {"up", "down"}
      PROVE  ServedOK'
  <2>1. /\ RunTold(queue', bluez.up) /\ (Has(queue', Downs) <=> Has(queue, Downs))
        /\ Has(queue', Ups \cup Downs) <=> Has(queue, Ups \cup Downs)
    BY <1>4, <1>5
  <2> QED
    BY <1>1, <1>5, <2>1 DEF ServedOK, Service, RunTold, Awaited
<1>6. CASE OnRelease
  <2>1. /\ Receive("release") /\ UNCHANGED <<bluez, plugin>>
        /\ exported' = exported \/ (exported = "agent" /\ exported' = "nobody")
    BY <1>6 DEF OnRelease
  <2>2. RunTold(queue', bluez.up) /\ Has(queue', Downs) /\ Has(queue', Ups \cup Downs)
    BY <1>4, <2>1
  <2> QED
    BY <1>1, <2>1, <2>2 DEF ServedOK, Service, RunTold
<1>7. ASSUME Register
      PROVE  /\ exported' = IF exported = "nobody" THEN "agent" ELSE exported
             /\ bluez'.up = bluez.up
             /\ bluez'.knows <=> bluez.knows \/ (bluez.up /\ exported = "nobody")
  BY <1>0, <1>7 DEF Register
<1>8. CASE OnUp
  <2>1. Receive("up") /\ plugin'.state /\ plugin'.has = plugin.loaded /\ plugin'.loaded = plugin.loaded
    BY <1>0, <1>8 DEF OnUp
  <2>2. /\ RunTold(queue', bluez.up) /\ (Has(queue', Downs) <=> Has(queue, Downs))
        /\ ~bluez.up => Has(queue', Downs) /\ Has(queue', Ups \cup Downs)
    BY <1>4, <2>1
  <2>3. CASE plugin.loaded
    <3>1. Register
      BY <1>8, <2>3 DEF OnUp
    <3>2. /\ exported' = IF exported = "nobody" THEN "agent" ELSE exported
          /\ bluez'.up = bluez.up
          /\ bluez'.knows <=> bluez.knows \/ (bluez.up /\ exported = "nobody")
      BY <1>7, <3>1
    <3> QED
      BY <1>0, <1>1, <2>1, <2>2, <2>3, <3>2 DEF ServedOK, Service, RunTold, Awaited
  <2>4. CASE ~plugin.loaded
    <3>1. UNCHANGED <<bluez, exported>>
      BY <1>8, <2>4 DEF OnUp
    <3> QED
      BY <1>0, <1>1, <2>1, <2>2, <2>4, <3>1 DEF ServedOK, Service, RunTold, Awaited
  <2> QED
    BY <1>0, <2>3, <2>4
<1>9. CASE OnDown
  <2>1. /\ Receive("down") /\ UNCHANGED bluez /\ plugin'.loaded = plugin.loaded /\ ~plugin'.state /\ ~plugin'.has
        /\ exported' = IF plugin.loaded /\ exported = "agent" THEN "forgotten" ELSE exported
    BY <1>0, <1>9 DEF OnDown
  <2>2. RunTold(queue', bluez.up) /\ (bluez.up => Has(queue', Ups \cup Downs))
    BY <1>4, <2>1
  <2> QED
    BY <1>0, <1>1, <2>1, <2>2 DEF ServedOK, Service, RunTold
<1>10. CASE LoadAuthAgent
  <2>1. /\ ~plugin.loaded /\ plugin'.loaded /\ plugin'.state = plugin.state /\ plugin'.has = plugin.state /\ UNCHANGED queue
    BY <1>0, <1>10 DEF LoadAuthAgent
  <2>2. ~bluez.up /\ plugin.state => Has(queue, Downs)
    <3>1. ~bluez.up /\ plugin.state => Has(queue, Ups \cup Downs) /\ Followed(queue, Ups, Downs)
      BY <1>1 DEF Awaited, RunTold
    <3> QED
      BY <3>1 DEF Has, Followed
  <2>3. CASE plugin.state
    <3>1. Register
      BY <1>10, <2>3 DEF LoadAuthAgent
    <3>2. /\ exported' = IF exported = "nobody" THEN "agent" ELSE exported
          /\ bluez'.up = bluez.up
          /\ bluez'.knows <=> bluez.knows \/ (bluez.up /\ exported = "nobody")
      BY <1>7, <3>1
    <3> QED
      BY <1>0, <1>1, <2>1, <2>2, <2>3, <3>2 DEF ServedOK, Service, RunTold, Awaited
  <2>4. CASE ~plugin.state
    <3>1. UNCHANGED <<bluez, exported>>
      BY <1>10, <2>4 DEF LoadAuthAgent
    <3> QED
      BY <1>0, <1>1, <2>1, <2>4, <3>1 DEF ServedOK, Service, RunTold, Awaited
  <2> QED
    BY <1>0, <2>3, <2>4
<1>11. CASE UnloadAuthAgent
  <2>1. /\ ~plugin'.loaded /\ ~plugin'.has /\ plugin'.state = plugin.state /\ UNCHANGED queue
        /\ \/ exported = "agent" /\ exported' = "nobody" /\ bluez'.up = bluez.up /\ ~bluez'.knows
           \/ ~(plugin.has /\ exported = "agent") /\ UNCHANGED <<exported, bluez>>
    BY <1>0, <1>11 DEF UnloadAuthAgent, Unexported
  <2> QED
    BY <1>0, <1>1, <2>1 DEF ServedOK, Service, RunTold, Awaited
<1>12. ASSUME NEW r \in Requests, (\E kind \in RequestKinds : Ask(r, kind)) \/ Withdraw(r)
       PROVE  ServedOK'
  <2>1. UNCHANGED <<bluez, plugin, exported>>
    BY <1>12 DEF Ask, Withdraw, applet
  <2>2. Sends([kind |-> "request", r |-> r]) \/ Sends([kind |-> "cancel", r |-> r]) \/ UNCHANGED queue
    BY <1>12, AgentSends
  <2>3. Sends([kind |-> "request", r |-> r]) => ServedOK'
    BY <1>3, <2>1, AgentMessagesSent
  <2>4. Sends([kind |-> "cancel", r |-> r]) => ServedOK'
    BY <1>3, <2>1, AgentMessagesSent
  <2> QED
    BY <1>2, <2>1, <2>2, <2>3, <2>4
<1>13. ASSUME NEW d \in Devices, DevicePropertyChanges(d)
       PROVE  ServedOK'
  <2>1. UNCHANGED <<bluez, plugin, exported>> /\ Sends([kind |-> "property", dev |-> d])
    BY <1>13, AgentSends DEF DevicePropertyChanges, applet
  <2> QED
    BY <1>3, <2>1, AgentMessagesSent
<1>14. ASSUME NEW d \in Devices, NEW code \in Codes, Display(d, code)
       PROVE  ServedOK'
  <2>1. UNCHANGED <<bluez, plugin, exported>> /\ Sends([kind |-> "display", dev |-> d, code |-> code])
    BY <1>14, AgentSends DEF Display, applet
  <2> QED
    BY <1>3, <2>1, AgentMessagesSent
<1>15. ASSUME NEW r \in Requests, UserAnswers(r) \/ Dismiss(r)
       PROVE  ServedOK'
  BY <1>2, <1>15 DEF UserAnswers, Dismiss
<1>16. CASE \/ RefuseRequest \/ RequestPasskey \/ PasskeyUnshown \/ RequestConfirmation \/ ConfirmationUnshown
            \/ AuthorizeService
  BY <1>5, <1>16 DEF RefuseRequest, RequestPasskey, PasskeyUnshown, RequestConfirmation, ConfirmationUnshown,
     AuthorizeService
<1>17. CASE DisplayCode \/ DisplayRaises \/ DisplayFails
  BY <1>5, <1>17 DEF DisplayCode, DisplayRaises, DisplayFails, applet
<1>18. CASE OnCancel \/ OnPropertyChanged
  BY <1>5, <1>18 DEF OnCancel, OnPropertyChanged
<1> QED
  BY <1>6, <1>8, <1>9, <1>10, <1>11, <1>12, <1>13, <1>14, <1>15, <1>16, <1>17, <1>18, StopServed, StartServed
     DEF AgentNext

LEMMA AgentInitially == AgentInit => AgentInv
<1> SUFFICES ASSUME AgentInit PROVE AgentInv
  OBVIOUS
<1>1. queue = <<>> /\ DOMAIN queue = {} /\ \A Y : ~Has(queue, Y)
  BY DEF AgentInit, Has
<1>2. AgentTyped
  <2>1. queue \in Seq(AgentMessages) /\ Len(queue) = 0
    BY <1>1
  <2>2. bluez \in [up : BOOLEAN, knows : BOOLEAN, starts : 0 .. MaxStarts]
    <3>1. 0 \in 0 .. MaxStarts
      BY AgentAssumption
    <3>2. bluez \in [up : {FALSE}, knows : {FALSE}, starts : {0}]
      BY DEF AgentInit
    <3> QED
      BY <3>1, <3>2
  <2>3. request \in [Requests -> [kind : RequestKinds, state : {"unused", "open", "answered", "over"}]]
    BY DEF AgentInit, RequestKinds
  <2> QED
    BY <2>1, <2>2, <2>3, AgentAssumption DEF AgentInit, AgentTyped, AgentTypeOK
<1>3. RequestsOK
  BY <1>1 DEF RequestsOK, AgentInit, Separated
<1>4. ShownOK /\ NoteOK
  BY AgentAssumption DEF ShownOK, NoteOK, Mine, AgentInit
<1>5. HidingOrder
  BY <1>1 DEF HidingOrder, Separated, AgentInit
<1>6. ServedOK
  BY <1>1 DEF ServedOK, Followed, AgentInit
<1> QED
  BY <1>2, <1>3, <1>4, <1>5, <1>6 DEF AgentInv

LEMMA AgentStutters == AgentInv /\ UNCHANGED agentVars => AgentInv'
BY DEF AgentInv, AgentTyped, AgentTypeOK, RequestsOK, ShownOK, NoteOK, HidingOrder, ServedOK, Mine, agentVars

\* What bluetoothd waits for, what the user can still answer and what the agent remembers of
\* it belong together in every state (BluezAgent and AuthAgent).
THEOREM AgentInvariant == AgentSpec => []AgentInv
<1>1. AgentInv /\ [AgentNext]_agentVars => AgentInv'
  <2>1. AgentInv /\ AgentNext => AgentInv'
    BY AgentTypedStep, RequestsStep, ShownStep, NoteStep, HidingOrderStep, ServedStep DEF AgentInv
  <2> QED
    BY <2>1, AgentStutters
<1> QED
  BY <1>1, AgentInitially, PTL DEF AgentSpec

\* A request that the agent's dialog asks for, and for which it refuses the others, is on the
\* screen and not answered yet, and the only one; what could not be shown is no request
\* (BluezAgent.ask_passkey, _on_cancel, _on_device_property_changed).
THEOREM DialogTracked == AgentSpec => []DialogIsTracked
<1>1. AgentInv => DialogIsTracked
  <2> SUFFICES ASSUME AgentInv PROVE DialogIsShown
    BY DEF AgentInv, AgentTyped, DialogIsTracked
  <2>1. AgentTyped /\ RequestsOK /\ ShownOK
    BY DEF AgentInv
  <2>2. screen \subseteq Requests
    BY <2>1, AgentTypes
  <2>3. dialog \in Requests => dialog \in screen \ stray /\ answers[dialog] = 0
    BY <2>1, <2>2 DEF ShownOK, Mine, RequestsOK
  <2> QED
    BY <2>1, <2>3 DEF DialogIsShown, ShownOK, Mine
<1> QED
  BY <1>1, AgentInvariant, PTL

\* Once the applet has heard all that bluetoothd and the bus told it, the loaded plugin serves
\* a running bluetoothd, unless it has forgotten an agent (AuthAgent.on_manager_state_changed,
\* BluezAgent.register_agent).
THEOREM AgentServed == AgentSpec => []AgentServes
<1>1. AgentInv => AgentServes
  <2> SUFFICES ASSUME AgentInv, bluez.up, queue = <<>>, plugin.loaded, exported # "forgotten"
               PROVE  exported = "agent" /\ bluez.knows /\ plugin.has
    BY DEF AgentServes
  <2>1. AgentTyped /\ ServedOK /\ \A Y : ~Has(queue, Y)
    BY DEF AgentInv, Has
  <2>2. exported \in {"agent", "forgotten", "nobody"}
    BY <2>1, AgentTypes
  <2> QED
    BY <2>1, <2>2 DEF ServedOK
<1> QED
  BY <1>1, AgentInvariant, PTL

\* A cancel that its own agent receives leaves nothing of the request on the screen, whatever
\* was asked, displayed or closed since, unless what _close meets first was never shown
\* (BluezAgent._on_cancel and _close).
THEOREM CancelCleared == AgentSpec => CancelClears
<1>1. ASSUME AgentInv, AgentNext, queue # <<>>, Head(queue).kind = "cancel", queue' = Tail(queue), exported = "agent",
             ~(note = Unshown /\ Head(queue).r \in services)
      PROVE  Head(queue).r \notin screen' \ stray'
  <2> DEFINE r == Head(queue).r
  <2>1. AgentTyped /\ RequestsOK /\ ShownOK /\ NoteOK
    BY <1>1 DEF AgentInv
  <2>2. queue \in Seq(AgentMessages) /\ Head(queue) \in AgentMessages /\ Len(queue') = Len(queue) - 1 /\ Len(queue) \in Nat
    BY <1>1, <2>1, AgentTypes, Taking
  <2>3. r \in Requests /\ Has(queue, Cancels(r))
    BY <1>1, <2>2, AgentMessageKinds, TailOrder
  <2>4. \A m \in AgentMessages : ~Sends(m)
    BY <2>2 DEF Sends
  <2>5. \A m, n \in AgentMessages : ~SendsTwo(m, n)
    <3> SUFFICES ASSUME NEW m \in AgentMessages, NEW n \in AgentMessages, SendsTwo(m, n) PROVE FALSE
      OBVIOUS
    <3>1. Append(queue, m) \in Seq(AgentMessages) /\ Len(Append(queue, m)) = Len(queue) + 1
      BY <2>2
    <3>2. Len(queue') = Len(queue) + 2
      BY <3>1 DEF SendsTwo
    <3> QED
      BY <2>2, <3>2
  <2>6. queue' # queue
    BY <2>2
  <2>7. \A kind : Receive(kind) => kind = "cancel"
    BY <1>1 DEF Receive
  <2>8. OnCancel
    <3>1. \A s \in Requests : ~Withdraw(s) /\ \A kind \in RequestKinds : ~Ask(s, kind)
      BY <2>1, <2>4, <2>6, AgentSends, AgentMessagesSent
    <3>2. \A s \in Requests : ~UserAnswers(s) /\ ~Dismiss(s)
      BY <2>6 DEF UserAnswers, Dismiss
    <3>3. \A d \in Devices : ~DevicePropertyChanges(d) /\ \A code \in Codes : ~Display(d, code)
      BY <2>1, <2>4, AgentSends, AgentMessagesSent
    <3>4. ~Stop /\ ~Start
      BY <2>1, <2>4, <2>5, AgentSends, AgentMessagesSent
    <3>5. ~RefuseRequest /\ ~RequestPasskey /\ ~PasskeyUnshown /\ ~RequestConfirmation /\ ~ConfirmationUnshown
          /\ ~AuthorizeService /\ ~DisplayCode /\ ~DisplayRaises /\ ~DisplayFails /\ ~OnPropertyChanged /\ ~OnRelease /\ ~OnUp /\ ~OnDown
      BY <2>7 DEF RefuseRequest, RequestPasskey, PasskeyUnshown, RequestConfirmation, ConfirmationUnshown,
         AuthorizeService, DisplayCode, DisplayRaises, DisplayFails, OnPropertyChanged, OnRelease, OnUp, OnDown
    <3>6. ~LoadAuthAgent /\ ~UnloadAuthAgent
      BY <2>6 DEF LoadAuthAgent, UnloadAuthAgent
    <3> QED
      BY <1>1, <3>1, <3>2, <3>3, <3>4, <3>5, <3>6 DEF AgentNext
  <2>9. CancelPrompts
    BY <1>1, <2>8 DEF OnCancel
  <2>10. /\ Mine' \subseteq Mine /\ \A s \in Mine' : request[s].kind # "passkey"
         /\ note # Unshown => \A s \in Mine' : request[s].kind # "service" /\ note # s
    BY <2>1, <2>9, CancelShows
  <2>11. request[r].kind \in {"passkey", "confirm", "service"}
    BY <2>1, <2>3, AgentTypes DEF RequestKinds
  <2>13. r \in Mine' => note = Unshown \/ request[r].kind = "confirm"
    BY <2>10, <2>11
  <2>14. note = Unshown /\ r \in Mine' => request[r].kind = "confirm"
    <3>1. r \in Mine /\ request[r].kind = "service" => r \in services
      BY <2>1 DEF ShownOK
    <3> QED
      BY <1>1, <2>10, <2>11, <3>1
  <2>15. note # r \/ r \notin Mine'
    BY <2>1, <2>3, <2>10, AgentTypes
  <2>12. r \notin Mine'
    BY <2>1, <2>3, <2>10, <2>13, <2>14, <2>15 DEF NoteOK
  <2> QED
    BY <2>12 DEF Mine
<1>2. AgentInv /\ [AgentNext]_agentVars =>
        [queue # <<>> /\ Head(queue).kind = "cancel" /\ queue' = Tail(queue) /\ exported = "agent"
           /\ ~(note = Unshown /\ Head(queue).r \in services)
           => Head(queue).r \notin screen' \ stray']_agentVars
  BY <1>1
<1> QED
  BY <1>2, AgentInvariant, PTL DEF AgentSpec, CancelClears

\* The methods of the agent implement DBusMethod: bluetoothd is answered once at most, whoever
\* of the user, Cancel, Release and the device ends a request (ok and err of DbusService).
THEOREM RequestsAnsweredOnce == AgentSpec => AnsweredOnce
<1>1. AgentInit => Method!Init
  BY DEF AgentInit, Method!Init
<1>2. AgentInv /\ AgentInv' /\ [AgentNext]_agentVars => [Method!Next]_Method!callVars
  <2> SUFFICES ASSUME AgentInv, AgentInv', [AgentNext]_agentVars PROVE [Method!Next]_Method!callVars
    OBVIOUS
  <2>1. CASE UNCHANGED agentVars
    BY <2>1 DEF agentVars, Method!callVars
  <2>2. CASE AgentNext
    <3>1. AgentTyped /\ RequestsOK /\ ShownOK /\ AgentTyped' /\ RequestsOK'
      BY DEF AgentInv
    <3>2. ASSUME NEW r \in Requests
          PROVE  \/ Method!Asked(r) \/ Method!Answered(r) \/ Method!AnsweredAtOnce(r)
                 \/ Method!GivenUp(r) \/ Method!Stays(r)
      <4>1. \/ request[r].state = "unused" /\ request'[r].state = "open" /\ answers'[r] = 0
            \/ /\ request[r].state \in {"open", "over"} /\ answers[r] = 0 /\ answers'[r] = 1
               /\ request'[r].state = IF request[r].state = "open" THEN "answered" ELSE "over"
            \/ request[r].state = "open" /\ request'[r].state = "over" /\ answers'[r] = answers[r]
            \/ request'[r].state = request[r].state /\ answers'[r] = answers[r]
        <5>1. ASSUME NEW s \in Requests, NEW kind \in RequestKinds, Ask(s, kind)
              PROVE  \/ request[r].state = "unused" /\ request'[r].state = "open" /\ answers'[r] = 0
                     \/ request'[r].state = request[r].state /\ answers'[r] = answers[r]
          BY <3>1, <5>1, AskTypes DEF RequestsOK
        <5>2. ASSUME NEW rs, NEW ns, Answering(rs, ns), r \in rs
              PROVE  /\ request[r].state \in {"open", "over"} /\ answers[r] = 0 /\ answers'[r] = 1
                     /\ request'[r].state = IF request[r].state = "open" THEN "answered" ELSE "over"
          <6>1. /\ request'[r].state = IF request[r].state = "open" THEN "answered" ELSE request[r].state
                /\ answers'[r] = answers[r] + 1 /\ (r \in screen \/ Has(queue, Asks(r)))
            BY <5>2 DEF Answering
          <6>2. answers[r] = 0 /\ request[r].state # "unused" /\ request[r].state # "answered"
            BY <3>1, <6>1 DEF RequestsOK
          <6>3. request[r].state \in {"unused", "open", "answered", "over"}
            BY <3>1, AgentTypes
          <6> QED
            BY <6>1, <6>2, <6>3
        <5>3. ASSUME NEW rs, NEW ns, Answering(rs, ns), r \notin rs
              PROVE  /\ answers'[r] = answers[r]
                     /\ \/ request'[r].state = request[r].state
                        \/ request[r].state = "open" /\ request'[r].state = "over"
          BY <5>3 DEF Answering
        <5> QED
          BY <2>2, <3>1, <5>1, <5>2, <5>3, AgentAnswers
      <4> QED
        BY <4>1 DEF Method!Asked, Method!Answered, Method!GivenUp, Method!Stays, Method!Becomes
    <3>3. answers' \in [Requests -> {0, 1}]
      BY <3>1 DEF AgentTyped, AgentTypeOK, RequestsOK
    <3>4. [r \in Requests |-> request'[r].state] \in [Requests -> {"unused", "open", "answered", "over"}]
      BY <3>1 DEF AgentTyped, AgentTypeOK
    <3>5. Method!Next
      BY <3>2, <3>3, <3>4 DEF Method!Next
    <3> QED
      BY <3>5
  <2> QED
    BY <2>1, <2>2
<1>3. AgentSpec => Method!Spec
  BY <1>1, <1>2, AgentInvariant, PTL DEF AgentSpec, Method!Spec
<1> QED
  BY <1>3 DEF AnsweredOnce

(***************************************************************************)
=============================================================================
