------------------------- MODULE PowerManagerProofs -------------------------
(***************************************************************************)
(* Proofs about PowerManager, for any sets of adapters, handlers and       *)
(* callbacks and any bound on the signals in flight; and about the kill    *)
(* switch, one of those handlers, for any switches.                        *)
(***************************************************************************)
EXTENDS PowerManager, KillSwitch, FiniteSetTheorems, TLAPS

\* A set of handlers is finite, and so is its size.
LEMMA HandlersFinite ==
    ASSUME NEW S \in SUBSET Handlers
    PROVE  IsFiniteSet(S) /\ Cardinality(S) \in Nat
BY PowerAssumption, FS_Subset, FS_CardinalityType

\* Collect keeps the type of the callback table.
LEMMA CollectType ==
    ASSUME NEW f \in [Callbacks -> CallbackObject], NEW aw
    PROVE  Collect(f, aw) \in [Callbacks -> CallbackObject]
BY DEF Collect, CallbackObject, NoCallback

\* Answering and stopping a callback keep its type.
LEMMA CallbackType ==
    ASSUME NEW o \in CallbackObject
    PROVE  Answered(o) \in CallbackObject /\ Stopped(o) \in CallbackObject
BY DEF CallbackObject, Answered, Stopped

\* Properties.Set calls are about adapters.
LEMMA SetPoweredType ==
    ASSUME TypeOK, NEW state \in BOOLEAN
    PROVE  SetPowered(present, state) \subseteq Adapters \X BOOLEAN
BY DEF TypeOK, SetPowered

\* update_power_state leaves the derived state well typed.
LEMMA UpdateType ==
    ASSUME TypeOK, NEW ad \in BOOLEAN, NEW hs, NEW ans,
           UpdatePowerState(ad, hs, ans)
    PROVE  /\ adapter_state' \in BOOLEAN
           /\ current_state' \in BOOLEAN
           /\ item' \in [offers : {"On", "Off"}, sensitive : BOOLEAN]
BY DEF TypeOK, UpdatePowerState, IsOn, ForcedOff

\* ... and so does handing a request to the handlers.
LEMMA AskType ==
    ASSUME TypeOK, NEW state \in BOOLEAN, AskHandlers(state)
    PROVE  /\ cb' \in [Callbacks -> CallbackObject]
           /\ tracked' \subseteq Callbacks
           /\ awaiting' \subseteq Handlers \X Callbacks
           /\ request_in_progress' \in BOOLEAN
<1>1. Cardinality(handlers) \in Nat
  BY HandlersFinite DEF TypeOK
<1> QED
  BY <1>1 DEF TypeOK, AskHandlers, CallbackObject

\* The part of the state request_power_state may touch stays well typed.
LEMMA RequestType ==
    ASSUME TypeOK, NEW state \in BOOLEAN, RequestPowerState(state, FALSE)
    PROVE  /\ cb' \in [Callbacks -> CallbackObject]
           /\ tracked' \subseteq Callbacks
           /\ awaiting' \subseteq Handlers \X Callbacks
           /\ request_in_progress' \in BOOLEAN
           /\ setCalls' \subseteq Adapters \X BOOLEAN
           /\ adapter_state' \in BOOLEAN
           /\ current_state' \in BOOLEAN
           /\ item' \in [offers : {"On", "Off"}, sensitive : BOOLEAN]
<1>1. CASE UNCHANGED <<request, derived, setCalls>>
  BY <1>1 DEF TypeOK, request, derived
<1>2. CASE /\ setCalls' = SetPowered(present, state)
           /\ UpdatePowerState(state, handlers, answer)
           /\ UNCHANGED request
  BY <1>2, SetPoweredType, UpdateType DEF TypeOK, request
<1>3. CASE AskHandlers(state) /\ UNCHANGED <<derived, setCalls>>
  BY <1>3, AskType DEF TypeOK, derived
<1> QED
  BY <1>1, <1>2, <1>3 DEF RequestPowerState

-----------------------------------------------------------------------------
(* Type correctness *)

\* Every step keeps every variable in its type.
LEMMA TypeStep == TypeOK /\ [Next]_vars => TypeOK'
<1> SUFFICES ASSUME TypeOK, [Next]_vars PROVE TypeOK'
  OBVIOUS
<1> USE DEF vars, environment, applet, request, derived
<1>1. ASSUME NEW a \in Adapters, PoweredChanges(a) PROVE TypeOK'
  <2>1. signals' \in Seq(Adapters \X BOOLEAN)
    <3>1. <<a, ~powered[a]>> \in Adapters \X BOOLEAN
      BY DEF TypeOK
    <3> QED BY <1>1, <3>1 DEF TypeOK, PoweredChanges
  <2> QED BY <1>1, <2>1 DEF TypeOK, PoweredChanges
<1>2. ASSUME NEW a \in Adapters, AdapterAdded(a) PROVE TypeOK'
  BY <1>2 DEF TypeOK, AdapterAdded
<1>3. ASSUME NEW a \in Adapters, AdapterRemoved(a) PROVE TypeOK'
  BY <1>3 DEF TypeOK, AdapterRemoved
<1>4. ASSUME NEW call \in Adapters \X BOOLEAN, BluezHandlesSet(call)
      PROVE TypeOK'
  <2>1. powered' \in [Adapters -> BOOLEAN]
    BY <1>4 DEF TypeOK, BluezHandlesSet
  <2>2. signals' \in Seq(Adapters \X BOOLEAN)
    BY <1>4 DEF TypeOK, BluezHandlesSet
  <2> QED BY <1>4, <2>1, <2>2 DEF TypeOK, BluezHandlesSet
<1>5. ASSUME NEW h \in Handlers, NEW s \in State, HandlerChanges(h, s)
      PROVE TypeOK'
  <2>1. adapter_state \in BOOLEAN
    BY DEF TypeOK
  <2>2. UpdatePowerState(adapter_state, handlers, answer')
    BY <1>5 DEF HandlerChanges
  <2>3. /\ adapter_state' \in BOOLEAN
        /\ current_state' \in BOOLEAN
        /\ item' \in [offers : {"On", "Off"}, sensitive : BOOLEAN]
    BY <2>1, <2>2, UpdateType
  <2> QED BY <1>5, <2>3 DEF TypeOK, HandlerChanges
<1>6. ASSUME NEW h \in Handlers, HandlerLost(h) PROVE TypeOK'
  BY <1>6 DEF TypeOK, HandlerLost, State
<1>7. ASSUME NEW h \in Handlers, LoadHandler(h) PROVE TypeOK'
  BY <1>7 DEF TypeOK, LoadHandler, State
<1>8. ASSUME NEW h \in Handlers, UnloadHandler(h) PROVE TypeOK'
  <2>1. cb' \in [Callbacks -> CallbackObject]
    BY <1>8, CollectType DEF TypeOK, UnloadHandler
  <2> QED BY <1>8, <2>1 DEF TypeOK, UnloadHandler, State
<1>9. ASSUME NEW h \in Handlers, NEW c \in Callbacks, HandlerAnswers(h, c)
      PROVE TypeOK'
  <2>1. /\ [cb EXCEPT ![c] = Stopped(Answered(cb[c]))]
               \in [Callbacks -> CallbackObject]
        /\ [cb EXCEPT ![c] = Answered(cb[c])] \in [Callbacks -> CallbackObject]
    BY CallbackType DEF TypeOK
  <2>2. cb' \in [Callbacks -> CallbackObject]
    <3>1. \E f \in [Callbacks -> CallbackObject] : cb' = Collect(f, awaiting')
      BY <1>9, <2>1 DEF HandlerAnswers
    <3> QED BY <3>1, CollectType
  <2>3. cb[c].state \in BOOLEAN
    BY DEF TypeOK, CallbackObject
  <2>4. CASE cb[c].called + 1 = cb[c].num_cb
    <3>1. UpdatePowerState(cb[c].state, handlers, answer)
      BY <1>9, <2>4 DEF HandlerAnswers
    <3>2. /\ adapter_state' \in BOOLEAN
          /\ current_state' \in BOOLEAN
          /\ item' \in [offers : {"On", "Off"}, sensitive : BOOLEAN]
      BY <2>3, <3>1, UpdateType
    <3>3. setCalls' \subseteq Adapters \X BOOLEAN
      BY <1>9, <2>3, <2>4, SetPoweredType DEF HandlerAnswers
    <3> QED BY <1>9, <2>2, <2>4, <3>2, <3>3 DEF TypeOK, HandlerAnswers
  <2>5. CASE cb[c].called + 1 # cb[c].num_cb
    BY <1>9, <2>2, <2>5 DEF TypeOK, HandlerAnswers
  <2> QED BY <2>4, <2>5
<1>10. ASSUME NEW c \in Callbacks, CallbackTimeout(c) PROVE TypeOK'
  <2>1. [cb EXCEPT ![c] = Stopped(cb[c])] \in [Callbacks -> CallbackObject]
    BY CallbackType DEF TypeOK
  <2>2. cb' \in [Callbacks -> CallbackObject]
    BY <1>10, <2>1, CollectType DEF CallbackTimeout
  <2>3. adapter_state \in BOOLEAN
    BY DEF TypeOK
  <2>4. /\ adapter_state' \in BOOLEAN
        /\ current_state' \in BOOLEAN
        /\ item' \in [offers : {"On", "Off"}, sensitive : BOOLEAN]
    BY <1>10, <2>3, UpdateType DEF CallbackTimeout
  <2> QED BY <1>10, <2>2, <2>4 DEF TypeOK, CallbackTimeout
<1>11. ASSUME NEW state \in BOOLEAN, UserRequest(state) PROVE TypeOK'
  <2>1. RequestPowerState(state, FALSE)
    BY <1>11 DEF UserRequest
  <2> QED BY <1>11, <2>1, RequestType DEF TypeOK, UserRequest
<1>12. CASE SyncTimeout
  <2>1. AdapterState \in BOOLEAN
    BY DEF AdapterState
  <2>2. RequestPowerState(AdapterState, FALSE)
    BY <1>12 DEF SyncTimeout
  <2> HIDE DEF request, derived
  <2>3. /\ cb' \in [Callbacks -> CallbackObject]
        /\ tracked' \subseteq Callbacks
        /\ awaiting' \subseteq Handlers \X Callbacks
        /\ request_in_progress' \in BOOLEAN
        /\ setCalls' \subseteq Adapters \X BOOLEAN
        /\ adapter_state' \in BOOLEAN
        /\ current_state' \in BOOLEAN
        /\ item' \in [offers : {"On", "Off"}, sensitive : BOOLEAN]
    BY <2>1, <2>2, RequestType
  <2> QED BY <1>12, <2>3 DEF TypeOK, SyncTimeout
<1>13. CASE PoweredSignal
  <2>1. signals' \in Seq(Adapters \X BOOLEAN)
    BY <1>13 DEF TypeOK, PoweredSignal
  <2>2. AdapterState \in BOOLEAN
    BY DEF AdapterState
  <2>3. CASE ~loaded
    BY <1>13, <2>1, <2>3 DEF TypeOK, PoweredSignal
  <2>4. CASE loaded
    <3>1. UpdatePowerState(AdapterState, handlers, answer)
      BY <1>13, <2>4 DEF PoweredSignal
    <3>2. /\ adapter_state' \in BOOLEAN
          /\ current_state' \in BOOLEAN
          /\ item' \in [offers : {"On", "Off"}, sensitive : BOOLEAN]
      BY <2>2, <3>1, UpdateType
    <3>3. /\ cb' \in [Callbacks -> CallbackObject]
          /\ tracked' \subseteq Callbacks
          /\ awaiting' \subseteq Handlers \X Callbacks
          /\ request_in_progress' \in BOOLEAN
          /\ setCalls' \subseteq Adapters \X BOOLEAN
      <4>1. CASE AskHandlers(TRUE) /\ UNCHANGED setCalls
        BY <4>1, AskType DEF TypeOK
      <4>2. CASE setCalls' = SetPowered(present, TRUE) /\ UNCHANGED request
        BY <4>2, SetPoweredType DEF TypeOK
      <4>3. CASE UNCHANGED <<request, setCalls>>
        BY <4>3 DEF TypeOK
      <4> QED BY <1>13, <2>4, <4>1, <4>2, <4>3 DEF PoweredSignal
    <3> QED BY <1>13, <2>1, <3>2, <3>3 DEF TypeOK, PoweredSignal
  <2> QED BY <2>3, <2>4 DEF TypeOK
<1>14. CASE ManagerAppears
  BY <1>14 DEF TypeOK, ManagerAppears
<1>15. CASE ManagerVanishes
  BY <1>15 DEF TypeOK, ManagerVanishes
<1>16. CASE Unload
  <2> DEFINE f == [c \in Callbacks |-> IF c \in tracked
                       THEN Stopped(cb[c]) ELSE cb[c]]
  <2>1. f \in [Callbacks -> CallbackObject]
    BY CallbackType DEF TypeOK
  <2>2. cb' \in [Callbacks -> CallbackObject]
    BY <1>16, <2>1, CollectType DEF Unload
  <2> QED BY <1>16, <2>2 DEF TypeOK, Unload, State
<1>17. CASE Load
  BY <1>17 DEF TypeOK, Load
<1>18. CASE UNCHANGED vars
  BY <1>18 DEF TypeOK
<1> QED
  BY <1>1, <1>2, <1>3, <1>4, <1>5, <1>6, <1>7, <1>8, <1>9, <1>10, <1>11,
     <1>12, <1>13, <1>14, <1>15, <1>16, <1>17, <1>18 DEF Next

\* The initial states are well typed.
LEMMA InitType == Init => TypeOK
<1> SUFFICES ASSUME Init PROVE TypeOK
  OBVIOUS
<1>1. cb \in [Callbacks -> CallbackObject]
  BY DEF Init, NoCallback, CallbackObject
<1>2. signals \in Seq(Adapters \X BOOLEAN)
  BY DEF Init
<1>3. powered \in [Adapters -> BOOLEAN] /\ answer \in [Handlers -> State]
  BY DEF Init, State
<1>4. item \in [offers : {"On", "Off"}, sensitive : BOOLEAN]
  BY DEF Init
<1> QED
  BY <1>1, <1>2, <1>3, <1>4 DEF Init, TypeOK

\* The plugin's state and the environment it sees are always well formed.
THEOREM TypeCorrect == Spec => []TypeOK
BY InitType, TypeStep, PTL DEF Spec

-----------------------------------------------------------------------------
(* The timers *)

\* Collect frees no callback whose timer runs.
LEMMA CollectTimer ==
    ASSUME NEW f \in [Callbacks -> CallbackObject], NEW aw,
           NEW c \in Callbacks
    PROVE  Collect(f, aw)[c].timer = f[c].timer
BY DEF Collect, Alive, NoCallback, CallbackObject

\* A new request starts the timer of the callback it tracks.
LEMMA AskTimers ==
    ASSUME TypeOK, TimersTracked, NEW state \in BOOLEAN, AskHandlers(state)
    PROVE  TimersTracked'
<1>1. PICK c \in Callbacks :
          /\ cb' = [cb EXCEPT ![c] = [num_cb |-> Cardinality(handlers),
                                      called |-> 0,
                                      state |-> state, timer |-> TRUE]]
          /\ tracked' = tracked \cup {c}
  BY DEF AskHandlers
<1> QED
  BY <1>1 DEF TypeOK, TimersTracked

\* Every step keeps _pending_callbacks equal to the running timers.
LEMMA TimersStep ==
    TypeOK /\ TimersTracked /\ QuietAfterUnload /\ [Next]_vars
        => TimersTracked'
<1> SUFFICES ASSUME TypeOK, TimersTracked, QuietAfterUnload, [Next]_vars
             PROVE  TimersTracked'
  OBVIOUS
<1>1. CASE UNCHANGED <<cb, tracked>>
  BY <1>1 DEF TimersTracked
<1>2. ASSUME NEW h \in Handlers, UnloadHandler(h) PROVE TimersTracked'
  <2>1. cb' = Collect(cb, awaiting') /\ tracked' = tracked
    BY <1>2 DEF UnloadHandler
  <2> QED BY <2>1, CollectTimer DEF TypeOK, TimersTracked
<1>3. ASSUME NEW h \in Handlers, NEW c \in Callbacks, HandlerAnswers(h, c)
      PROVE TimersTracked'
  <2>1. CASE cb[c].called + 1 = cb[c].num_cb
    <3> DEFINE f == [cb EXCEPT ![c] = Stopped(Answered(cb[c]))]
    <3>1. cb' = Collect(f, awaiting') /\ tracked' = tracked \ {c}
      BY <1>3, <2>1 DEF HandlerAnswers
    <3>2. f \in [Callbacks -> CallbackObject]
      BY CallbackType DEF TypeOK
    <3>3. \A d \in Callbacks :
             f[d].timer = (IF d = c THEN FALSE ELSE cb[d].timer)
      BY DEF TypeOK, Stopped
    <3> HIDE DEF f
    <3> QED BY <3>1, <3>2, <3>3, CollectTimer DEF TimersTracked
  <2>2. CASE cb[c].called + 1 # cb[c].num_cb
    <3> DEFINE f == [cb EXCEPT ![c] = Answered(cb[c])]
    <3>1. cb' = Collect(f, awaiting') /\ tracked' = tracked
      BY <1>3, <2>2 DEF HandlerAnswers
    <3>2. f \in [Callbacks -> CallbackObject]
      BY CallbackType DEF TypeOK
    <3>3. \A d \in Callbacks : f[d].timer = cb[d].timer
      BY DEF TypeOK, Answered
    <3> HIDE DEF f
    <3> QED BY <3>1, <3>2, <3>3, CollectTimer DEF TimersTracked
  <2> QED BY <2>1, <2>2
<1>4. ASSUME NEW c \in Callbacks, CallbackTimeout(c) PROVE TimersTracked'
  <2> DEFINE f == [cb EXCEPT ![c] = Stopped(cb[c])]
  <2>1. cb' = Collect(f, awaiting) /\ tracked' = tracked \ {c}
    BY <1>4 DEF CallbackTimeout
  <2>2. f \in [Callbacks -> CallbackObject]
    BY CallbackType DEF TypeOK
  <2>3. \A d \in Callbacks :
           f[d].timer = (IF d = c THEN FALSE ELSE cb[d].timer)
    BY DEF TypeOK, Stopped
  <2> HIDE DEF f
  <2> QED BY <2>1, <2>2, <2>3, CollectTimer DEF TimersTracked
<1>5. ASSUME NEW state \in BOOLEAN, RequestPowerState(state, FALSE)
      PROVE TimersTracked'
  BY <1>1, <1>5, AskTimers DEF RequestPowerState, request
<1>6. CASE PoweredSignal
  BY <1>1, <1>6, AskTimers DEF PoweredSignal, request
<1>7. CASE Unload
  <2> DEFINE f == [c \in Callbacks |-> IF c \in tracked
                       THEN Stopped(cb[c]) ELSE cb[c]]
  <2>1. cb' = Collect(f, {}) /\ tracked' = {}
    BY <1>7 DEF Unload
  <2>2. f \in [Callbacks -> CallbackObject]
    BY CallbackType DEF TypeOK
  <2>3. \A c \in Callbacks : f[c].timer = FALSE
    BY DEF TypeOK, TimersTracked, Stopped, CallbackObject
  <2> HIDE DEF f
  <2> QED BY <2>1, <2>2, <2>3, CollectTimer DEF TimersTracked
<1>8. CASE Load
  BY <1>8 DEF Load, QuietAfterUnload, TimersTracked, TypeOK, CallbackObject
<1>9. CASE SyncTimeout
  <2>1. AdapterState \in BOOLEAN /\ RequestPowerState(AdapterState, FALSE)
    BY <1>9 DEF SyncTimeout, AdapterState
  <2> QED BY <2>1, <1>5
<1> QED
  BY <1>1, <1>2, <1>3, <1>4, <1>5, <1>6, <1>7, <1>8, <1>9
  DEF Next, vars, request, PoweredChanges, AdapterAdded, AdapterRemoved,
      BluezHandlesSet, HandlerChanges, HandlerLost, LoadHandler, UserRequest,
      ManagerAppears, ManagerVanishes

\* No handler outlives the plugin it depends on.
HandlersNeedPlugin == ~loaded => handlers = {}

\* Every step leaves an unloaded plugin without timers, replies or handlers.
LEMMA QuietStep ==
    TypeOK /\ TimersTracked /\ HandlersNeedPlugin /\ QuietAfterUnload
        /\ [Next]_vars => QuietAfterUnload' /\ HandlersNeedPlugin'
<1> SUFFICES ASSUME TypeOK, TimersTracked, HandlersNeedPlugin,
                    QuietAfterUnload, [Next]_vars
             PROVE  QuietAfterUnload' /\ HandlersNeedPlugin'
  OBVIOUS
<1> USE DEF QuietAfterUnload, HandlersNeedPlugin
<1>1. CASE UNCHANGED <<loaded, sync, awaiting, cb, handlers>>
  BY <1>1
<1>2. CASE loaded'
  BY <1>2
<1>3. CASE Unload
  <2> DEFINE f == [c \in Callbacks |-> IF c \in tracked
                       THEN Stopped(cb[c]) ELSE cb[c]]
  <2>1. /\ cb' = Collect(f, {}) /\ ~sync' /\ awaiting' = {}
        /\ handlers' = {} /\ loaded' = FALSE
    BY <1>3 DEF Unload
  <2>2. f \in [Callbacks -> CallbackObject]
    BY CallbackType DEF TypeOK
  <2>3. \A c \in Callbacks : f[c].timer = FALSE
    BY DEF TypeOK, TimersTracked, Stopped, CallbackObject
  <2> HIDE DEF f
  <2> QED BY <2>1, <2>2, <2>3, CollectTimer
<1>4. CASE ~loaded /\ UNCHANGED loaded
  <2>1. \A h \in Handlers : ~UnloadHandler(h) /\ ~LoadHandler(h)
    BY <1>4 DEF UnloadHandler, LoadHandler
  <2>2. \A h \in Handlers, c \in Callbacks : ~HandlerAnswers(h, c)
    BY <1>4 DEF HandlerAnswers
  <2>3. \A c \in Callbacks : ~CallbackTimeout(c)
    BY <1>4 DEF CallbackTimeout
  <2>4. ~SyncTimeout /\ \A state \in BOOLEAN : ~UserRequest(state)
    BY <1>4 DEF SyncTimeout, UserRequest
  <2>5. CASE PoweredSignal
    BY <1>4, <2>5 DEF PoweredSignal, request
  <2>6. CASE ManagerAppears
    BY <1>4, <2>6 DEF ManagerAppears, request, environment
  <2>7. CASE ManagerVanishes
    BY <1>4, <2>7 DEF ManagerVanishes, request, environment
  <2>8. ~Unload /\ ~Load
    BY <1>4 DEF Unload, Load
  <2> QED
    BY <1>4, <2>1, <2>2, <2>3, <2>4, <2>5, <2>6, <2>7, <2>8
    DEF Next, vars, environment, request, PoweredChanges, AdapterAdded,
        AdapterRemoved, BluezHandlesSet, HandlerChanges, HandlerLost
<1>5. UNCHANGED loaded \/ loaded' \/ Unload
  BY DEF Next, vars, PoweredChanges, AdapterAdded, AdapterRemoved,
         BluezHandlesSet, HandlerChanges, HandlerLost, LoadHandler,
         UnloadHandler, HandlerAnswers, CallbackTimeout, UserRequest,
         SyncTimeout, PoweredSignal, ManagerAppears, ManagerVanishes, Load
<1>6. loaded \in BOOLEAN
  BY DEF TypeOK
<1> QED
  BY <1>2, <1>3, <1>4, <1>5, <1>6

-----------------------------------------------------------------------------
(* A request always has a timer that will end it *)

\* Every step keeps a callback tracked while request_in_progress is set.
LEMMA RequestStep ==
    TypeOK /\ RequestIsTimed /\ [Next]_vars => RequestIsTimed'
<1> SUFFICES ASSUME TypeOK, RequestIsTimed, [Next]_vars PROVE RequestIsTimed'
  OBVIOUS
<1>1. CASE UNCHANGED <<loaded, request_in_progress, tracked>>
  BY <1>1 DEF RequestIsTimed
<1>2. CASE request_in_progress' = FALSE \/ loaded' = FALSE
  BY <1>2 DEF RequestIsTimed
<1>3. ASSUME NEW state \in BOOLEAN, AskHandlers(state) PROVE RequestIsTimed'
  BY <1>3 DEF AskHandlers, RequestIsTimed
<1>4. ASSUME NEW state \in BOOLEAN, RequestPowerState(state, FALSE),
             UNCHANGED loaded
      PROVE  RequestIsTimed'
  BY <1>1, <1>3, <1>4 DEF RequestPowerState, request
<1>5. CASE PoweredSignal
  <2>1. UNCHANGED loaded /\ (UNCHANGED request \/ AskHandlers(TRUE))
    BY <1>5 DEF PoweredSignal, request
  <2> QED BY <1>1, <1>3, <2>1 DEF request
<1>6. CASE SyncTimeout
  <2>1. /\ AdapterState \in BOOLEAN
        /\ RequestPowerState(AdapterState, FALSE)
        /\ UNCHANGED loaded
    BY <1>6 DEF SyncTimeout, AdapterState
  <2> QED BY <2>1, <1>4
<1>7. ASSUME NEW state \in BOOLEAN, UserRequest(state) PROVE RequestIsTimed'
  BY <1>4, <1>7 DEF UserRequest
<1>8. ASSUME NEW h \in Handlers, NEW c \in Callbacks, HandlerAnswers(h, c)
      PROVE  RequestIsTimed'
  BY <1>1, <1>2, <1>8 DEF HandlerAnswers
<1> QED
  BY <1>1, <1>2, <1>5, <1>6, <1>7, <1>8
  DEF Next, vars, request, PoweredChanges, AdapterAdded, AdapterRemoved,
      BluezHandlesSet, HandlerChanges, HandlerLost, LoadHandler,
      UnloadHandler, CallbackTimeout, ManagerAppears, ManagerVanishes,
      Unload, Load

-----------------------------------------------------------------------------
(* The menu item *)

\* update_power_state redraws the item whenever the state it shows changes.
LEMMA UpdateItem ==
    ASSUME loaded, ItemMatchesState, NEW ad, NEW hs, NEW ans,
           UpdatePowerState(ad, hs, ans)
    PROVE  ItemMatchesState'
BY DEF ItemMatchesState, UpdatePowerState

\* Every step keeps the item in line with the state.
LEMMA ItemStep ==
    TypeOK /\ QuietAfterUnload /\ HandlersNeedPlugin /\ ItemMatchesState
        /\ [Next]_vars => ItemMatchesState'
<1> SUFFICES ASSUME TypeOK, QuietAfterUnload, HandlersNeedPlugin,
                    ItemMatchesState, [Next]_vars
             PROVE  ItemMatchesState'
  OBVIOUS
<1>1. CASE UNCHANGED <<derived, loaded>>
  BY <1>1 DEF derived, ItemMatchesState
<1>2. ASSUME loaded, UNCHANGED loaded, NEW ad,
             UpdatePowerState(ad, handlers, answer)
      PROVE  ItemMatchesState'
  BY <1>2, UpdateItem
<1>3. ASSUME NEW state \in BOOLEAN, RequestPowerState(state, FALSE), loaded,
             UNCHANGED loaded
      PROVE  ItemMatchesState'
  BY <1>1, <1>2, <1>3 DEF RequestPowerState
<1>4. CASE PoweredSignal
  BY <1>1, <1>2, <1>4 DEF PoweredSignal
<1>5. CASE SyncTimeout
  <2>1. /\ AdapterState \in BOOLEAN
        /\ RequestPowerState(AdapterState, FALSE)
        /\ loaded /\ UNCHANGED loaded
    BY <1>5 DEF SyncTimeout, AdapterState, QuietAfterUnload
  <2> QED BY <2>1, <1>3
<1>6. ASSUME NEW state \in BOOLEAN, UserRequest(state)
      PROVE  ItemMatchesState'
  BY <1>3, <1>6 DEF UserRequest
<1>7. ASSUME NEW h \in Handlers, NEW c \in Callbacks, HandlerAnswers(h, c)
      PROVE  ItemMatchesState'
  <2>1. loaded /\ UNCHANGED loaded
    BY <1>7 DEF HandlerAnswers, QuietAfterUnload
  <2> QED BY <1>1, <1>2, <1>7, <2>1 DEF HandlerAnswers
<1>8. ASSUME NEW c \in Callbacks, CallbackTimeout(c) PROVE ItemMatchesState'
  <2>1. loaded /\ UNCHANGED loaded
    BY <1>8 DEF CallbackTimeout, QuietAfterUnload
  <2> QED BY <1>2, <1>8, <2>1 DEF CallbackTimeout
<1>9. ASSUME NEW h \in Handlers, NEW s \in State, HandlerChanges(h, s)
      PROVE  ItemMatchesState'
  BY <1>9, UpdateItem DEF HandlerChanges, HandlersNeedPlugin
<1>10. CASE Load
  BY <1>10 DEF Load, ItemMatchesState
<1>11. CASE Unload
  BY <1>11 DEF Unload, ItemMatchesState
<1> QED
  BY <1>1, <1>4, <1>5, <1>6, <1>7, <1>8, <1>9, <1>10, <1>11
  DEF Next, vars, PoweredChanges, AdapterAdded, AdapterRemoved,
      BluezHandlesSet, HandlerLost, LoadHandler, UnloadHandler,
      ManagerAppears, ManagerVanishes

-----------------------------------------------------------------------------
(* The answers *)

\* The counting invariant for a callback table f and outstanding answers aw.
Counted(f, aw) ==
    \A c \in Callbacks :
        f[c].called + Cardinality(Awaited(c, aw)) <= f[c].num_cb

\* The answers a callback waits for are finitely many.
LEMMA AwaitedFinite ==
    ASSUME NEW c, NEW aw
    PROVE  /\ IsFiniteSet(Awaited(c, aw))
           /\ Cardinality(Awaited(c, aw)) \in Nat
BY HandlersFinite DEF Awaited

\* Fewer outstanding answers keep the count.
LEMMA FewerAwaited ==
    ASSUME NEW aw, NEW sub \in SUBSET aw, NEW c
    PROVE  Cardinality(Awaited(c, sub)) <= Cardinality(Awaited(c, aw))
<1>1. Awaited(c, sub) \subseteq Awaited(c, aw)
  BY DEF Awaited
<1> QED
  BY <1>1, AwaitedFinite, FS_Subset

\* Freeing dead callbacks keeps the count.
LEMMA CollectCounted ==
    ASSUME NEW f \in [Callbacks -> CallbackObject], NEW aw, Counted(f, aw)
    PROVE  Counted(Collect(f, aw), aw)
<1> SUFFICES ASSUME NEW c \in Callbacks
             PROVE  Collect(f, aw)[c].called + Cardinality(Awaited(c, aw))
                        <= Collect(f, aw)[c].num_cb
  BY DEF Counted
<1>1. CASE Alive(f, aw, c)
  BY <1>1 DEF Collect, Counted
<1>2. CASE ~Alive(f, aw, c)
  <2>1. Awaited(c, aw) = {}
    BY <1>2 DEF Alive
  <2>2. Cardinality(Awaited(c, aw)) = 0
    BY <2>1, FS_EmptySet
  <2>3. Collect(f, aw)[c] = NoCallback
    BY <1>2 DEF Collect
  <2> QED BY <2>2, <2>3 DEF NoCallback
<1> QED BY <1>1, <1>2

\* A new request expects one answer from every loaded handler.
LEMMA AskCounted ==
    ASSUME TypeOK, AnswersCounted, NEW state \in BOOLEAN, AskHandlers(state)
    PROVE  AnswersCounted'
<1>1. PICK c \in Callbacks :
          /\ ~Alive(cb, awaiting, c)
          /\ cb' = [cb EXCEPT ![c] = [num_cb |-> Cardinality(handlers),
                                      called |-> 0,
                                      state |-> state, timer |-> TRUE]]
          /\ awaiting' = awaiting \cup (handlers \X {c})
  BY DEF AskHandlers
<1> SUFFICES ASSUME NEW d \in Callbacks
             PROVE  cb'[d].called + Cardinality(Awaited(d, awaiting'))
                        <= cb'[d].num_cb
  BY DEF AnswersCounted
<1>2. CASE d = c
  <2>1. Awaited(c, awaiting') = handlers
    BY <1>1 DEF TypeOK, Alive, Awaited
  <2>2. Cardinality(handlers) \in Nat
    BY HandlersFinite DEF TypeOK
  <2> QED BY <1>1, <1>2, <2>1, <2>2 DEF TypeOK
<1>3. CASE d # c
  <2>1. Awaited(d, awaiting') = Awaited(d, awaiting)
    BY <1>1, <1>3 DEF Awaited
  <2> QED BY <1>1, <1>3, <2>1 DEF TypeOK, AnswersCounted
<1> QED BY <1>2, <1>3

\* Every step keeps the answers to come within num_cb.
LEMMA AnswersStep ==
    TypeOK /\ AnswersCounted /\ [Next]_vars => AnswersCounted'
<1> SUFFICES ASSUME TypeOK, AnswersCounted, [Next]_vars
             PROVE  AnswersCounted'
  OBVIOUS
<1>1. CASE UNCHANGED <<cb, awaiting>>
  BY <1>1 DEF AnswersCounted, Awaited
<1>2. ASSUME NEW f \in [Callbacks -> CallbackObject],
             Counted(f, awaiting'), cb' = Collect(f, awaiting')
      PROVE  AnswersCounted'
  <2>1. Counted(cb', awaiting')
    BY <1>2, CollectCounted
  <2> QED BY <2>1 DEF Counted, AnswersCounted, Awaited
<1>3. ASSUME NEW h \in Handlers, UnloadHandler(h) PROVE AnswersCounted'
  <2>1. awaiting' \in SUBSET awaiting /\ cb' = Collect(cb, awaiting')
    BY <1>3 DEF UnloadHandler
  <2>2. Counted(cb, awaiting')
    <3> SUFFICES ASSUME NEW c \in Callbacks
                 PROVE  cb[c].called + Cardinality(Awaited(c, awaiting'))
                            <= cb[c].num_cb
      BY DEF Counted
    <3>1. Cardinality(Awaited(c, awaiting')) <= Cardinality(Awaited(c, awaiting))
      BY <2>1, FewerAwaited
    <3>2. cb[c].called + Cardinality(Awaited(c, awaiting)) <= cb[c].num_cb
      BY DEF AnswersCounted
    <3>3. cb[c].called \in Nat /\ cb[c].num_cb \in Nat
      BY DEF TypeOK, CallbackObject
    <3> QED BY <3>1, <3>2, <3>3, AwaitedFinite
  <2> QED BY <1>2, <2>1, <2>2 DEF TypeOK
<1>4. ASSUME NEW h \in Handlers, NEW c \in Callbacks, HandlerAnswers(h, c)
      PROVE  AnswersCounted'
  <2> DEFINE f == [cb EXCEPT ![c] = Stopped(Answered(cb[c]))]
             g == [cb EXCEPT ![c] = Answered(cb[c])]
  <2>1. awaiting' = awaiting \ {<<h, c>>} /\ <<h, c>> \in awaiting
    BY <1>4 DEF HandlerAnswers
  <2>2. f \in [Callbacks -> CallbackObject] /\ g \in [Callbacks -> CallbackObject]
    BY CallbackType DEF TypeOK
  <2>3. cb' = Collect(f, awaiting') \/ cb' = Collect(g, awaiting')
    BY <1>4 DEF HandlerAnswers
  <2>4. Cardinality(Awaited(c, awaiting'))
            = Cardinality(Awaited(c, awaiting)) - 1
    <3>1. /\ Awaited(c, awaiting') = Awaited(c, awaiting) \ {h}
          /\ h \in Awaited(c, awaiting)
      BY <2>1 DEF Awaited
    <3> QED BY <3>1, AwaitedFinite, FS_RemoveElement
  <2>5. \A d \in Callbacks \ {c} : Awaited(d, awaiting') = Awaited(d, awaiting)
    BY <2>1 DEF Awaited
  <2>6. /\ f[c].called = cb[c].called + 1 /\ f[c].num_cb = cb[c].num_cb
        /\ g[c].called = cb[c].called + 1 /\ g[c].num_cb = cb[c].num_cb
    BY DEF TypeOK, Answered, Stopped
  <2>7. \A d \in Callbacks \ {c} : f[d] = cb[d] /\ g[d] = cb[d]
    BY DEF TypeOK
  <2>8. \A d \in Callbacks :
           /\ cb[d].called \in Nat /\ cb[d].num_cb \in Nat
           /\ Cardinality(Awaited(d, awaiting)) \in Nat
           /\ cb[d].called + Cardinality(Awaited(d, awaiting)) <= cb[d].num_cb
    BY AwaitedFinite DEF TypeOK, CallbackObject, AnswersCounted
  <2> HIDE DEF f, g
  <2>9. Counted(f, awaiting') /\ Counted(g, awaiting')
    <3> SUFFICES ASSUME NEW d \in Callbacks
        PROVE  /\ f[d].called + Cardinality(Awaited(d, awaiting')) <= f[d].num_cb
               /\ g[d].called + Cardinality(Awaited(d, awaiting')) <= g[d].num_cb
      BY DEF Counted
    <3>1. CASE d = c
      BY <2>4, <2>6, <2>8, <3>1
    <3>2. CASE d # c
      BY <2>5, <2>7, <2>8, <3>2
    <3> QED BY <3>1, <3>2
  <2> QED BY <1>2, <2>2, <2>3, <2>9
<1>5. ASSUME NEW c \in Callbacks, CallbackTimeout(c) PROVE AnswersCounted'
  <2> DEFINE f == [cb EXCEPT ![c] = Stopped(cb[c])]
  <2>1. cb' = Collect(f, awaiting') /\ awaiting' = awaiting
    BY <1>5 DEF CallbackTimeout
  <2>2. f \in [Callbacks -> CallbackObject]
    BY CallbackType DEF TypeOK
  <2>3. \A d \in Callbacks :
           f[d].called = cb[d].called /\ f[d].num_cb = cb[d].num_cb
    BY DEF TypeOK, Stopped
  <2> HIDE DEF f
  <2>4. Counted(f, awaiting')
    BY <2>1, <2>3 DEF Counted, AnswersCounted
  <2> QED BY <1>2, <2>1, <2>2, <2>4
<1>6. ASSUME NEW state \in BOOLEAN, RequestPowerState(state, FALSE)
      PROVE  AnswersCounted'
  BY <1>1, <1>6, AskCounted DEF RequestPowerState, request
<1>7. CASE PoweredSignal
  BY <1>1, <1>7, AskCounted DEF PoweredSignal, request
<1>8. CASE SyncTimeout
  <2>1. AdapterState \in BOOLEAN /\ RequestPowerState(AdapterState, FALSE)
    BY <1>8 DEF SyncTimeout, AdapterState
  <2> QED BY <2>1, <1>6
<1>9. ASSUME NEW state \in BOOLEAN, UserRequest(state) PROVE AnswersCounted'
  BY <1>6, <1>9 DEF UserRequest
<1>10. CASE Unload
  <2> DEFINE f == [c \in Callbacks |-> IF c \in tracked
                       THEN Stopped(cb[c]) ELSE cb[c]]
  <2>1. cb' = Collect(f, awaiting') /\ awaiting' = {}
    BY <1>10 DEF Unload
  <2>2. f \in [Callbacks -> CallbackObject]
    BY CallbackType DEF TypeOK
  <2>3. \A d \in Callbacks :
           f[d].called = cb[d].called /\ f[d].num_cb = cb[d].num_cb
    BY DEF TypeOK, Stopped
  <2> HIDE DEF f
  <2>4. Counted(f, awaiting')
    <3> SUFFICES ASSUME NEW c \in Callbacks
                 PROVE  f[c].called + Cardinality(Awaited(c, awaiting'))
                            <= f[c].num_cb
      BY DEF Counted
    <3>1. Cardinality(Awaited(c, awaiting')) <= Cardinality(Awaited(c, awaiting))
      BY <2>1, FewerAwaited
    <3>2. cb[c].called + Cardinality(Awaited(c, awaiting)) <= cb[c].num_cb
      BY DEF AnswersCounted
    <3>3. cb[c].called \in Nat /\ cb[c].num_cb \in Nat
      BY DEF TypeOK, CallbackObject
    <3> QED BY <2>3, <3>1, <3>2, <3>3, AwaitedFinite
  <2> QED BY <1>2, <2>1, <2>2, <2>4
<1> QED
  BY <1>1, <1>3, <1>4, <1>5, <1>7, <1>8, <1>9, <1>10
  DEF Next, vars, request, PoweredChanges, AdapterAdded, AdapterRemoved,
      BluezHandlesSet, HandlerChanges, HandlerLost, LoadHandler,
      ManagerAppears, ManagerVanishes, Load

-----------------------------------------------------------------------------
(* The theorems *)

\* The inductive invariant.
Safe ==
    /\ TypeOK
    /\ TimersTracked
    /\ RequestIsTimed
    /\ AnswersCounted
    /\ QuietAfterUnload
    /\ ItemMatchesState
    /\ HandlersNeedPlugin

\* It holds initially and is kept by every step.
LEMMA SafeInvariant == Spec => []Safe
<1>1. Init => Safe
  <2> SUFFICES ASSUME Init PROVE Safe
    OBVIOUS
  <2>1. TypeOK
    BY InitType
  <2>2. \A c \in Callbacks : cb[c] = NoCallback /\ Awaited(c, awaiting) = {}
    BY DEF Init, Awaited
  <2>3. AnswersCounted
    BY <2>2, FS_EmptySet DEF AnswersCounted, NoCallback
  <2>4. TimersTracked /\ RequestIsTimed /\ QuietAfterUnload
    BY <2>2 DEF Init, TimersTracked, RequestIsTimed, QuietAfterUnload, NoCallback
  <2>5. ItemMatchesState /\ HandlersNeedPlugin
    BY DEF Init, ItemMatchesState, HandlersNeedPlugin
  <2> QED BY <2>1, <2>3, <2>4, <2>5 DEF Safe
<1>2. Safe /\ [Next]_vars => Safe'
  BY TypeStep, TimersStep, RequestStep, AnswersStep, QuietStep, ItemStep
  DEF Safe
<1> QED
  BY <1>1, <1>2, PTL DEF Spec

\* _pending_callbacks names exactly the callbacks with a running timer.
THEOREM TimersAreTracked == Spec => []TimersTracked
BY SafeInvariant, PTL DEF Safe

\* A request in progress has a timer that will end it.
THEOREM RequestsAreTimed == Spec => []RequestIsTimed
BY SafeInvariant, PTL DEF Safe

\* No interleaving of answers, timeouts and unloads completes a request twice.
THEOREM AnswersAreCounted == Spec => []AnswersCounted
BY SafeInvariant, PTL DEF Safe

\* Between any late answers and timeouts, a request that blocks the others has
\* a timer that frees them, and none completes twice.
THEOREM RequestsAreAccounted == Spec => []RequestsAccounted
BY SafeInvariant, PTL DEF Safe, RequestsAccounted

\* An unloaded plugin is reached by no timer and no late answer.
THEOREM UnloadIsQuiet == Spec => []QuietAfterUnload
BY SafeInvariant, PTL DEF Safe

\* The menu item offers the opposite of the current state.
THEOREM ItemIsRight == Spec => []ItemMatchesState
BY SafeInvariant, PTL DEF Safe

\* No step changes adapter_state without recomputing current_state.
THEOREM AdapterStateIsRecomputed == Spec => AdapterStateRecomputed
<1> DEFINE A == adapter_state' # adapter_state =>
                  current_state' = IsOn(adapter_state', handlers', answer')
<1>1. Safe /\ [Next]_vars => [A]_vars
  <2> SUFFICES ASSUME Safe, [Next]_vars PROVE A
    OBVIOUS
  <2>1. CASE UNCHANGED adapter_state
    BY <2>1
  <2>2. ASSUME NEW ad, UpdatePowerState(ad, handlers, answer),
               UNCHANGED <<handlers, answer>>
        PROVE  A
    BY <2>2 DEF UpdatePowerState
  <2>3. ASSUME NEW state, RequestPowerState(state, FALSE),
               UNCHANGED <<handlers, answer>>
        PROVE  A
    BY <2>1, <2>2, <2>3 DEF RequestPowerState, derived
  <2>4. ASSUME NEW h \in Handlers, NEW c \in Callbacks, HandlerAnswers(h, c)
        PROVE  A
    BY <2>1, <2>2, <2>4 DEF HandlerAnswers, derived, environment
  <2>5. ASSUME NEW h \in Handlers, NEW s \in State, HandlerChanges(h, s)
        PROVE  A
    BY <2>1, <2>5 DEF HandlerChanges, UpdatePowerState
  <2>6. ASSUME NEW c \in Callbacks, CallbackTimeout(c) PROVE A
    BY <2>2, <2>6 DEF CallbackTimeout, environment
  <2>7. ASSUME NEW state \in BOOLEAN, UserRequest(state) PROVE A
    BY <2>3, <2>7 DEF UserRequest, environment
  <2>8. CASE SyncTimeout
    BY <2>3, <2>8 DEF SyncTimeout, environment
  <2>9. CASE PoweredSignal
    BY <2>1, <2>2, <2>9 DEF PoweredSignal, derived
  <2>10. CASE Load
    BY <2>10 DEF Load, Safe, HandlersNeedPlugin, IsOn, environment
  <2> HIDE DEF A
  <2> QED
    BY <2>1, <2>4, <2>5, <2>6, <2>7, <2>8, <2>9, <2>10
    DEF Next, vars, derived, PoweredChanges, AdapterAdded, AdapterRemoved,
        BluezHandlesSet, HandlerLost, LoadHandler, UnloadHandler,
        ManagerAppears, ManagerVanishes, Unload
<1> QED
  BY <1>1, SafeInvariant, PTL DEF Spec, AdapterStateRecomputed

\* The answer that switches the adapters is the last one awaited: with one
\* more to come, called and the awaited together would exceed num_cb.
THEOREM SwitchedOnceAnswered == Spec => AnsweredBeforeSwitched
<1> DEFINE A == \A h \in Handlers, c \in Callbacks :
                   <<h, c>> \in awaiting \ awaiting' /\ setCalls' # setCalls
                       => Awaited(c, awaiting') = {}
<1>1. Safe /\ [Next]_vars => [A]_vars
  <2> SUFFICES ASSUME Safe, [Next]_vars PROVE A
    OBVIOUS
  <2>1. CASE setCalls' = setCalls \/ awaiting \subseteq awaiting'
    BY <2>1
  <2>2. ASSUME NEW h \in Handlers, NEW c \in Callbacks, HandlerAnswers(h, c)
        PROVE  A
    <3>1. /\ <<h, c>> \in awaiting /\ awaiting' = awaiting \ {<<h, c>>}
          /\ setCalls' # setCalls => cb[c].called + 1 = cb[c].num_cb
      BY <2>2 DEF HandlerAnswers
    <3>2. SUFFICES ASSUME setCalls' # setCalls
                   PROVE  Awaited(c, awaiting') = {}
      BY <3>1
    <3>3. /\ Awaited(c, awaiting') = Awaited(c, awaiting) \ {h}
          /\ h \in Awaited(c, awaiting)
      BY <3>1 DEF Awaited
    <3>4. Cardinality(Awaited(c, awaiting'))
              = Cardinality(Awaited(c, awaiting)) - 1
      BY <3>3, AwaitedFinite, FS_RemoveElement
    <3>5. /\ cb[c].called + Cardinality(Awaited(c, awaiting)) <= cb[c].num_cb
          /\ cb[c].called \in Nat /\ cb[c].num_cb \in Nat
          /\ Cardinality(Awaited(c, awaiting)) \in Nat
      BY AwaitedFinite DEF Safe, AnswersCounted, TypeOK, CallbackObject
    <3>6. Cardinality(Awaited(c, awaiting')) = 0
      BY <3>1, <3>2, <3>4, <3>5, AwaitedFinite
    <3> QED
      BY <3>6, AwaitedFinite, FS_EmptySet
  <2>3. ASSUME NEW state, RequestPowerState(state, FALSE) PROVE A
    BY <2>1, <2>3 DEF RequestPowerState, request, AskHandlers
  <2>4. ASSUME NEW state \in BOOLEAN, UserRequest(state) PROVE A
    BY <2>3, <2>4 DEF UserRequest
  <2>5. CASE SyncTimeout
    BY <2>3, <2>5 DEF SyncTimeout
  <2>6. CASE PoweredSignal
    BY <2>1, <2>6 DEF PoweredSignal, request, AskHandlers
  <2> HIDE DEF A
  <2> QED
    BY <2>1, <2>2, <2>4, <2>5, <2>6
    DEF Next, vars, request, environment, PoweredChanges, BluezHandlesSet,
        AdapterAdded, AdapterRemoved, HandlerChanges, HandlerLost,
        LoadHandler, UnloadHandler, CallbackTimeout,
        ManagerAppears, ManagerVanishes, Unload, Load
<1> QED
  BY <1>1, SafeInvariant, PTL DEF Spec, AnsweredBeforeSwitched

(***************************************************************************)
(* The kill switch: what unread events still change.                       *)
(***************************************************************************)
\* The last event about a switch says this of it.
LastSays(q, i, b) ==
    \E k \in DOMAIN q : /\ q[k].idx = i /\ q[k].to = b
                        /\ \A j \in DOMAIN q : j > k => q[j].idx # i
Unmentioned(q, i) == \A k \in DOMAIN q : q[k].idx # i

\* What the kernel has of a switch is known, or the last event about it says it.  One that
\* went while the channel was closed stays in the table.
KernelFollowed ==
    plugin.open => \A i \in Idx :
        \/ LastSays(events, i, kernel[i])
        \/ Unmentioned(events, i) /\ (kernel[i] = Absent \/ known[i] = kernel[i])

\* When the k-th event is read, its switch is known: so said the event about it before that,
\* or there is none and it is known now.
PresentBefore(q, k) ==
    \/ known[q[k].idx] # Absent /\ \A j \in DOMAIN q : j < k => q[j].idx # q[k].idx
    \/ \E j \in DOMAIN q : /\ j < k /\ q[j].idx = q[k].idx /\ q[j].to # Absent
                           /\ \A l \in DOMAIN q : j < l /\ l < k => q[l].idx # q[k].idx
RemovalsKnown == \A k \in DOMAIN events : events[k].to = Absent => PresentBefore(events, k)

StateCurrent ==
    CaughtUp =>
        /\ told = Answer(plugin)
        /\ plugin.enabled <=> \A i \in Listed(known) : ~Blocked(known[i])
        /\ shown /\ Forces(plugin) => visible

MirrorInv == KillSwitchTypeOK /\ KernelFollowed /\ RemovalsKnown /\ StateCurrent

Switches == Blocks \cup {Absent}
Events == [idx : Idx, to : Switches]

LEMMA AbsentIsNoBlock == Absent \notin Blocks
BY KillSwitchAssumption DEF Blocks

\* A sequence that mentions each switch of a set once.
Mentions(e, S, f) ==
    /\ e \in Seq(Events)
    /\ \A n \in DOMAIN e : e[n].idx \in S /\ e[n].to = f[e[n].idx]
    /\ \A m, n \in DOMAIN e : e[m].idx = e[n].idx => m = n
    /\ \A i \in S : \E n \in DOMAIN e : e[n].idx = i

\* So does each sequence of their events.
LEMMA EventsMention ==
    ASSUME NEW S \in SUBSET Idx, NEW f \in [Idx -> Switches], NEW e \in EventsOf(S, f)
    PROVE  Mentions(e, S, f)
<1>1. Cardinality(S) \in Nat
  BY KillSwitchAssumption, FS_Subset, FS_CardinalityType
<1>2. PICK order \in Bijection(1 .. Cardinality(S), S) :
        e = [n \in 1 .. Cardinality(S) |-> [idx |-> order[n], to |-> f[order[n]]]]
  BY DEF EventsOf
<1>3. /\ order \in [1 .. Cardinality(S) -> S]
      /\ \A a, b \in DOMAIN order : order[a] = order[b] => a = b
      /\ \A i \in S : \E n \in 1 .. Cardinality(S) : order[n] = i
  BY <1>2 DEF Bijection, Injection, Surjection, IsInjective
<1>4. \A n \in 1 .. Cardinality(S) : [idx |-> order[n], to |-> f[order[n]]] \in Events
  BY <1>3 DEF Events
<1>5. e \in Seq(Events)
  BY <1>1, <1>2, <1>4
<1> QED
  BY <1>1, <1>2, <1>3, <1>5 DEF Mentions

\* The events are appended to those that were not read.
LEMMA Concatenated ==
    ASSUME NEW q \in Seq(Events), NEW e \in Seq(Events)
    PROVE  /\ q \o e \in Seq(Events) /\ Len(q) \in Nat /\ Len(e) \in Nat
           /\ DOMAIN q = 1 .. Len(q) /\ DOMAIN e = 1 .. Len(e)
           /\ DOMAIN (q \o e) = 1 .. Len(q) + Len(e)
           /\ \A k \in DOMAIN q : (q \o e)[k] = q[k]
           /\ \A k \in DOMAIN e : (q \o e)[Len(q) + k] = e[k]
           /\ \A k \in DOMAIN (q \o e) : k \notin DOMAIN q => k - Len(q) \in DOMAIN e
           /\ q \o e = <<>> => q = <<>> /\ e = <<>>
OBVIOUS

\* The kernel changes some switches and says so.
Changed(S, f, e) ==
    /\ \A i \in Idx : kernel'[i] = IF i \in S THEN f[i] ELSE kernel[i]
    /\ \A i \in S : f[i] # kernel[i]
    /\ Mentions(e, S, f)
    /\ events' = IF plugin.open THEN events \o e ELSE events
    /\ UNCHANGED <<iconVars, plugin, known, told>>

LEMMA ChangeFollowed ==
    ASSUME MirrorInv, NEW S \in SUBSET Idx, NEW f \in [Idx -> Switches], NEW e, Changed(S, f, e)
    PROVE  KernelFollowed'
<1> SUFFICES ASSUME plugin.open, NEW i \in Idx
             PROVE  \/ LastSays(events', i, kernel'[i])
                    \/ Unmentioned(events', i) /\ (kernel'[i] = Absent \/ known[i] = kernel'[i])
  BY DEF KernelFollowed, Changed, Mentions
<1> DEFINE q == events \o e
<1>1. events \in Seq(Events) /\ e \in Seq(Events) /\ events' = q
  BY DEF MirrorInv, KillSwitchTypeOK, Events, Switches, Changed, Mentions
<1>2. CASE i \in S
  <2>1. PICK n \in DOMAIN e : e[n].idx = i
    BY <1>2 DEF Changed, Mentions
  <2>2. e[n].to = kernel'[i]
    BY <1>2, <2>1 DEF Changed, Mentions
  <2>3. Len(events) + n \in DOMAIN q /\ q[Len(events) + n] = e[n]
    BY <1>1, <2>1, Concatenated
  <2>4. ASSUME NEW j \in DOMAIN q, j > Len(events) + n
        PROVE  q[j].idx # i
    <3>1. j \notin DOMAIN events /\ j - Len(events) \in DOMAIN e /\ j - Len(events) # n
          /\ q[j] = e[j - Len(events)]
      <4>1. /\ Len(events) \in Nat /\ Len(e) \in Nat /\ DOMAIN events = 1 .. Len(events)
            /\ DOMAIN e = 1 .. Len(e) /\ DOMAIN q = 1 .. Len(events) + Len(e)
            /\ \A k \in DOMAIN e : q[Len(events) + k] = e[k]
        BY <1>1, Concatenated
      <4>2. j \notin DOMAIN events /\ j - Len(events) \in DOMAIN e /\ j - Len(events) # n
            /\ j = Len(events) + (j - Len(events))
        BY <4>1, <2>1, <2>4
      <4> QED
        BY <4>1, <4>2
    <3> QED
      BY <2>1, <3>1 DEF Changed, Mentions
  <2>5. LastSays(q, i, kernel'[i])
    BY <2>1, <2>2, <2>3, <2>4 DEF LastSays
  <2> QED
    BY <1>1, <2>5
<1>3. CASE i \notin S
  <2>1. kernel'[i] = kernel[i] /\ \A n \in DOMAIN e : e[n].idx # i
    BY <1>3 DEF Changed, Mentions
  <2>2. \A j \in DOMAIN q : j \notin DOMAIN events => q[j].idx # i
    <3> TAKE j \in DOMAIN q
    <3> HAVE j \notin DOMAIN events
    <3>1. j - Len(events) \in DOMAIN e /\ q[Len(events) + (j - Len(events))] = e[j - Len(events)]
      BY <1>1, Concatenated
    <3>2. j = Len(events) + (j - Len(events))
      BY <1>1, Concatenated
    <3> QED
      BY <2>1, <3>1, <3>2
  <2>3. \A k \in DOMAIN events : k \in DOMAIN q /\ q[k] = events[k]
    BY <1>1, Concatenated
  <2>4. LastSays(events, i, kernel[i]) => LastSays(q, i, kernel[i])
    BY <2>2, <2>3 DEF LastSays
  <2>5. Unmentioned(events, i) => Unmentioned(q, i)
    BY <2>2, <2>3 DEF Unmentioned
  <2> QED
    BY <1>1, <2>1, <2>4, <2>5 DEF MirrorInv, KernelFollowed
<1> QED
  BY <1>2, <1>3

LEMMA ChangeRemovals ==
    ASSUME MirrorInv, NEW S \in SUBSET Idx, NEW f \in [Idx -> Switches], NEW e, Changed(S, f, e)
    PROVE  RemovalsKnown'
<1>1. events \in Seq(Events) /\ e \in Seq(Events) /\ known' = known
  BY DEF MirrorInv, KillSwitchTypeOK, Events, Switches, Changed, Mentions
<1>2. CASE ~plugin.open
  BY <1>1, <1>2 DEF MirrorInv, RemovalsKnown, PresentBefore, Changed, Mentions
<1>3. CASE plugin.open
  <2> DEFINE q == events \o e
  <2>1. events' = q /\ Len(events) \in Nat /\ DOMAIN events = 1 .. Len(events)
        /\ \A k \in DOMAIN events : k \in DOMAIN q /\ q[k] = events[k]
    BY <1>1, <1>3, Concatenated DEF Changed, Mentions
  <2>2. ASSUME NEW k \in DOMAIN q, q[k].to = Absent
        PROVE  PresentBefore(q, k)
    <3>1. CASE k \in DOMAIN events
      <4>1. PresentBefore(events, k)
        BY <2>1, <2>2, <3>1 DEF MirrorInv, RemovalsKnown
      <4>2. \A j \in DOMAIN q : j < k => j \in DOMAIN events
        <5>1. DOMAIN q = 1 .. Len(events) + Len(e) /\ Len(e) \in Nat
          BY <1>1, Concatenated
        <5> QED
          BY <2>1, <3>1, <5>1
      <4> QED
        BY <2>1, <3>1, <4>1, <4>2 DEF PresentBefore
    <3>2. CASE k \notin DOMAIN events
      <4> DEFINE i == q[k].idx
      <4>1. \A j \in DOMAIN q : j \notin DOMAIN events =>
                /\ j - Len(events) \in DOMAIN e /\ j \in Int
                /\ q[j] = e[j - Len(events)]
        <5> TAKE j \in DOMAIN q
        <5> HAVE j \notin DOMAIN events
        <5>1. /\ j - Len(events) \in DOMAIN e /\ j \in Int /\ j = Len(events) + (j - Len(events))
              /\ q[Len(events) + (j - Len(events))] = e[j - Len(events)]
          BY <1>1, Concatenated
        <5> QED
          BY <5>1
      <4>2. i \in S /\ kernel[i] # Absent /\ i \in Idx
        <5>1. q[k] = e[k - Len(events)] /\ k - Len(events) \in DOMAIN e
          BY <3>2, <4>1
        <5> QED
          BY <2>2, <5>1 DEF Changed, Mentions
      <4>3. \A j \in DOMAIN q : j < k /\ j \notin DOMAIN events => q[j].idx # i
        <5> TAKE j \in DOMAIN q
        <5> HAVE j < k /\ j \notin DOMAIN events
        <5>1. /\ q[k] = e[k - Len(events)] /\ k - Len(events) \in DOMAIN e /\ k \in Int
              /\ q[j] = e[j - Len(events)] /\ j - Len(events) \in DOMAIN e /\ j \in Int
          BY <3>2, <4>1
        <5>2. k - Len(events) # j - Len(events)
          BY <2>1, <5>1
        <5> QED
          BY <5>1, <5>2 DEF Changed, Mentions
      <4>4. \A j \in DOMAIN events : j < k
        <5>1. DOMAIN q = 1 .. Len(events) + Len(e) /\ Len(e) \in Nat
          BY <1>1, Concatenated
        <5> QED
          BY <2>1, <3>2, <5>1
      <4>5. CASE LastSays(events, i, kernel[i])
        <5>1. PICK j \in DOMAIN events : /\ events[j].idx = i /\ events[j].to = kernel[i]
                                         /\ \A l \in DOMAIN events : l > j => events[l].idx # i
          BY <4>5 DEF LastSays
        <5>2. \A l \in DOMAIN q : j < l /\ l < k => q[l].idx # i
          <6> TAKE l \in DOMAIN q
          <6> HAVE j < l /\ l < k
          <6>1. CASE l \in DOMAIN events
            BY <2>1, <5>1, <6>1
          <6>2. CASE l \notin DOMAIN events
            BY <4>3, <6>2
          <6> QED
            BY <6>1, <6>2
        <5>3. j \in DOMAIN q /\ j < k /\ q[j].idx = i /\ q[j].to # Absent
          BY <2>1, <4>2, <4>4, <5>1
        <5> QED
          BY <5>2, <5>3 DEF PresentBefore
      <4>6. CASE Unmentioned(events, i) /\ (kernel[i] = Absent \/ known[i] = kernel[i])
        <5>1. known[i] # Absent
          BY <4>2, <4>6
        <5>2. \A j \in DOMAIN q : j < k => q[j].idx # i
          BY <2>1, <4>3, <4>6 DEF Unmentioned
        <5> QED
          BY <5>1, <5>2 DEF PresentBefore
      <4> QED
        BY <1>3, <4>2, <4>5, <4>6 DEF MirrorInv, KernelFollowed
    <3> QED
      BY <3>1, <3>2
  <2> QED
    BY <1>1, <2>1, <2>2 DEF RemovalsKnown, PresentBefore
<1> QED
  BY <1>2, <1>3

LEMMA ChangeCurrent ==
    ASSUME MirrorInv, NEW S \in SUBSET Idx, NEW f \in [Idx -> Switches], NEW e, Changed(S, f, e),
           kernel' \in [Idx -> Switches]
    PROVE  StateCurrent'
<1> SUFFICES ASSUME CaughtUp'
             PROVE  /\ told' = Answer(plugin')
                    /\ plugin'.enabled <=> \A i \in Listed(known') : ~Blocked(known'[i])
                    /\ shown' /\ Forces(plugin') => visible'
  BY DEF StateCurrent, CaughtUp
<1>1. plugin.open /\ events' = <<>> /\ plugin' = plugin /\ known' = known /\ told' = told
      /\ shown' = shown /\ visible' = visible
  BY DEF CaughtUp, Changed, iconVars
<1>2. events = <<>> /\ e = <<>>
  BY <1>1, Concatenated DEF MirrorInv, KillSwitchTypeOK, Events, Switches, Changed, Mentions
<1>3. S = {}
  BY <1>2 DEF Changed, Mentions
<1>4. kernel' = kernel
  BY <1>3 DEF Changed, MirrorInv, KillSwitchTypeOK, Switches
<1>5. CaughtUp
  BY <1>1, <1>2, <1>4 DEF CaughtUp
<1> QED
  BY <1>1, <1>5 DEF MirrorInv, StateCurrent

\* Moving one switch, and moving all, change the kernel in this way.
LEMMA SwitchMovesChanges ==
    ASSUME MirrorInv, NEW i \in Idx, NEW to \in Switches, SwitchMoves(i, to)
    PROVE  /\ \E f \in [Idx -> Switches] : \E e : Changed({i}, f, e)
           /\ kernel' \in [Idx -> Switches]
<1> DEFINE m == [idx |-> i, to |-> to]
           e == <<m>>
           f == [j \in Idx |-> IF j = i THEN to ELSE kernel[j]]
<1>1. kernel \in [Idx -> Switches] /\ kernel[i] # to
  BY DEF MirrorInv, KillSwitchTypeOK, Switches, SwitchMoves
<1>2. kernel' = f /\ f \in [Idx -> Switches]
  BY <1>1 DEF SwitchMoves
<1>3. m \in Events /\ e \in Seq(Events)
  BY DEF Events
<1>4. DOMAIN e = {1} /\ e[1].idx = i /\ e[1].to = to
  OBVIOUS
<1>5. events' = IF plugin.open THEN events \o e ELSE events
  BY DEF SwitchMoves, Emit
<1>6. UNCHANGED <<iconVars, plugin, known, told>>
  BY DEF SwitchMoves
<1>7. f[i] = to /\ \A j \in Idx : kernel'[j] = IF j \in {i} THEN f[j] ELSE kernel[j]
  BY <1>2
<1>8. Changed({i}, f, e)
  <2> HIDE DEF e, f
  <2> QED
    BY <1>1, <1>3, <1>4, <1>5, <1>6, <1>7 DEF Changed, Mentions
<1> QED
  BY <1>2, <1>8

LEMMA SetRfkillStateChanges ==
    ASSUME MirrorInv, NEW state \in BOOLEAN, SetRfkillState(state)
    PROVE  /\ \E S \in SUBSET Idx, f \in [Idx -> Switches] : \E e : Changed(S, f, e)
           /\ kernel' \in [Idx -> Switches]
<1> DEFINE f == [i \in Idx |-> IF kernel[i] = Absent THEN Absent
                               ELSE [kernel[i] EXCEPT !.soft = ~state]]
           S == {i \in Idx : f[i] # kernel[i]}
<1>1. kernel \in [Idx -> Switches]
  BY DEF MirrorInv, KillSwitchTypeOK, Switches
<1>2. f \in [Idx -> Switches] /\ kernel' = f
  <2>1. \A i \in Idx : kernel[i] # Absent => kernel[i] \in Blocks
    BY <1>1 DEF Switches
  <2>2. \A b \in Blocks : [b EXCEPT !.soft = ~state] \in Blocks
    BY DEF Blocks
  <2>3. \A i \in Idx : f[i] \in Switches
    BY <2>1, <2>2 DEF Switches
  <2> QED
    BY <2>3 DEF SetRfkillState
<1>3. PICK e \in EventsOf(S, f) : Emit(e)
  BY DEF SetRfkillState
<1>4. UNCHANGED <<iconVars, plugin, known, told>>
  BY DEF SetRfkillState
<1>5. S \in SUBSET Idx
  OBVIOUS
<1> HIDE DEF f
<1>6. Mentions(e, S, f)
  BY <1>2, <1>3, <1>5, EventsMention
<1>7. \A i \in Idx : kernel'[i] = IF i \in S THEN f[i] ELSE kernel[i]
  BY <1>2
<1>8. events' = IF plugin.open THEN events \o e ELSE events
  BY <1>3 DEF Emit
<1>9. Changed(S, f, e)
  BY <1>4, <1>6, <1>7, <1>8 DEF Changed
<1> QED
  BY <1>2, <1>5, <1>9

\* Opening the channel again: every switch there is has one event.
LEMMA ReopenKeeps ==
    ASSUME MirrorInv, NEW p \in [loaded : {TRUE}, open : BOOLEAN, enabled : BOOLEAN, hardblocked : BOOLEAN],
           Reopen(p), UNCHANGED <<iconVars, kernel, known, calls, told, adapters>>
    PROVE  MirrorInv'
<1>1. /\ kernel \in [Idx -> Switches] /\ kernel' = kernel /\ known' = known
      /\ known \in [Idx -> Switches] /\ calls' = calls
      /\ visible' = visible /\ shown' = shown /\ timeout' = timeout /\ sources' = sources
  BY DEF MirrorInv, KillSwitchTypeOK, Switches, iconVars
<1>2. CASE ~access'
  <2>1. /\ plugin' = [p EXCEPT !.open = FALSE, !.enabled = FALSE, !.hardblocked = FALSE]
        /\ events' = <<>>
    BY <1>2 DEF Reopen
  <2>2. ~plugin'.open /\ plugin' \in [loaded : BOOLEAN, open : BOOLEAN, enabled : BOOLEAN, hardblocked : BOOLEAN]
    BY <2>1
  <2>3. <<>> \in Seq(Events)
    OBVIOUS
  <2>4. KillSwitchTypeOK'
    BY <1>1, <2>1, <2>2, <2>3 DEF MirrorInv, KillSwitchTypeOK, Switches, Events, OneTimer
  <2> QED
    BY <2>1, <2>2, <2>4 DEF MirrorInv, KernelFollowed, RemovalsKnown, StateCurrent, CaughtUp
<1>3. CASE access'
  <2>1. plugin' = [p EXCEPT !.open = TRUE] /\ events' \in EventsOf(Listed(kernel), kernel)
    BY <1>3 DEF Reopen, Replay
  <2>2. plugin' \in [loaded : BOOLEAN, open : BOOLEAN, enabled : BOOLEAN, hardblocked : BOOLEAN]
        /\ plugin'.loaded /\ plugin'.open
    BY <2>1
  <2>3. Listed(kernel) \in SUBSET Idx
    BY DEF Listed
  <2>4. /\ events' \in Seq(Events)
        /\ \A n \in DOMAIN events' : events'[n].idx \in Listed(kernel) /\ events'[n].to = kernel[events'[n].idx]
        /\ \A m, n \in DOMAIN events' : events'[m].idx = events'[n].idx => m = n
        /\ \A i \in Listed(kernel) : \E n \in DOMAIN events' : events'[n].idx = i
    <3>1. PICK e \in EventsOf(Listed(kernel), kernel) : e = events'
      BY <2>1
    <3>2. Mentions(e, Listed(kernel), kernel)
      BY <1>1, <2>3, EventsMention
    <3> QED
      BY <3>1, <3>2 DEF Mentions
  <2>5. KillSwitchTypeOK'
    BY <1>1, <2>2, <2>4 DEF MirrorInv, KillSwitchTypeOK, Switches, Events, OneTimer
  <2>6. KernelFollowed'
    <3> SUFFICES ASSUME NEW i \in Idx
                 PROVE  \/ LastSays(events', i, kernel[i])
                        \/ Unmentioned(events', i) /\ kernel[i] = Absent
      BY <1>1 DEF KernelFollowed
    <3>1. CASE i \in Listed(kernel)
      <4>1. PICK n \in DOMAIN events' : events'[n].idx = i
        BY <2>4, <3>1
      <4>2. DOMAIN events' = 1 .. Len(events')
        BY <2>4
      <4>3. \A j \in DOMAIN events' : j > n => events'[j].idx # i
        BY <2>4, <4>1, <4>2
      <4> QED
        BY <2>4, <4>1, <4>3 DEF LastSays
    <3>2. CASE i \notin Listed(kernel)
      BY <2>4, <3>2 DEF Listed, Unmentioned
    <3> QED
      BY <3>1, <3>2
  <2>7. RemovalsKnown'
    BY <2>4 DEF RemovalsKnown, Listed
  <2>8. StateCurrent'
    <3>1. \A i \in Listed(kernel) : events' # <<>>
      BY <2>4
    <3> QED
      BY <1>1, <3>1 DEF StateCurrent, CaughtUp, Listed
  <2> QED
    BY <2>5, <2>6, <2>7, <2>8 DEF MirrorInv
<1> QED
  BY <1>2, <1>3

LEMMA ChangeType ==
    ASSUME MirrorInv, NEW S \in SUBSET Idx, NEW f \in [Idx -> Switches], NEW e, Changed(S, f, e),
           kernel' \in [Idx -> Switches], calls' \subseteq BOOLEAN
    PROVE  KillSwitchTypeOK'
<1>1. events \in Seq(Events) /\ e \in Seq(Events)
  BY DEF MirrorInv, KillSwitchTypeOK, Events, Switches, Changed, Mentions
<1>2. events' \in Seq(Events) /\ (~plugin.open => events' = events)
  BY <1>1, Concatenated DEF Changed
<1> QED
  BY <1>2 DEF MirrorInv, KillSwitchTypeOK, Changed, iconVars, OneTimer, Events, Switches

\* What query_visibility may do to the icon.
LEMMA QueryKeeps ==
    ASSUME NEW keep \in BOOLEAN, NEW delay \in BOOLEAN, QueryIfShown(keep, delay),
           visible \in BOOLEAN, shown \in BOOLEAN, timeout \in BOOLEAN, sources \in Nat, OneTimer
    PROVE  /\ visible' \in BOOLEAN /\ shown' = shown /\ timeout' \in BOOLEAN
           /\ sources' \in Nat /\ OneTimer'
           /\ shown /\ keep => visible'
<1>1. CASE ~shown
  BY <1>1 DEF QueryIfShown, OneTimer, iconVars
<1>2. CASE shown
  <2>1. CASE keep /\ visible' = TRUE /\ UNCHANGED <<shown, timeout, sources>>
    BY <2>1 DEF OneTimer
  <2>2. CASE ~keep /\ UNCHANGED <<shown, visible, timeout, sources>>
    BY <2>2 DEF OneTimer
  <2>3. CASE ~keep /\ ~timeout /\ timeout' = TRUE /\ sources' = sources + 1 /\ UNCHANGED <<shown, visible>>
    BY <2>3 DEF OneTimer
  <2>4. CASE ~keep /\ visible' = FALSE /\ UNCHANGED <<shown, timeout, sources>>
    BY <2>4 DEF OneTimer
  <2> QED
    BY <1>2, <2>1, <2>2, <2>3, <2>4 DEF QueryIfShown, QueryVisibility, Shows, Waiting
<1> QED
  BY <1>1, <1>2

\* What the plugin forces is kept, and whether it does is a truth value.
LEMMA ForcesKeeps ==
    ASSUME NEW p \in [loaded : BOOLEAN, open : BOOLEAN, enabled : BOOLEAN, hardblocked : BOOLEAN],
           NEW ad \in BOOLEAN
    PROVE  Forces(p) \in BOOLEAN /\ Keeps(p, ad) \in BOOLEAN /\ (Forces(p) => Keeps(p, ad))
BY DEF Forces, Keeps

\* The icon's own steps, and those that ask it to show itself.
LEMMA IconStepKeeps ==
    ASSUME MirrorInv, adapters \in BOOLEAN, adapters' \in BOOLEAN,
           UNCHANGED <<kernel, events, plugin, known, calls>>,
           told' = told \/ told' = Answer(plugin),
           \/ UNCHANGED iconVars
           \/ \E delay \in BOOLEAN : QueryIfShown(Keeps(plugin, adapters'), delay)
           \/ OnVisibilityTimeout(Keeps(plugin, adapters')) \/ LoadIcon(Keeps(plugin, adapters'))
           \/ UnloadIcon
    PROVE  MirrorInv'
<1>1. /\ visible \in BOOLEAN /\ shown \in BOOLEAN /\ timeout \in BOOLEAN /\ sources \in Nat /\ OneTimer
      /\ plugin \in [loaded : BOOLEAN, open : BOOLEAN, enabled : BOOLEAN, hardblocked : BOOLEAN]
  BY DEF MirrorInv, KillSwitchTypeOK
<1>2. Keeps(plugin, adapters') \in BOOLEAN /\ (Forces(plugin) => Keeps(plugin, adapters'))
  BY <1>1, ForcesKeeps
<1>3. /\ visible' \in BOOLEAN /\ shown' \in BOOLEAN /\ timeout' \in BOOLEAN /\ sources' \in Nat /\ OneTimer'
      /\ shown' /\ Forces(plugin) => visible' \/ (shown /\ visible' = visible)
  <2>1. CASE UNCHANGED iconVars
    BY <1>1, <2>1 DEF iconVars, OneTimer
  <2>2. CASE \E delay \in BOOLEAN : QueryIfShown(Keeps(plugin, adapters'), delay)
    <3>1. PICK delay \in BOOLEAN : QueryIfShown(Keeps(plugin, adapters'), delay)
      BY <2>2
    <3> DEFINE keep == Keeps(plugin, adapters')
    <3>2. keep \in BOOLEAN /\ QueryIfShown(keep, delay) /\ (Forces(plugin) => keep)
      BY <1>2, <3>1
    <3> HIDE DEF keep
    <3>3. /\ visible' \in BOOLEAN /\ shown' = shown /\ timeout' \in BOOLEAN
          /\ sources' \in Nat /\ OneTimer'
          /\ shown /\ keep => visible'
      BY <1>1, <3>2, QueryKeeps
    <3> QED
      BY <1>1, <3>2, <3>3
  <2>3. CASE OnVisibilityTimeout(Keeps(plugin, adapters'))
    <3>1. /\ sources > 0 /\ timeout' = FALSE /\ sources' = sources - 1
          /\ visible' = Keeps(plugin, adapters') /\ shown' = shown
      BY <2>3 DEF OnVisibilityTimeout
    <3>2. visible' \in BOOLEAN /\ (Forces(plugin) => visible')
      BY <1>2, <3>1
    <3>3. sources = 1
      BY <1>1, <3>1 DEF OneTimer
    <3>4. sources' = 0 /\ timeout' = FALSE /\ OneTimer'
      BY <3>1, <3>3 DEF OneTimer
    <3>5. shown' \in BOOLEAN
      BY <1>1, <3>1
    <3> QED
      BY <3>2, <3>4, <3>5
  <2>4. CASE LoadIcon(Keeps(plugin, adapters'))
    <3>1. shown' = TRUE /\ visible' = Keeps(plugin, adapters') /\ timeout' = timeout /\ sources' = sources
      BY <2>4 DEF LoadIcon
    <3>2. visible' \in BOOLEAN /\ (Forces(plugin) => visible')
      BY <1>2, <3>1
    <3>3. sources' \in Nat /\ timeout' \in BOOLEAN /\ OneTimer'
      BY <1>1, <3>1 DEF OneTimer
    <3> QED
      BY <3>1, <3>2, <3>3
  <2>5. CASE UnloadIcon
    <3>1. shown' = FALSE /\ visible' = visible /\ timeout' = FALSE
          /\ sources' = IF timeout THEN sources - 1 ELSE sources
      BY <2>5 DEF UnloadIcon
    <3>2. sources' = 0
      BY <1>1, <3>1 DEF OneTimer
    <3>3. OneTimer' /\ sources' \in Nat
      BY <3>1, <3>2 DEF OneTimer
    <3>4. visible' \in BOOLEAN /\ shown' = FALSE /\ timeout' = FALSE
      BY <1>1, <3>1
    <3> QED
      BY <3>3, <3>4
  <2> QED
    BY <2>1, <2>2, <2>3, <2>4, <2>5
<1>4. KillSwitchTypeOK'
  BY <1>3 DEF MirrorInv, KillSwitchTypeOK
<1>5. KernelFollowed' /\ RemovalsKnown'
  BY DEF MirrorInv, KernelFollowed, RemovalsKnown, PresentBefore, LastSays, Unmentioned
<1>6. StateCurrent'
  <2> SUFFICES ASSUME CaughtUp
               PROVE  /\ told' = Answer(plugin)
                      /\ plugin.enabled <=> \A i \in Listed(known) : ~Blocked(known[i])
                      /\ shown' /\ Forces(plugin) => visible'
    BY DEF StateCurrent, CaughtUp, Listed
  <2> QED
    BY <1>3 DEF MirrorInv, StateCurrent
<1> QED
  BY <1>4, <1>5, <1>6 DEF MirrorInv

LEMMA IoEventKeeps ==
    ASSUME MirrorInv, adapters \in BOOLEAN, IoEvent
    PROVE  MirrorInv'
<1> DEFINE e == Head(events)
<1>1. /\ events \in Seq(Events) /\ events # <<>> /\ events' = Tail(events)
      /\ kernel \in [Idx -> Switches] /\ kernel' = kernel /\ known \in [Idx -> Switches]
      /\ plugin \in [loaded : BOOLEAN, open : BOOLEAN, enabled : BOOLEAN, hardblocked : BOOLEAN]
      /\ plugin.open /\ plugin.loaded
  BY DEF MirrorInv, KillSwitchTypeOK, Switches, Events, IoEvent
<1>2. /\ Tail(events) \in Seq(Events) /\ e \in Events /\ e = events[1] /\ 1 \in DOMAIN events
      /\ Len(events) \in Nat /\ DOMAIN events = 1 .. Len(events)
      /\ \A j \in DOMAIN Tail(events) : j + 1 \in DOMAIN events /\ Tail(events)[j] = events[j + 1]
      /\ \A j \in DOMAIN events : j > 1 => j - 1 \in DOMAIN Tail(events) /\ Tail(events)[j - 1] = events[j]
      /\ DOMAIN Tail(events) = 1 .. Len(events) - 1
  BY <1>1
<1>3. known' = [known EXCEPT ![e.idx] = e.to] /\ e.idx \in Idx /\ e.to \in Switches
  BY <1>2 DEF IoEvent, Registered, Events
<1>4. known' \in [Idx -> Switches] /\ known'[e.idx] = e.to /\ \A i \in Idx : i # e.idx => known'[i] = known[i]
  BY <1>1, <1>3
<1>5. /\ plugin' \in [loaded : BOOLEAN, open : BOOLEAN, enabled : BOOLEAN, hardblocked : BOOLEAN]
      /\ plugin'.open /\ plugin'.loaded
      /\ plugin'.enabled <=> \A i \in Listed(known') : ~Blocked(known'[i])
  BY <1>1 DEF IoEvent, Computed
<1>6. /\ Keeps(plugin', adapters) \in BOOLEAN /\ (Forces(plugin') => Keeps(plugin', adapters))
      /\ QueryIfShown(Keeps(plugin', adapters), ~plugin'.hardblocked)
      /\ (~plugin'.hardblocked) \in BOOLEAN
  <2>1. QueryIfShown(Keeps(plugin', adapters), ~plugin'.hardblocked)
    BY DEF IoEvent
  <2> QED
    BY <1>5, <2>1, ForcesKeeps
<1>7. /\ visible' \in BOOLEAN /\ shown' \in BOOLEAN /\ timeout' \in BOOLEAN /\ sources' \in Nat /\ OneTimer'
      /\ shown' /\ Forces(plugin') => visible'
  <2>1. /\ visible \in BOOLEAN /\ shown \in BOOLEAN /\ timeout \in BOOLEAN /\ sources \in Nat /\ OneTimer
    BY DEF MirrorInv, KillSwitchTypeOK
  <2> QED
    BY <1>6, <2>1, QueryKeeps
<1>8. KillSwitchTypeOK'
  BY <1>1, <1>2, <1>4, <1>5, <1>7 DEF MirrorInv, KillSwitchTypeOK, Switches, Events, IoEvent
<1>9. KernelFollowed'
  <2> SUFFICES ASSUME NEW i \in Idx
               PROVE  \/ LastSays(Tail(events), i, kernel[i])
                      \/ Unmentioned(Tail(events), i) /\ (kernel[i] = Absent \/ known'[i] = kernel[i])
    BY <1>1 DEF KernelFollowed
  <2>1. CASE LastSays(events, i, kernel[i])
    <3>1. PICK k \in DOMAIN events : /\ events[k].idx = i /\ events[k].to = kernel[i]
                                     /\ \A j \in DOMAIN events : j > k => events[j].idx # i
      BY <2>1 DEF LastSays
    <3>2. CASE k = 1
      <4>1. \A j \in DOMAIN Tail(events) : Tail(events)[j].idx # i
        BY <1>2, <3>1, <3>2
      <4> QED
        BY <1>2, <1>4, <3>1, <3>2, <4>1 DEF Unmentioned
    <3>3. CASE k > 1
      <4>1. k - 1 \in DOMAIN Tail(events) /\ Tail(events)[k - 1] = events[k]
        BY <1>2, <3>3
      <4>2. \A j \in DOMAIN Tail(events) : j > k - 1 => Tail(events)[j].idx # i
        BY <1>2, <3>1
      <4> QED
        BY <3>1, <4>1, <4>2 DEF LastSays
    <3> QED
      BY <1>2, <3>2, <3>3
  <2>2. CASE Unmentioned(events, i) /\ (kernel[i] = Absent \/ known[i] = kernel[i])
    BY <1>2, <1>4, <2>2 DEF Unmentioned
  <2> QED
    BY <1>1, <2>1, <2>2 DEF MirrorInv, KernelFollowed
<1>10. RemovalsKnown'
  <2> SUFFICES ASSUME NEW k \in DOMAIN Tail(events), Tail(events)[k].to = Absent
               PROVE  \/ /\ known'[Tail(events)[k].idx] # Absent
                         /\ \A j \in DOMAIN Tail(events) : j < k => Tail(events)[j].idx # Tail(events)[k].idx
                      \/ \E j \in DOMAIN Tail(events) :
                            /\ j < k /\ Tail(events)[j].idx = Tail(events)[k].idx /\ Tail(events)[j].to # Absent
                            /\ \A l \in DOMAIN Tail(events) : j < l /\ l < k => Tail(events)[l].idx # Tail(events)[k].idx
    BY <1>1 DEF RemovalsKnown, PresentBefore
  <2> DEFINE i == events[k + 1].idx
  <2>1. k + 1 \in DOMAIN events /\ Tail(events)[k] = events[k + 1] /\ events[k + 1].to = Absent /\ i \in Idx
        /\ k \in Nat
    <3>1. k + 1 \in DOMAIN events /\ Tail(events)[k] = events[k + 1] /\ k \in Nat
      BY <1>2
    <3>2. events[k + 1] \in Events
      BY <1>1, <3>1
    <3> QED
      BY <3>1, <3>2 DEF Events
  <2>2. PresentBefore(events, k + 1)
    BY <2>1 DEF MirrorInv, RemovalsKnown
  <2>3. CASE known[i] # Absent /\ \A j \in DOMAIN events : j < k + 1 => events[j].idx # i
    <3>1. known'[i] # Absent
      BY <1>2, <1>4, <2>1, <2>3
    <3>2. \A j \in DOMAIN Tail(events) : j < k => Tail(events)[j].idx # i
      BY <1>2, <2>1, <2>3
    <3> QED
      BY <2>1, <3>1, <3>2
  <2>4. ASSUME NEW j \in DOMAIN events, j < k + 1, events[j].idx = i, events[j].to # Absent,
               \A l \in DOMAIN events : j < l /\ l < k + 1 => events[l].idx # i
        PROVE  \/ /\ known'[i] # Absent
                  /\ \A l \in DOMAIN Tail(events) : l < k => Tail(events)[l].idx # i
               \/ \E l \in DOMAIN Tail(events) :
                     /\ l < k /\ Tail(events)[l].idx = i /\ Tail(events)[l].to # Absent
                     /\ \A n \in DOMAIN Tail(events) : l < n /\ n < k => Tail(events)[n].idx # i
    <3>1. CASE j = 1
      <4>1. known'[i] # Absent
        BY <1>2, <1>4, <2>4, <3>1
      <4>2. \A l \in DOMAIN Tail(events) : l < k => Tail(events)[l].idx # i
        BY <1>2, <2>1, <2>4, <3>1
      <4> QED
        BY <4>1, <4>2
    <3>2. CASE j > 1
      <4>1. j - 1 \in DOMAIN Tail(events) /\ Tail(events)[j - 1] = events[j] /\ j - 1 < k
        BY <1>2, <2>1, <2>4, <3>2
      <4>2. ASSUME NEW n \in DOMAIN Tail(events), j - 1 < n, n < k
            PROVE  Tail(events)[n].idx # i
        <5>1. n + 1 \in DOMAIN events /\ Tail(events)[n] = events[n + 1] /\ j < n + 1 /\ n + 1 < k + 1
          BY <1>2, <2>1, <4>2
        <5> QED
          BY <2>4, <5>1
      <4> QED
        BY <2>4, <4>1, <4>2
    <3> QED
      BY <1>2, <3>1, <3>2
  <2> QED
    BY <2>1, <2>2, <2>3, <2>4 DEF PresentBefore
<1>11. StateCurrent'
  <2>1. told' = Answer(plugin')
    BY DEF IoEvent, Tell
  <2> QED
    BY <1>5, <1>7, <2>1 DEF StateCurrent
<1> QED
  BY <1>8, <1>9, <1>10, <1>11 DEF MirrorInv

LEMMA MirrorInit == KillSwitchInit => MirrorInv /\ adapters \in BOOLEAN
<1> SUFFICES ASSUME KillSwitchInit PROVE MirrorInv /\ adapters \in BOOLEAN
  OBVIOUS
<1>1. <<>> \in Seq(Events)
  OBVIOUS
<1>2. [soft |-> FALSE, hard |-> FALSE] \in Blocks
  BY DEF Blocks
<1>3. kernel \in [Idx -> Switches] /\ known \in [Idx -> Switches] /\ events = <<>>
  BY <1>2 DEF KillSwitchInit, Switches
<1>4. KillSwitchTypeOK
  BY <1>1, <1>3 DEF KillSwitchInit, KillSwitchTypeOK, IconInit, Switches, Events, OneTimer
<1>5. ~plugin.open /\ adapters \in BOOLEAN
  BY DEF KillSwitchInit
<1> QED
  BY <1>3, <1>4, <1>5 DEF MirrorInv, KernelFollowed, RemovalsKnown, StateCurrent, CaughtUp

LEMMA MirrorStep ==
    ASSUME MirrorInv, adapters \in BOOLEAN, [KillSwitchNext]_killSwitchVars
    PROVE  MirrorInv' /\ adapters' \in BOOLEAN
<1>1. CASE UNCHANGED killSwitchVars
  BY <1>1 DEF killSwitchVars, iconVars, MirrorInv, KillSwitchTypeOK, KernelFollowed, RemovalsKnown, PresentBefore,
              LastSays, Unmentioned, StateCurrent, CaughtUp, Listed, OneTimer
<1>2. ASSUME NEW i \in Idx, NEW to \in Blocks \cup {Absent}, SwitchMoves(i, to)
      PROVE  MirrorInv' /\ adapters' \in BOOLEAN
  <2>1. /\ \E f \in [Idx -> Switches] : \E e : Changed({i}, f, e)
        /\ kernel' \in [Idx -> Switches]
    BY <1>2, SwitchMovesChanges DEF Switches
  <2>2. PICK f \in [Idx -> Switches] : \E e : Changed({i}, f, e)
    BY <2>1
  <2>6. PICK e : Changed({i}, f, e)
    BY <2>2
  <2>3. KernelFollowed' /\ RemovalsKnown' /\ StateCurrent'
    BY <2>1, <2>6, ChangeFollowed, ChangeRemovals, ChangeCurrent
  <2>7. calls' \subseteq BOOLEAN /\ adapters' = adapters
    BY <1>2 DEF SwitchMoves, MirrorInv, KillSwitchTypeOK
  <2>4. KillSwitchTypeOK'
    BY <2>1, <2>6, <2>7, ChangeType
  <2> QED
    BY <2>3, <2>4, <2>7 DEF MirrorInv
<1>3. ASSUME NEW state \in BOOLEAN, SetRfkillState(state)
      PROVE  MirrorInv' /\ adapters' \in BOOLEAN
  <2>1. /\ \E S \in SUBSET Idx, f \in [Idx -> Switches] : \E e : Changed(S, f, e)
        /\ kernel' \in [Idx -> Switches]
    BY <1>3, SetRfkillStateChanges
  <2>2. PICK S \in SUBSET Idx, f \in [Idx -> Switches] : \E e : Changed(S, f, e)
    BY <2>1
  <2>6. PICK e : Changed(S, f, e)
    BY <2>2
  <2>3. KernelFollowed' /\ RemovalsKnown' /\ StateCurrent'
    BY <2>1, <2>6, ChangeFollowed, ChangeRemovals, ChangeCurrent
  <2>4. calls' \subseteq BOOLEAN /\ adapters' = adapters
    BY <1>3 DEF SetRfkillState, MirrorInv, KillSwitchTypeOK
  <2>5. KillSwitchTypeOK'
    BY <2>1, <2>4, <2>6, ChangeType
  <2> QED
    BY <2>3, <2>4, <2>5 DEF MirrorInv
<1>4. ASSUME NEW state \in BOOLEAN, OnPowerStateChangeRequested(state)
      PROVE  MirrorInv' /\ adapters' \in BOOLEAN
  <2>1. calls' \subseteq BOOLEAN
    BY <1>4 DEF OnPowerStateChangeRequested, MirrorInv, KillSwitchTypeOK
  <2> QED
    BY <1>4, <2>1 DEF OnPowerStateChangeRequested, iconVars, MirrorInv, KillSwitchTypeOK, KernelFollowed,
          RemovalsKnown, PresentBefore, LastSays, Unmentioned, StateCurrent, CaughtUp, Listed, OneTimer
<1>5. CASE AdaptersChange
  <2>1. adapters' \in BOOLEAN /\ QueryIfShown(Keeps(plugin, adapters'), FALSE)
        /\ UNCHANGED <<kernel, events, plugin, known, calls, told>>
    BY <1>5 DEF AdaptersChange
  <2> QED
    BY <2>1, IconStepKeeps
<1>6. CASE PowerManagerUpdates
  <2>1. /\ told' = Answer(plugin) /\ adapters' = adapters
        /\ UNCHANGED <<kernel, events, plugin, known, calls>>
        /\ \/ UNCHANGED iconVars
           \/ \E delay \in BOOLEAN : QueryIfShown(Keeps(plugin, adapters'), delay)
    BY <1>6 DEF PowerManagerUpdates
  <2> QED
    BY <2>1, IconStepKeeps
<1>7. CASE FileChanges
  <2>1. plugin \in [loaded : {TRUE}, open : BOOLEAN, enabled : BOOLEAN, hardblocked : BOOLEAN]
    BY <1>7 DEF FileChanges, MirrorInv, KillSwitchTypeOK
  <2>2. Reopen(plugin) /\ UNCHANGED <<iconVars, kernel, known, calls, told, adapters>>
    BY <1>7 DEF FileChanges
  <2> QED
    BY <2>1, <2>2, ReopenKeeps
<1>8. CASE OnLoad
  <2> DEFINE p == [loaded |-> TRUE, open |-> FALSE, enabled |-> TRUE, hardblocked |-> FALSE]
  <2>1. p \in [loaded : {TRUE}, open : BOOLEAN, enabled : BOOLEAN, hardblocked : BOOLEAN]
    OBVIOUS
  <2>2. Reopen(p) /\ UNCHANGED <<iconVars, kernel, known, calls, told, adapters>>
    BY <1>8 DEF OnLoad
  <2> HIDE DEF p
  <2> QED
    BY <2>1, <2>2, ReopenKeeps
<1>9. CASE OnUnload
  <2>1. /\ plugin' = [plugin EXCEPT !.loaded = FALSE, !.open = FALSE] /\ events' = <<>>
        /\ UNCHANGED <<iconVars, kernel, known, calls, told, adapters>>
    BY <1>9 DEF OnUnload
  <2>2. <<>> \in Seq(Events)
    OBVIOUS
  <2>3. ~plugin'.open /\ plugin' \in [loaded : BOOLEAN, open : BOOLEAN, enabled : BOOLEAN, hardblocked : BOOLEAN]
    BY <2>1 DEF MirrorInv, KillSwitchTypeOK
  <2>4. KillSwitchTypeOK'
    BY <2>1, <2>2, <2>3 DEF MirrorInv, KillSwitchTypeOK, iconVars, OneTimer, Events, Switches
  <2> QED
    BY <2>1, <2>3, <2>4 DEF MirrorInv, KernelFollowed, RemovalsKnown, StateCurrent, CaughtUp
<1>10. CASE IoEvent
  BY <1>10, IoEventKeeps DEF IoEvent
<1>11. CASE IconTimeout \/ IconLoads \/ IconUnloads
  <2>1. /\ UNCHANGED <<kernel, events, plugin, known, calls, told, adapters>>
        /\ \/ OnVisibilityTimeout(Keeps(plugin, adapters'))
           \/ LoadIcon(Keeps(plugin, adapters')) \/ UnloadIcon
    BY <1>11 DEF IconTimeout, IconLoads, IconUnloads
  <2> QED
    BY <2>1, IconStepKeeps
<1> QED
  BY <1>1, <1>2, <1>3, <1>4, <1>5, <1>6, <1>7, <1>8, <1>9, <1>10, <1>11 DEF KillSwitchNext

\* The plugin, what it told the PowerManager and the icon agree with the kernel once the
\* events are read, for any switches and events that are not read yet.
THEOREM KernelMirrored == KillSwitchSpec => []KernelIsMirrored
<1>1. MirrorInv => KernelIsMirrored
  <2> SUFFICES ASSUME MirrorInv PROVE KernelIsMirrored
    OBVIOUS
  <2>1. CaughtUp => \A i \in Listed(kernel) : known[i] = kernel[i]
    BY DEF MirrorInv, KernelFollowed, CaughtUp, LastSays, Listed
  <2>2. SwitchesAreKnown
    <3> SUFFICES ASSUME events # <<>>, Head(events).to = Absent
                 PROVE  known[Head(events).idx] # Absent
      BY <2>1 DEF SwitchesAreKnown
    <3>1. events \in Seq(Events)
      BY DEF MirrorInv, KillSwitchTypeOK, Events, Switches
    <3>2. 1 \in DOMAIN events /\ Head(events) = events[1] /\ \A j \in DOMAIN events : ~(j < 1)
      BY <3>1
    <3> QED
      BY <3>2 DEF MirrorInv, RemovalsKnown, PresentBefore
  <2>3. ASSUME CaughtUp, NEW i \in Listed(kernel), Blocked(kernel[i])
        PROVE  ~plugin.enabled
    <3>1. known[i] = kernel[i] /\ i \in Listed(known)
      BY <2>1, <2>3 DEF Listed
    <3> QED
      BY <2>3, <3>1 DEF MirrorInv, StateCurrent
  <2>4. ToldIsCurrent
    BY <2>3 DEF ToldIsCurrent, MirrorInv, StateCurrent, Answer
  <2>5. SoftBlockShows
    <3> SUFFICES ASSUME CaughtUp, shown, ~plugin.hardblocked, NEW i \in Listed(kernel), kernel[i].soft
                 PROVE  visible
      BY DEF SoftBlockShows
    <3>1. ~plugin.enabled
      BY <2>3 DEF Blocked
    <3>2. Forces(plugin)
      BY <3>1 DEF Forces, CaughtUp, MirrorInv, KillSwitchTypeOK
    <3> QED
      BY <3>2 DEF MirrorInv, StateCurrent
  <2> QED
    BY <2>2, <2>4, <2>5 DEF KernelIsMirrored, MirrorInv
<1>2. MirrorInv /\ adapters \in BOOLEAN /\ [KillSwitchNext]_killSwitchVars => (MirrorInv /\ adapters \in BOOLEAN)'
  BY MirrorStep
<1> QED
  BY <1>1, <1>2, MirrorInit, PTL DEF KillSwitchSpec
=============================================================================
