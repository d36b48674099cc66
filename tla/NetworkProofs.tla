---------------------------- MODULE NetworkProofs ----------------------------
(***************************************************************************)
(* Proofs about the access point, for any addresses and DHCP servers: what *)
(* the lock files say, and what may run out of the mechanism's reach.      *)
(***************************************************************************)
EXTENDS Network, TLAPS

\* What the proofs need of the constants.
LEMMA Constants == /\ None \notin Addresses /\ None \notin Handlers
                   /\ \A h \in Handlers : h \notin Addresses
                   /\ MaxQueue \in Nat \ {0} /\ IdleLimit \in Nat \ {0}
BY NetworkAssumption, IdleAssumption

(***************************************************************************)
(* The state of NetConf and of what outlives it.                           *)
(***************************************************************************)
NetState ==
    [bridge : BOOLEAN, addrs : SUBSET Addresses, locks : SUBSET Locks, pidfiles : SUBSET Handlers,
     nat : [Addresses -> Nat], server : [Handlers -> Addresses \cup {None}],
     handler : Handlers \cup {None}, pid : BOOLEAN, mine : SUBSET Addresses,
     refused : BOOLEAN, orphans : SUBSET (Handlers \cup Addresses)]

\* A lock stands for what it locks.
Locked(s) ==
    /\ "netconfig" \in s.locks => s.bridge /\ s.addrs # {}
    /\ "iptables" \in s.locks => s.refused \/ \E a \in Addresses : s.nat[a] > 0
    /\ s.addrs # {} => s.bridge

\* Every server has its pid file; but for the orphans, it is the one of the handler.
ServersKnown(s) ==
    \A h \in Handlers : s.server[h] # None =>
        /\ h \in s.pidfiles
        /\ h \in s.orphans \/ (h = s.handler /\ "dhcp" \in s.locks)

\* But for the orphans, an address has one rule at most, which is known.
RulesCounted(s) ==
    \A a \in Addresses \ s.orphans : s.nat[a] > 0 => s.nat[a] = 1 /\ a \in s.mine

Good(s) == s \in NetState /\ Locked(s) /\ ServersKnown(s) /\ RulesCounted(s)

\* Cleaning up a handler leaves everything but its server, its pid file and its lock.
LEMMA CleanedUp ==
    ASSUME NEW s, Good(s), s.handler # None
    PROVE  /\ Good(Cleaned(s))
           /\ Cleaned(s).handler = s.handler /\ Cleaned(s).bridge = s.bridge
           /\ "dhcp" \notin Cleaned(s).locks
<1> DEFINE t == Cleaned(s)
<1>1. CASE "dhcp" \notin s.locks
  BY <1>1 DEF Cleaned
<1>2. CASE "dhcp" \in s.locks /\ ~KnowsPid(s)
  <2>1. t = [s EXCEPT !.locks = @ \ {"dhcp"}]
    BY <1>2 DEF Cleaned
  <2>2. s.server[s.handler] = None
    BY <1>2 DEF Good, ServersKnown, KnowsPid, NetState
  <2>3. t \in NetState /\ Locked(t) /\ RulesCounted(t)
    BY <2>1 DEF Good, NetState, Locked, RulesCounted, Locks
  <2>4. ServersKnown(t)
    BY <2>1, <2>2 DEF Good, NetState, ServersKnown
  <2> QED
    BY <2>1, <2>3, <2>4 DEF Good, NetState
<1>3. CASE "dhcp" \in s.locks /\ KnowsPid(s)
  <2> DEFINE server == [s.server EXCEPT ![s.handler] = None]
  <2>1. t = [s EXCEPT !.locks = s.locks \ {"dhcp"}, !.server = server,
                      !.pidfiles = s.pidfiles \ {s.handler}]
    BY <1>3 DEF Cleaned, Good, NetState
  <2>2. server \in [Handlers -> Addresses \cup {None}]
    BY DEF Good, NetState
  <2>3. \A h \in Handlers : server[h] = IF h = s.handler THEN None ELSE s.server[h]
    BY DEF Good, NetState
  <2> HIDE DEF server
  <2>4. t \in NetState /\ Locked(t) /\ RulesCounted(t)
    BY <2>1, <2>2 DEF Good, NetState, Locked, RulesCounted
  <2>5. ServersKnown(t)
    BY <2>1, <2>2, <2>3 DEF Good, NetState, ServersKnown
  <2> QED
    BY <2>1, <2>4, <2>5 DEF Good, NetState
<1> QED
  BY <1>1, <1>2, <1>3

LEMMA HandlerCleanedUp ==
    ASSUME NEW s, Good(s), s.handler # None, NEW r \in CleanUpHandler(s)
    PROVE  /\ Good(r.net) /\ r.net.handler = s.handler /\ r.net.bridge = s.bridge
           /\ r.ok => "dhcp" \notin r.net.locks
<1>1. CASE r = Raised(s)
  BY <1>1 DEF Raised
<1>2. CASE r = Returned(Cleaned(s))
  BY <1>2, CleanedUp DEF Returned
<1> QED
  BY <1>1, <1>2 DEF CleanUpHandler

\* The server of the handler is started, or found, or it is not.
LEMMA ServerStarted ==
    ASSUME NEW s, Good(s), s.handler # None, NEW a \in Addresses, NEW r \in StartServer(s, a)
    PROVE  Good(r.net)
<1> DEFINE server == [s.server EXCEPT ![s.handler] = a]
           t == [s EXCEPT !.server = server, !.pidfiles = s.pidfiles \cup {s.handler}]
<1>1. s \in NetState /\ s.handler \in Handlers
  BY DEF Good, NetState
<1>2. server \in [Handlers -> Addresses \cup {None}]
      /\ \A h \in Handlers : server[h] = IF h = s.handler THEN a ELSE s.server[h]
  BY <1>1 DEF NetState
<1>3. Started(s, a) = t
  BY <1>1 DEF Started, NetState
<1>4. t \in NetState /\ Locked(t) /\ RulesCounted(t)
      /\ t.locks = s.locks /\ t.orphans = s.orphans /\ t.handler = s.handler /\ t.server = server
      /\ t.pidfiles = s.pidfiles \cup {s.handler}
  <2> HIDE DEF server
  <2> QED
    BY <1>1, <1>2 DEF Good, NetState, Locked, RulesCounted
<1> HIDE DEF t, server
<1>5. CASE r = Raised(s)
  BY <1>5 DEF Raised
<1>6. CASE r = Returned(Trusted(Started(s, a)))
  <2> DEFINE u == [t EXCEPT !.pid = TRUE, !.locks = t.locks \cup {"dhcp"}]
  <2>1. r.net = u
    BY <1>3, <1>6 DEF Returned, Trusted
  <2>2. u \in NetState /\ Locked(u) /\ RulesCounted(u)
    BY <1>4 DEF NetState, Locked, RulesCounted, Locks
  <2>3. ServersKnown(u)
    BY <1>1, <1>2, <1>4 DEF Good, NetState, ServersKnown
  <2> QED
    BY <2>1, <2>2, <2>3 DEF Good
<1>7. CASE r = Raised([Started(s, a) EXCEPT !.orphans = @ \cup {s.handler}])
  <2> DEFINE u == [t EXCEPT !.orphans = t.orphans \cup {s.handler}]
  <2>1. r.net = u
    BY <1>3, <1>7 DEF Raised
  <2>2. u \in NetState /\ Locked(u) /\ RulesCounted(u)
    BY <1>1, <1>4 DEF NetState, Locked, RulesCounted
  <2>3. ServersKnown(u)
    BY <1>1, <1>2, <1>4 DEF Good, NetState, ServersKnown
  <2> QED
    BY <2>1, <2>2, <2>3 DEF Good
<1>8. CASE /\ s.server[s.handler] # None
           /\ r = Returned([Trusted(s) EXCEPT !.orphans = @ \ {s.handler}])
  <2> DEFINE u == [s EXCEPT !.pid = TRUE, !.locks = s.locks \cup {"dhcp"},
                            !.orphans = s.orphans \ {s.handler}]
  <2>1. r.net = u
    BY <1>1, <1>8 DEF Returned, Trusted, NetState
  <2>2. u \in NetState /\ Locked(u)
    BY <1>1 DEF Good, NetState, Locked, Locks
  <2>3. ServersKnown(u)
    BY <1>1, <1>8 DEF Good, NetState, ServersKnown
  <2>4. RulesCounted(u)
    BY <1>1, Constants DEF Good, NetState, RulesCounted
  <2> QED
    BY <2>1, <2>2, <2>3, <2>4 DEF Good
<1> QED
  BY <1>5, <1>6, <1>7, <1>8 DEF StartServer

\* The rules that are known go.
LEMMA RulesDeleted ==
    ASSUME NEW s, Good(s), NEW r \in _del_ipt_rules(s)
    PROVE  /\ Good(r.net) /\ r.net.handler = s.handler /\ r.net.bridge = s.bridge
           /\ r.ok => r.net.mine = {}
<1> DEFINE nat == [a \in Addresses |-> IF a \in s.mine /\ s.nat[a] > 0 THEN s.nat[a] - 1
                                       ELSE s.nat[a]]
           t == [s EXCEPT !.mine = {}, !.locks = s.locks \ {"iptables"}, !.nat = nat]
           u == [s EXCEPT !.mine = {}, !.locks = s.locks \ {"iptables"},
                          !.orphans = s.orphans \cup s.mine]
<1>1. s \in NetState
  BY DEF Good
<1>2. nat \in [Addresses -> Nat]
  BY <1>1 DEF NetState
<1>3. \A a \in Addresses \ s.orphans : ~(nat[a] > 0)
  BY <1>1 DEF Good, NetState, RulesCounted
<1>4. Good(t) /\ t.handler = s.handler /\ t.bridge = s.bridge /\ t.mine = {}
  <2> HIDE DEF nat
  <2>1. t \in NetState /\ Locked(t)
    BY <1>1, <1>2 DEF Good, NetState, Locked
  <2>2. RulesCounted(t)
    BY <1>1, <1>3 DEF NetState, RulesCounted
  <2>3. ServersKnown(t)
    BY <1>1 DEF Good, NetState, ServersKnown
  <2> QED
    BY <1>1, <2>1, <2>2, <2>3 DEF Good, NetState
<1>5. Good(u) /\ u.handler = s.handler /\ u.bridge = s.bridge /\ u.mine = {}
  <2>1. u \in NetState /\ Locked(u)
    BY <1>1 DEF Good, NetState, Locked
  <2>2. RulesCounted(u)
    BY <1>1 DEF Good, NetState, RulesCounted
  <2>3. ServersKnown(u)
    BY <1>1 DEF Good, NetState, ServersKnown
  <2> QED
    BY <1>1, <2>1, <2>2, <2>3 DEF Good, NetState
<1>6. \/ r = Returned(t) \/ r = Raised(s) \/ r = Returned(u)
  <2> DEFINE deleted == [s EXCEPT !.mine = {}, !.locks = @ \ {"iptables"}]
  <2>1. deleted \in NetState /\ deleted.nat = s.nat /\ deleted.orphans = s.orphans
    BY <1>1 DEF NetState
  <2>2. \/ r = Returned([deleted EXCEPT !.nat = [a \in Addresses |->
                             IF a \in s.mine /\ @[a] > 0 THEN @[a] - 1 ELSE @[a]]])
        \/ r = Raised(s) \/ r = Returned([deleted EXCEPT !.orphans = @ \cup s.mine])
    BY Zenon DEF _del_ipt_rules
  <2>3. [deleted EXCEPT !.nat = [a \in Addresses |->
             IF a \in s.mine /\ @[a] > 0 THEN @[a] - 1 ELSE @[a]]] = t
    BY <1>1, <2>1 DEF NetState
  <2>4. [deleted EXCEPT !.orphans = @ \cup s.mine] = u
    BY <1>1, <2>1 DEF NetState
  <2> HIDE DEF deleted, t, u
  <2> QED
    BY <2>2, <2>3, <2>4
<1> HIDE DEF t, u
<1> QED
  BY <1>4, <1>5, <1>6 DEF Returned, Raised

\* Rules are added where none is known.
LEMMA RulesAdded ==
    ASSUME NEW s, Good(s), s.mine = {}, NEW a \in Addresses, NEW r \in AddRules(s, a)
    PROVE  Good(r.net) /\ r.net.handler = s.handler
<1> DEFINE nat == [s.nat EXCEPT ![a] = s.nat[a] + 1]
           known == [s EXCEPT !.mine = {a}]
           t == [s EXCEPT !.mine = {a}, !.locks = s.locks \cup {"iptables"}, !.refused = TRUE]
           u == [s EXCEPT !.mine = {a}, !.locks = s.locks \cup {"iptables"}, !.refused = FALSE,
                          !.nat = nat]
<1>1. s \in NetState /\ \A b \in Addresses \ s.orphans : s.nat[b] = 0
  BY DEF Good, NetState, RulesCounted
<1>2. nat \in [Addresses -> Nat] /\ nat[a] > 0
      /\ \A b \in Addresses \ s.orphans : nat[b] > 0 => nat[b] = 1 /\ b = a
  BY <1>1 DEF NetState
<1>3. Good(known) /\ known.handler = s.handler
  BY <1>1 DEF Good, NetState, Locked, ServersKnown, RulesCounted
<1>4. Good(t) /\ t.handler = s.handler
  <2>1. t \in NetState /\ Locked(t) /\ RulesCounted(t)
    BY <1>1 DEF Good, NetState, Locked, RulesCounted, Locks
  <2>2. ServersKnown(t)
    BY <1>1 DEF Good, NetState, ServersKnown
  <2> QED
    BY <1>1, <2>1, <2>2 DEF Good, NetState
<1>5. Good(u) /\ u.handler = s.handler
  <2> HIDE DEF nat
  <2>1. u \in NetState /\ Locked(u)
    BY <1>1, <1>2 DEF Good, NetState, Locked, Locks
  <2>2. RulesCounted(u)
    BY <1>1, <1>2 DEF NetState, RulesCounted
  <2>3. ServersKnown(u)
    BY <1>1 DEF Good, NetState, ServersKnown
  <2> QED
    BY <1>1, <2>1, <2>2, <2>3 DEF Good, NetState
<1>6. r = Raised(known) \/ r = Returned(t) \/ r = Returned(u)
  <2> DEFINE locked == [known EXCEPT !.locks = @ \cup {"iptables"}]
  <2>1. \/ r = Raised(known) \/ r = Returned([locked EXCEPT !.refused = TRUE])
        \/ r = Returned([locked EXCEPT !.nat[a] = @ + 1, !.refused = FALSE])
    BY Zenon DEF AddRules
  <2>2. [locked EXCEPT !.refused = TRUE] = t
    BY <1>1 DEF NetState
  <2>3. [locked EXCEPT !.nat[a] = @ + 1, !.refused = FALSE] = u
    BY <1>1 DEF NetState
  <2> HIDE DEF locked, t, u, known
  <2> QED
    BY <2>1, <2>2, <2>3
<1> HIDE DEF t, u, known
<1> QED
  BY <1>3, <1>4, <1>5, <1>6 DEF Returned, Raised

\* The handler is there, and the bridge.
LEMMA HandlerUsed ==
    ASSUME NEW s, Good(s), NEW h \in Handlers, NEW r \in UseHandler(s, h)
    PROVE  Good(r.net) /\ (r.ok => r.net.handler = h)
<1>1. CASE s.handler = h
  BY <1>1 DEF UseHandler, Returned
<1>2. CASE s.handler # h
  <2> DEFINE R == IF s.handler = None THEN {Returned(s)} ELSE CleanUpHandler(s)
  <2>1. \A q \in R : Good(q.net) /\ (q.ok => q.net.handler = None \/ "dhcp" \notin q.net.locks)
    BY HandlerCleanedUp DEF Returned
  <2>2. r \in Failed(R) \/ \E t \in Passed(R) : r = Returned([t EXCEPT !.handler = h, !.pid = FALSE])
    BY <1>2 DEF UseHandler
  <2> HIDE DEF R
  <2>3. CASE r \in Failed(R)
    BY <2>1, <2>3 DEF Failed
  <2>4. ASSUME NEW t \in Passed(R), r = Returned([t EXCEPT !.handler = h, !.pid = FALSE])
        PROVE  Good(r.net) /\ r.net.handler = h
    <3> DEFINE u == [t EXCEPT !.handler = h, !.pid = FALSE]
    <3>1. Good(t) /\ (t.handler = None \/ "dhcp" \notin t.locks)
      BY <2>1 DEF Passed
    <3>2. u \in NetState /\ Locked(u) /\ RulesCounted(u) /\ u.handler = h
      BY <3>1 DEF Good, NetState, Locked, RulesCounted
    <3>3. ServersKnown(u)
      BY <3>1, Constants DEF Good, NetState, ServersKnown
    <3>4. r.net = u
      BY <2>4 DEF Returned
    <3> QED
      BY <3>2, <3>3, <3>4 DEF Good
  <2> QED
    BY <2>2, <2>3, <2>4
<1> QED
  BY <1>1, <1>2

LEMMA BridgeMade ==
    ASSUME NEW s, Good(s), NEW h \in Handlers, NEW r \in Bridged(s, h)
    PROVE  Good(r.net) /\ (r.ok => r.net.handler = h /\ r.net.bridge)
<1>1. CASE r \in Failed(UseHandler(s, h))
  BY <1>1, HandlerUsed DEF Failed
<1>2. ASSUME NEW t \in Passed(UseHandler(s, h)), r \in CreateBridge(t)
      PROVE  Good(r.net) /\ (r.ok => r.net.handler = h /\ r.net.bridge)
  <2>1. Good(t) /\ t.handler = h
    BY HandlerUsed DEF Passed
  <2> DEFINE u == [t EXCEPT !.bridge = TRUE]
  <2>2. Good(u) /\ u.handler = h /\ u.bridge
    BY <2>1 DEF Good, NetState, Locked, RulesCounted, ServersKnown
  <2> HIDE DEF u
  <2>3. r = Raised(t) \/ r = Returned(u)
    BY <1>2 DEF CreateBridge, u
  <2> QED
    BY <2>1, <2>2, <2>3 DEF Raised, Returned
<1> QED
  BY <1>1, <1>2 DEF Bridged

\* The bridge has the address.
LEMMA AddressSet ==
    ASSUME NEW s, Good(s), s.bridge, NEW a \in Addresses, NEW changed, NEW r \in Addressed(s, a, changed)
    PROVE  Good(r.net) /\ r.net.handler = s.handler
<1>1. CASE r \in {Returned(s), Raised(s)}
  BY <1>1 DEF Returned, Raised
<1>2. ASSUME NEW A \in {s.addrs \cup {a}, {a}},
             r = Returned([s EXCEPT !.addrs = A, !.locks = @ \cup {"netconfig"}])
      PROVE  Good(r.net) /\ r.net.handler = s.handler
  <2> DEFINE u == [s EXCEPT !.addrs = A, !.locks = @ \cup {"netconfig"}]
  <2>1. s \in NetState /\ A \in SUBSET Addresses /\ A # {}
    BY DEF Good, NetState
  <2>2. u \in NetState /\ Locked(u) /\ RulesCounted(u)
    BY <2>1 DEF Good, NetState, Locked, RulesCounted, Locks
  <2>3. ServersKnown(u) /\ u.handler = s.handler
    BY <2>1 DEF Good, NetState, ServersKnown
  <2>4. r.net = u
    BY <1>2 DEF Returned
  <2> QED
    BY <2>2, <2>3, <2>4 DEF Good
<1> QED
  BY <1>1, <1>2 DEF Addressed, SetAddress

\* Its rules take the place of those that are known.
LEMMA RulesReplaced ==
    ASSUME NEW s, Good(s), NEW a \in Addresses, NEW changed, NEW r \in Routed(s, a, changed)
    PROVE  Good(r.net) /\ r.net.handler = s.handler
<1>1. CASE r = Returned(s)
  BY <1>1 DEF Returned
<1>2. CASE r \in Failed(_del_ipt_rules(s))
  BY <1>2, RulesDeleted DEF Failed
<1>3. ASSUME NEW t \in Passed(_del_ipt_rules(s)), r \in AddRules(t, a)
      PROVE  Good(r.net) /\ r.net.handler = s.handler
  <2>1. Good(t) /\ t.handler = s.handler /\ t.mine = {}
    BY RulesDeleted DEF Passed
  <2> QED
    BY <1>3, <2>1, RulesAdded
<1> QED
  BY <1>1, <1>2, <1>3 DEF Routed

\* A server of the handler serves the address.
LEMMA ServerReplaced ==
    ASSUME NEW s, Good(s), s.handler # None, NEW a \in Addresses, NEW changed,
           NEW r \in Served(s, a, changed)
    PROVE  Good(r.net)
<1>1. CASE r = Returned(s)
  BY <1>1 DEF Returned
<1>2. CASE r \in Failed(CleanUpHandler(s))
  BY <1>2, HandlerCleanedUp DEF Failed
<1>3. ASSUME NEW t \in Passed(CleanUpHandler(s)), r \in StartServer(t, a)
      PROVE  Good(r.net)
  <2>1. Good(t) /\ t.handler # None
    BY HandlerCleanedUp DEF Passed
  <2> QED
    BY <1>3, <2>1, ServerStarted
<1> QED
  BY <1>1, <1>2, <1>3 DEF Served

\* EnableNetwork, however it ends.
LEMMA Enabled ==
    ASSUME NEW s, Good(s), NEW a \in Addresses, NEW h \in Handlers, NEW changed,
           NEW r \in apply_settings(s, a, h, changed)
    PROVE  Good(r.net)
<1> DEFINE bridged == Bridged(s, h)
           addressed == UNION {Addressed(t, a, changed) : t \in Passed(bridged)}
           routed == UNION {Routed(t, a, changed) : t \in Passed(addressed)}
           served == UNION {Served(t, a, changed) : t \in Passed(routed)}
<1>1. \A q \in bridged : Good(q.net) /\ (q.ok => q.net.handler = h /\ q.net.bridge)
  BY BridgeMade
<1> HIDE DEF bridged
<1>2. \A q \in addressed : \E t \in Passed(bridged) : q \in Addressed(t, a, changed)
  OBVIOUS
<1>3. \A q \in addressed : Good(q.net) /\ q.net.handler = h
  BY <1>1, <1>2, AddressSet DEF Passed
<1> HIDE DEF addressed
<1>4. \A q \in routed : \E t \in Passed(addressed) : q \in Routed(t, a, changed)
  OBVIOUS
<1>5. \A q \in routed : Good(q.net) /\ q.net.handler = h
  BY <1>3, <1>4, RulesReplaced DEF Passed
<1> HIDE DEF routed
<1>6. \A q \in served : \E t \in Passed(routed) : q \in Served(t, a, changed)
  OBVIOUS
<1>7. \A q \in served : Good(q.net)
  BY <1>5, <1>6, ServerReplaced, Constants DEF Passed
<1> HIDE DEF served
<1>8. r \in bridged \cup addressed \cup routed \cup served
  BY DEF apply_settings, Failed, bridged, addressed, routed, served
<1> QED
  BY <1>1, <1>3, <1>5, <1>7, <1>8

\* DisableNetwork, however it ends.
LEMMA Disabled ==
    ASSUME NEW s, Good(s), NEW r \in clean_up(s)
    PROVE  Good(r.net)
<1>1. \A q \in Stopped(s) : Good(q.net)
  BY HandlerCleanedUp DEF Stopped, Returned
<1>2. CASE r \in Failed(Stopped(s))
  BY <1>1, <1>2 DEF Failed
<1>3. ASSUME NEW u \in Passed(Stopped(s)), NEW t \in Unbridged(u), r \in _del_ipt_rules(t)
      PROVE  Good(r.net)
  <2> DEFINE v == [u EXCEPT !.locks = @ \ {"netconfig"}]
             w == [u EXCEPT !.locks = @ \ {"netconfig"}, !.bridge = FALSE, !.addrs = {}]
  <2>1. Good(u)
    BY <1>1 DEF Passed
  <2>2. Good(v)
    BY <2>1 DEF Good, NetState, Locked, ServersKnown, RulesCounted
  <2>3. w \in NetState /\ Locked(w) /\ RulesCounted(w)
    BY <2>1 DEF Good, NetState, Locked, RulesCounted
  <2>4. ServersKnown(w)
    BY <2>1 DEF Good, NetState, ServersKnown
  <2>5. t = v \/ t = w
    BY DEF Unbridged
  <2> HIDE DEF v, w
  <2>6. Good(t)
    BY <2>2, <2>3, <2>4, <2>5 DEF Good
  <2> QED
    BY <1>3, <2>6, RulesDeleted
<1>4. r \in Failed(Stopped(s)) \/ \E u \in Passed(Stopped(s)) : \E t \in Unbridged(u) :
           r \in _del_ipt_rules(t)
  BY DEF clean_up
<1> QED
  BY <1>2, <1>3, <1>4

\* What no longer runs is no orphan.
LEMMA OrphansEnd ==
    ASSUME NEW s, Good(s)
    PROVE  Good([s EXCEPT !.orphans = @ \cap Running(s)])
<1> DEFINE t == [s EXCEPT !.orphans = @ \cap Running(s)]
<1>1. s \in NetState
  BY DEF Good
<1>2. t \in NetState /\ Locked(t)
  BY <1>1 DEF Good, NetState, Locked
<1>3. ServersKnown(t)
  BY <1>1 DEF Good, NetState, ServersKnown, Running
<1>4. RulesCounted(t)
  <2> SUFFICES ASSUME NEW a \in Addresses, a \notin s.orphans \cap Running(s), s.nat[a] > 0
               PROVE  s.nat[a] = 1 /\ a \in s.mine
    BY <1>1 DEF NetState, RulesCounted
  <2>1. a \in Running(s)
    BY DEF Running
  <2> QED
    BY <2>1 DEF Good, RulesCounted
<1> QED
  BY <1>2, <1>3, <1>4 DEF Good

\* An exit makes orphans of all that runs.
LEMMA Forgotten ==
    ASSUME NEW s, Good(s)
    PROVE  Good(Forget(s))
<1> DEFINE t == Forget(s)
<1>1. Running(s) \in SUBSET (Handlers \cup Addresses) /\ s \in NetState
  BY DEF Good, Running
<1>2. t = [s EXCEPT !.handler = None, !.pid = FALSE, !.mine = {}, !.orphans = Running(s)]
  BY DEF Forget
<1> HIDE DEF t
<1>3. t \in NetState /\ Locked(t)
  BY <1>1, <1>2 DEF Good, NetState, Locked
<1>4. ServersKnown(t)
  BY <1>1, <1>2 DEF Good, NetState, ServersKnown, Running
<1>5. RulesCounted(t)
  BY <1>1, <1>2 DEF Good, NetState, RulesCounted, Running
<1> QED
  BY <1>3, <1>4, <1>5 DEF Good, t

\* A server that ends is no orphan.
LEMMA ServerGone ==
    ASSUME NEW s, Good(s), NEW h \in Handlers
    PROVE  Good(ServerDies(s, h))
<1> DEFINE server == [s.server EXCEPT ![h] = None]
           t == [s EXCEPT !.server = server, !.orphans = s.orphans \ {h}]
<1>1. s \in NetState
  BY DEF Good
<1>2. server \in [Handlers -> Addresses \cup {None}]
      /\ \A g \in Handlers : server[g] = IF g = h THEN None ELSE s.server[g]
  BY <1>1 DEF NetState
<1>3. ServerDies(s, h) = t
  BY <1>1 DEF ServerDies, NetState
<1> HIDE DEF server
<1>4. t \in NetState /\ Locked(t)
  BY <1>1, <1>2 DEF Good, NetState, Locked
<1>5. ServersKnown(t)
  BY <1>1, <1>2 DEF Good, NetState, ServersKnown
<1>6. RulesCounted(t)
  BY <1>1, Constants DEF Good, NetState, RulesCounted
<1> QED
  BY <1>3, <1>4, <1>5, <1>6 DEF Good

(***************************************************************************)
(* The invariant.                                                          *)
(***************************************************************************)
\* An address comes with a handler.
Pairs == {Nothing} \cup [a : Addresses, h : Handlers]
Asked(c) == c.op = "enable" => c.a \in Addresses /\ c.h \in Handlers

OtherTypes ==
    /\ MechanismTypeOK /\ DhcpTypeOK
    /\ {config.enable, loaded} \subseteq BOOLEAN
    /\ config = [enable |-> config.enable, a |-> config.a, h |-> config.h]
    /\ [a |-> config.a, h |-> config.h] \in Pairs /\ wanted \in Pairs
    /\ queue \in Seq([from : {"applet", "page"}, op : {"enable", "disable"},
                      a : Addresses \cup {None}, h : Handlers \cup {None}, changed : BOOLEAN])
    /\ \A i \in DOMAIN queue : Asked(queue[i])
    /\ Len(queue) <= MaxQueue /\ page \in {"idle", "waiting", "enabled"}

NetInv == OtherTypes /\ Good(net)

\* A step of the timer keeps the mechanism's type.
LEMMA MechanismStep ==
    ASSUME MechanismTypeOK,
           Called \/ Authorized \/ Stop \/ Resume \/ Tick \/ Exit \/ UNCHANGED mechanismVars
    PROVE  MechanismTypeOK'
<1>1. up' \in BOOLEAN /\ stopped' \in BOOLEAN
  BY DEF MechanismTypeOK, Called, Authorized, Stop, Resume, Tick, Exit, Idle, mechanismVars
<1>2. time' \in 0 .. IdleLimit - 1
  BY Constants DEF MechanismTypeOK, Called, Authorized, Stop, Resume, Tick, Exit, mechanismVars
<1>3. ~up' => ~stopped' /\ time' = 0
  BY DEF MechanismTypeOK, Called, Authorized, Stop, Resume, Tick, Exit, Idle, mechanismVars
<1> QED
  BY <1>1, <1>2, <1>3 DEF MechanismTypeOK

\* A call joins the queue.
LEMMA Queued ==
    ASSUME OtherTypes, Len(queue) < MaxQueue,
           NEW c \in [from : {"applet", "page"}, op : {"enable", "disable"},
                      a : Addresses \cup {None}, h : Handlers \cup {None}, changed : BOOLEAN],
           Asked(c), queue' = Append(queue, c)
    PROVE  /\ queue' \in Seq([from : {"applet", "page"}, op : {"enable", "disable"},
                      a : Addresses \cup {None}, h : Handlers \cup {None}, changed : BOOLEAN])
           /\ \A i \in DOMAIN queue' : Asked(queue'[i])
           /\ Len(queue') <= MaxQueue
<1> DEFINE C == [from : {"applet", "page"}, op : {"enable", "disable"},
                 a : Addresses \cup {None}, h : Handlers \cup {None}, changed : BOOLEAN]
<1>1. queue \in Seq(C) /\ c \in C /\ \A i \in DOMAIN queue : Asked(queue[i])
  BY DEF OtherTypes
<1> HIDE DEF C
<1>2. queue' \in Seq(C) /\ Len(queue') = Len(queue) + 1
  BY <1>1
<1>3. \A i \in DOMAIN queue' : Asked(queue'[i])
  <2> SUFFICES ASSUME NEW i \in DOMAIN queue' PROVE Asked(queue'[i])
    OBVIOUS
  <2>1. CASE i = Len(queue) + 1
    <3>1. queue'[i] = c
      BY <1>1, <2>1
    <3> QED
      BY <3>1
  <2>2. CASE i # Len(queue) + 1
    <3>1. i \in DOMAIN queue /\ queue'[i] = queue[i]
      BY <1>1, <1>2, <2>2
    <3> QED
      BY <1>1, <3>1
  <2> QED
    BY <2>1, <2>2
<1>4. Len(queue') <= MaxQueue
  BY <1>1, <1>2, Constants
<1> QED
  BY <1>2, <1>3, <1>4 DEF C

\* A step leaves NetConf and what outlives it alone.
LEMMA SameNet ==
    ASSUME NetInv, UNCHANGED net
    PROVE  Good(net)'
BY DEF NetInv

\* The settings are applied, if there are any.
LEMMA SettingsApplied ==
    ASSUME OtherTypes, _apply_nap_settings
    PROVE  /\ queue' \in Seq([from : {"applet", "page"}, op : {"enable", "disable"},
                      a : Addresses \cup {None}, h : Handlers \cup {None}, changed : BOOLEAN])
           /\ \A i \in DOMAIN queue' : Asked(queue'[i])
           /\ Len(queue') <= MaxQueue
<1>1. CASE config.enable /\ config.a # None
  <2> DEFINE c == [from |-> "applet", op |-> "enable", a |-> config.a, h |-> config.h,
                   changed |-> FALSE]
  <2>1. config.a \in Addresses /\ config.h \in Handlers
    BY <1>1 DEF OtherTypes, Pairs, Nothing
  <2>2. Len(queue) < MaxQueue /\ queue' = Append(queue, c)
    BY <1>1 DEF _apply_nap_settings
  <2> QED
    BY <2>1, <2>2, Queued DEF Asked
<1>2. CASE ~(config.enable /\ config.a # None)
  BY <1>2 DEF _apply_nap_settings, OtherTypes
<1> QED
  BY <1>1, <1>2

\* The steps of the plugin Networking.
LEMMA PluginStep ==
    ASSUME NetInv, Load \/ Unload \/ DnsChanged
    PROVE  NetInv'
<1>1. Good(net)'
  BY SameNet DEF Load, Unload, DnsChanged
<1>2. MechanismTypeOK' /\ DhcpTypeOK'
  BY DEF NetInv, OtherTypes, MechanismTypeOK, DhcpTypeOK, Load, Unload, DnsChanged,
         mechanismVars, dhcpVars
<1>3. OtherTypes'
  <2>1. CASE Load \/ DnsChanged
    BY <1>2, <2>1, SettingsApplied DEF Load, DnsChanged, NetInv, OtherTypes
  <2>2. CASE Unload
    BY <1>2, <2>2 DEF Unload, NetInv, OtherTypes
  <2> QED
    BY <2>1, <2>2
<1> QED
  BY <1>1, <1>3 DEF NetInv

\* The steps of the page.
LEMMA PageStep ==
    ASSUME NetInv,
           \/ \E a \in Addresses, h \in Handlers : Apply(a, h)
           \/ ApplyDisable \/ Applied
    PROVE  NetInv'
<1>1. Good(net)'
  BY SameNet DEF Apply, ApplyDisable, Applied
<1>2. MechanismTypeOK' /\ DhcpTypeOK'
  <2>1. UNCHANGED dhcpVars /\ UNCHANGED mechanismVars
    BY DEF Apply, ApplyDisable, Applied
  <2> QED
    BY <2>1 DEF NetInv, OtherTypes, MechanismTypeOK, DhcpTypeOK, mechanismVars, dhcpVars
<1>3. ASSUME NEW a \in Addresses, NEW h \in Handlers, Apply(a, h)
      PROVE  OtherTypes'
  <2> DEFINE c == [from |-> "page", op |-> "enable", a |-> a, h |-> h, changed |-> a # config.a]
  <2>1. Len(queue) < MaxQueue /\ queue' = Append(queue, c) /\ Asked(c)
    BY <1>3 DEF Apply, Asked
  <2>2. wanted' \in Pairs
    BY <1>3 DEF Apply, Pairs
  <2>3. OtherTypes
    BY DEF NetInv
  <2> QED
    BY <1>2, <1>3, <2>1, <2>2, <2>3, Queued DEF Apply, OtherTypes
<1>4. ASSUME ApplyDisable
      PROVE  OtherTypes'
  <2> DEFINE c == [from |-> "page", op |-> "disable", a |-> None, h |-> None, changed |-> FALSE]
  <2>1. Len(queue) < MaxQueue /\ queue' = Append(queue, c) /\ Asked(c)
    BY <1>4 DEF ApplyDisable, Asked
  <2>2. config' = [enable |-> FALSE, a |-> config.a, h |-> config.h]
    <3>1. config = [enable |-> config.enable, a |-> config.a, h |-> config.h]
      BY DEF NetInv, OtherTypes
    <3>2. config' = [config EXCEPT !.enable = FALSE]
      BY <1>4 DEF ApplyDisable
    <3> QED
      BY <3>1, <3>2
  <2>3. OtherTypes
    BY DEF NetInv
  <2> QED
    BY <1>2, <1>4, <2>1, <2>2, <2>3, Queued DEF ApplyDisable, OtherTypes
<1>5. ASSUME Applied
      PROVE  OtherTypes'
  <2>1. config' = [enable |-> TRUE, a |-> wanted.a, h |-> wanted.h]
    BY <1>5 DEF Applied
  <2>2. [a |-> wanted.a, h |-> wanted.h] \in Pairs /\ wanted' \in Pairs
    BY <1>5 DEF Applied, NetInv, OtherTypes, Pairs, Nothing
  <2> QED
    BY <1>2, <1>5, <2>1, <2>2 DEF Applied, NetInv, OtherTypes
<1> QED
  BY <1>1, <1>3, <1>4, <1>5 DEF NetInv

\* The mechanism serves a call.
LEMMA ServeStep ==
    ASSUME NetInv, Serve
    PROVE  NetInv'
<1> DEFINE C == [from : {"applet", "page"}, op : {"enable", "disable"},
                 a : Addresses \cup {None}, h : Handlers \cup {None}, changed : BOOLEAN]
           c == Head(queue)
<1>1. queue \in Seq(C) /\ queue # <<>> /\ queue' = Tail(queue)
      /\ \A i \in DOMAIN queue : Asked(queue[i])
  BY DEF NetInv, OtherTypes, Serve
<1>2. c \in C /\ Asked(c)
  <2> HIDE DEF C
  <2>1. 1 \in DOMAIN queue /\ c = queue[1] /\ c \in C
    BY <1>1
  <2> QED
    BY <1>1, <2>1
<1>3. queue' \in Seq(C) /\ Len(queue') <= MaxQueue /\ \A i \in DOMAIN queue' : Asked(queue'[i])
  <2> HIDE DEF C
  <2>1. queue' \in Seq(C) /\ Len(queue') = Len(queue) - 1
    BY <1>1
  <2>2. \A i \in DOMAIN queue' : i + 1 \in DOMAIN queue /\ queue'[i] = queue[i + 1]
    BY <1>1
  <2>3. Len(queue') <= MaxQueue
    BY <1>1, <2>1, Constants DEF NetInv, OtherTypes
  <2> QED
    BY <1>1, <2>1, <2>2, <2>3
<1>4. PICK r \in Results(c) :
        /\ net' = [r.net EXCEPT !.orphans = @ \cap Running(r.net)]
        /\ page' = IF c.from # "page" THEN page
                   ELSE IF c.op = "enable" /\ r.ok THEN "enabled" ELSE "idle"
        /\ wanted' = IF c.from = "page" /\ ~r.ok THEN Nothing ELSE wanted
  BY DEF Serve
<1>5. Good(r.net)
  <2>1. Good(net)
    BY DEF NetInv
  <2>2. CASE r = Raised(net)
    BY <2>1, <2>2 DEF Raised
  <2>3. CASE c.op = "enable" /\ r \in apply_settings(net, c.a, c.h, c.changed)
    <3>1. c.a \in Addresses /\ c.h \in Handlers
      BY <1>2, <2>3 DEF Asked
    <3> QED
      BY <2>1, <2>3, <3>1, Enabled
  <2>4. CASE r \in clean_up(net)
    BY <2>1, <2>4, Disabled
  <2> QED
    BY <1>4, <2>2, <2>3, <2>4 DEF Results
<1>6. Good(net)'
  <2>1. Good([r.net EXCEPT !.orphans = @ \cap Running(r.net)])
    BY <1>5, OrphansEnd
  <2>2. Good(net')
    BY <1>4, <2>1
  <2> QED
    BY <2>2
<1>7. MechanismTypeOK' /\ DhcpTypeOK'
  <2>1. Authorized /\ UNCHANGED dhcpVars
    BY DEF Serve
  <2>2. MechanismTypeOK'
    BY <2>1, MechanismStep DEF NetInv, OtherTypes
  <2> QED
    BY <2>1, <2>2 DEF NetInv, OtherTypes, DhcpTypeOK, dhcpVars
<1>8. page' \in {"idle", "waiting", "enabled"} /\ wanted' \in Pairs
  BY <1>4 DEF NetInv, OtherTypes, Pairs
<1>9. UNCHANGED <<config, loaded>>
  BY DEF Serve
<1>10. OtherTypes'
  BY <1>3, <1>7, <1>8, <1>9 DEF NetInv, OtherTypes
<1> QED
  BY <1>6, <1>10 DEF NetInv

\* The mechanism is idle or exits, or a server ends.
LEMMA EndStep ==
    ASSUME NetInv, MechanismTicks \/ MechanismExits \/ \E h \in Handlers : ServerEnds(h)
    PROVE  NetInv'
<1>1. UNCHANGED <<config, queue, page, wanted, loaded>>
  BY DEF MechanismTicks, MechanismExits, ServerEnds, napVars
<1>2. Good(net)'
  <2>1. CASE MechanismExits
    <3>1. net' = Forget(net)
      BY <2>1 DEF MechanismExits
    <3>2. Good(Forget(net))
      BY Forgotten DEF NetInv
    <3>3. Good(net')
      BY <3>1, <3>2
    <3> QED
      BY <3>3
  <2>2. ASSUME NEW h \in Handlers, ServerEnds(h)
        PROVE  Good(net)'
    <3>1. net' = ServerDies(net, h)
      BY <2>2 DEF ServerEnds
    <3>2. Good(ServerDies(net, h))
      BY ServerGone DEF NetInv
    <3>3. Good(net')
      BY <3>1, <3>2
    <3> QED
      BY <3>3
  <2>3. CASE MechanismTicks
    BY <2>3, SameNet DEF MechanismTicks
  <2> QED
    BY <2>1, <2>2, <2>3
<1>3. MechanismTypeOK' /\ DhcpTypeOK'
  <2>1. Tick \/ Exit \/ UNCHANGED mechanismVars
    BY DEF MechanismTicks, MechanismExits, ServerEnds
  <2>2. MechanismTypeOK'
    BY <2>1, MechanismStep DEF NetInv, OtherTypes
  <2>3. DhcpTypeOK'
    BY DEF MechanismTicks, MechanismExits, ServerEnds, ForgetClients, dhcpVars, NetInv, OtherTypes, DhcpTypeOK
  <2> QED
    BY <2>2, <2>3
<1> QED
  BY <1>1, <1>2, <1>3 DEF NetInv, OtherTypes

DhcpSteps ==
    \/ dhcp_acquire \/ NotAuthorized \/ DhcpFails \/ ClientStarts \/ ClientEnds
    \/ ClientFailed \/ ClientBound \/ Complete \/ CallTimesOut

\* The steps of the DHCP client.
LEMMA ClientStep ==
    ASSUME NetInv, Client(DhcpSteps)
    PROVE  NetInv'
<1>1. UNCHANGED net /\ UNCHANGED <<config, queue, page, wanted, loaded>>
  BY DEF Client, napVars
<1>2. Good(net)'
  BY <1>1, SameNet
<1>3. DhcpTypeOK'
  BY DEF Client, DhcpSteps, NetInv, OtherTypes, DhcpTypeOK, dhcp_acquire, NotAuthorized, DhcpFails,
         ClientStarts, ClientEnds, ClientFailed, ClientBound, Complete, CallTimesOut
<1>4. MechanismTypeOK'
  <2>1. MechanismTypeOK
    BY DEF NetInv, OtherTypes
  <2>2. CASE DhcpFails
    <3>1. up' = TRUE /\ stopped' = FALSE /\ time' = 0
      BY <2>2 DEF DhcpFails
    <3>2. 0 \in 0 .. IdleLimit - 1
      BY Constants
    <3> QED
      BY <3>1, <3>2 DEF MechanismTypeOK
  <2>3. CASE ~DhcpFails
    <3>1. Stop \/ Resume \/ UNCHANGED mechanismVars
      BY <2>3 DEF Client, DhcpSteps, dhcp_acquire, NotAuthorized, ClientStarts, ClientEnds,
                  ClientFailed, ClientBound, Complete, CallTimesOut
    <3> QED
      BY <2>1, <3>1, MechanismStep
  <2> QED
    BY <2>2, <2>3
<1> QED
  BY <1>1, <1>2, <1>3, <1>4 DEF NetInv, OtherTypes

-------------------------------------------------------------------------------
(* Theorems *)

\* The invariant holds at the start and is preserved by every step.
THEOREM NetworkInvariant == Spec => []NetInv
<1>1. Init => NetInv
  <2> SUFFICES ASSUME Init PROVE NetInv
    OBVIOUS
  <2>1. Good(net)
    BY DEF Init, NetConfInit, Good, NetState, Locked, ServersKnown, RulesCounted
  <2>2. OtherTypes
    <3>1. MechanismTypeOK /\ DhcpTypeOK
      <4>1. 0 \in 0 .. IdleLimit - 1
        BY Constants
      <4> QED
        BY <4>1 DEF Init, MechanismInit, MechanismTypeOK, DhcpInit, DhcpTypeOK
    <3>2. queue = <<>> /\ Len(queue) = 0 /\ DOMAIN queue = {}
      BY DEF Init
    <3>3. /\ config = [enable |-> config.enable, a |-> config.a, h |-> config.h]
          /\ [a |-> config.a, h |-> config.h] \in Pairs /\ wanted \in Pairs
          /\ config.enable = FALSE
      BY DEF Init, Pairs, Nothing
    <3>4. {config.enable, loaded} \subseteq BOOLEAN /\ page \in {"idle", "waiting", "enabled"}
      BY <3>3 DEF Init
    <3> QED
      BY <3>1, <3>2, <3>3, <3>4, Constants DEF OtherTypes
  <2> QED
    BY <2>1, <2>2 DEF NetInv
<1>2. NetInv /\ [Next]_vars => NetInv'
  <2> SUFFICES ASSUME NetInv, [Next]_vars
               PROVE  NetInv'
    OBVIOUS
  <2>1. CASE Load \/ Unload \/ DnsChanged
    BY <2>1, PluginStep
  <2>2. CASE (\E a \in Addresses, h \in Handlers : Apply(a, h)) \/ ApplyDisable \/ Applied
    BY <2>2, PageStep
  <2>3. CASE Serve
    BY <2>3, ServeStep
  <2>4. CASE MechanismTicks \/ MechanismExits \/ \E h \in Handlers : ServerEnds(h)
    BY <2>4, EndStep
  <2>5. CASE Client(DhcpSteps)
    BY <2>5, ClientStep
  <2>6. CASE UNCHANGED vars
    <3>1. Good(net)'
      BY <2>6, SameNet DEF vars
    <3> QED
      BY <2>6, <3>1 DEF vars, napVars, dhcpVars, mechanismVars, NetInv, OtherTypes,
                        MechanismTypeOK, DhcpTypeOK
  <2> QED
    BY <2>1, <2>2, <2>3, <2>4, <2>5, <2>6
       DEF Next, NetworkNext, ClientNext, Client, DhcpSteps
<1> QED
  BY <1>1, <1>2, PTL DEF Spec

\* A lock file stands for what it locks, whatever fails and whenever the mechanism exits
\* (NetConf.apply_settings, clean_up).
THEOREM LocksAlwaysHold == Spec => []LocksHold
<1>1. NetInv => LocksHold
  BY DEF NetInv, OtherTypes, Good, NetState, Locked, LocksHold, TypeOK
<1> QED
  BY <1>1, NetworkInvariant, PTL

\* Every server and every rule that runs is known, or was left behind by an exit, by a start
\* taken for a failure or by a deletion that iptables refused (NetConf._dhcp_handler,
\* _ipt_rules).
THEOREM OrphansAlwaysKnown == Spec => []OrphansAreKnown
<1>1. NetInv => OrphansAreKnown
  BY DEF NetInv, Good, NetState, ServersKnown, RulesCounted, OrphansAreKnown
<1> QED
  BY <1>1, NetworkInvariant, PTL
==============================================================================
