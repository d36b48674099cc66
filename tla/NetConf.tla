------------------------------- MODULE NetConf -------------------------------
(***************************************************************************)
(* main/NetConf.py: the bridge pan1, its addresses, the NAT rules and the  *)
(* DHCP server of the network access point, as blueman-mechanism sets them *)
(* up and takes them down.  Part of the state is the system's and outlives *)
(* the mechanism: the kernel's, the lock files blueman-netconfig,          *)
(* blueman-iptables and blueman-dhcp in /var/run, the server processes and *)
(* their pid files.  The other part is class attributes of one mechanism   *)
(* process, which exits when it is idle (Forget).                          *)
(*                                                                         *)
(* A step is a function from a state to the set of its results: a new      *)
(* state, and whether it returned (ok) or raised.  What was done before an *)
(* exception stays done.                                                   *)
(***************************************************************************)
EXTENDS Naturals, FiniteSets

CONSTANTS
    Addresses,     \* addresses of the access point
    Handlers,      \* DnsMasqHandler, DhcpdHandler, UdhcpdHandler
    None           \* no handler, or no server

VARIABLE net

Locks == {"netconfig", "iptables", "dhcp"}

NetConfInit ==
    net = [bridge |-> FALSE, addrs |-> {}, locks |-> {}, pidfiles |-> {},
           nat |-> [a \in Addresses |-> 0],         \* MASQUERADE rules of the kernel; each
                                                    \* stands for the FORWARD rules with it
           server |-> [h \in Handlers |-> None],    \* the address a server process serves
           handler |-> None, pid |-> FALSE,         \* _dhcp_handler, and whether it has a _pid
           mine |-> {},                             \* _ipt_rules, all of one address
           refused |-> FALSE,    \* history: iptables refused the last rules it was given
           orphans |-> {}]       \* history: servers and masqueraded addresses that an exit,
                                 \* a start taken for a failure or a deletion that iptables
                                 \* refused left behind

\* The servers that run and the addresses that are masqueraded.
Running(s) == {h \in Handlers : s.server[h] # None} \cup {a \in Addresses : s.nat[a] > 0}

\* The class attributes of a new process.
Forget(s) == [s EXCEPT !.handler = None, !.pid = FALSE, !.mine = {}, !.orphans = Running(s)]

Returned(s) == [net |-> s, ok |-> TRUE]
Raised(s) == [net |-> s, ok |-> FALSE]

\* The states from which a call goes on after a step with the results R, and where it ends.
Passed(R) == {r.net : r \in {q \in R : q.ok}}
Failed(R) == {r \in R : ~r.ok}

(***************************************************************************)
(* DHCPHandler.  clean_up() rewrites the configuration and looks for the   *)
(* process of the pid it knows, or of the pid file; if that process is     *)
(* none of the handler's servers, next() without a default raises          *)
(* StopIteration.                                                          *)
(***************************************************************************)
KnowsPid(s) == s.pid \/ s.handler \in s.pidfiles

CleanUpRaises(s) ==
    "dhcp" \in s.locks /\ KnowsPid(s) /\ s.server[s.handler] = None

Cleaned(s) ==
    IF "dhcp" \notin s.locks THEN s
    ELSE IF ~KnowsPid(s) THEN [s EXCEPT !.locks = @ \ {"dhcp"}]
    ELSE [s EXCEPT !.locks = @ \ {"dhcp"}, !.server[s.handler] = None,
                   !.pidfiles = @ \ {s.handler}]

CleanUpHandler(s) == {Raised(s)} \cup IF CleanUpRaises(s) THEN {} ELSE {Returned(Cleaned(s))}

Started(s, a) == [s EXCEPT !.server[s.handler] = a, !.pidfiles = @ \cup {s.handler}]
Trusted(s) == [s EXCEPT !.pid = TRUE, !.locks = @ \cup {"dhcp"}]

\* A server that wrote something to stderr (dnsmasq) or whose pid file is late (udhcpd) runs
\* and is taken for a failure.  Where one of its kind runs already, none is started, but its
\* pid file may be taken for the new one's.
StartServer(s, a) ==
    {Raised(s)} \cup
    IF s.server[s.handler] = None
    THEN {Returned(Trusted(Started(s, a))),
          Raised([Started(s, a) EXCEPT !.orphans = @ \cup {s.handler}])}
    ELSE {Returned([Trusted(s) EXCEPT !.orphans = @ \ {s.handler}])}

(***************************************************************************)
(* NetConf.  What iptables answers is only logged; when it cannot be run,  *)
(* the first call of it raises.                                            *)
(***************************************************************************)
_del_ipt_rules(s) ==
    LET deleted == [s EXCEPT !.mine = {}, !.locks = @ \ {"iptables"}]
    IN  {Returned([deleted EXCEPT !.nat = [a \in Addresses |->
                       IF a \in s.mine /\ @[a] > 0 THEN @[a] - 1 ELSE @[a]]])} \cup
        IF s.mine = {} THEN {}
        ELSE {Raised(s), Returned([deleted EXCEPT !.orphans = @ \cup s.mine])}

AddRules(s, a) ==
    LET known == [s EXCEPT !.mine = {a}]
        locked == [known EXCEPT !.locks = @ \cup {"iptables"}]
    IN  {Raised(known), Returned([locked EXCEPT !.refused = TRUE]),
         Returned([locked EXCEPT !.nat[a] = @ + 1, !.refused = FALSE])}

\* Mutant: the old handler does not clean up.
ReplaceHandler(s, h) ==
    IF s.handler = h THEN {Returned(s)} ELSE {Returned([s EXCEPT !.handler = h, !.pid = FALSE])}

\* A new handler takes the place of one of another class, which cleans up.
UseHandler(s, h) ==
    IF s.handler = h THEN {Returned(s)} ELSE
    LET R == IF s.handler = None THEN {Returned(s)} ELSE CleanUpHandler(s)
    IN  Failed(R) \cup {Returned([t EXCEPT !.handler = h, !.pid = FALSE]) : t \in Passed(R)}

CreateBridge(s) == {Raised(s), Returned([s EXCEPT !.bridge = TRUE])}

\* "ip address add" fails for an address that the bridge has; ifconfig replaces it.
SetAddress(s, a) ==
    LET added == IF a \in s.addrs THEN {} ELSE {s.addrs \cup {a}}
    IN  {Raised(s)} \cup
        {Returned([s EXCEPT !.addrs = A, !.locks = @ \cup {"netconfig"}]) : A \in added \cup {{a}}}

\* The four parts of apply_settings; all but the first are left out if their lock is there.
Bridged(s, h) ==
    LET R == UseHandler(s, h)
    IN  Failed(R) \cup UNION {CreateBridge(t) : t \in Passed(R)}

Addressed(s, a, address_changed) ==
    IF address_changed \/ "netconfig" \notin s.locks THEN SetAddress(s, a) ELSE {Returned(s)}

Routed(s, a, address_changed) ==
    IF ~(address_changed \/ "iptables" \notin s.locks) THEN {Returned(s)} ELSE
    LET R == _del_ipt_rules(s)
    IN  Failed(R) \cup UNION {AddRules(t, a) : t \in Passed(R)}

Served(s, a, address_changed) ==
    IF ~(address_changed \/ "dhcp" \notin s.locks) THEN {Returned(s)} ELSE
    LET R == CleanUpHandler(s)
    IN  Failed(R) \cup UNION {StartServer(t, a) : t \in Passed(R)}

apply_settings(s, a, h, address_changed) ==
    LET bridged == Bridged(s, h)
        addressed == UNION {Addressed(t, a, address_changed) : t \in Passed(bridged)}
        routed == UNION {Routed(t, a, address_changed) : t \in Passed(addressed)}
        served == UNION {Served(t, a, address_changed) : t \in Passed(routed)}
    IN  Failed(bridged) \cup Failed(addressed) \cup Failed(routed) \cup served

\* The bridge may refuse to go, unheard.
Unbridged(s) ==
    {[s EXCEPT !.locks = @ \ {"netconfig"}],
     [s EXCEPT !.locks = @ \ {"netconfig"}, !.bridge = FALSE, !.addrs = {}]}

Stopped(s) == IF s.handler = None THEN {Returned(s)} ELSE CleanUpHandler(s)

\* Mutant: the lock of the address stays.
clean_up_but_unlock(s) ==
    Failed(Stopped(s)) \cup
    UNION {_del_ipt_rules([t EXCEPT !.bridge = FALSE, !.addrs = {}]) : t \in Passed(Stopped(s))}

clean_up(s) ==
    Failed(Stopped(s)) \cup
    UNION {_del_ipt_rules(t) : t \in UNION {Unbridged(u) : u \in Passed(Stopped(s))}}

\* A server ends by itself; its pid file stays.
ServerDies(s, h) == [s EXCEPT !.server[h] = None, !.orphans = @ \ {h}]
===============================================================================
