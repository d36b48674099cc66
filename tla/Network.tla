------------------------------- MODULE Network -------------------------------
(***************************************************************************)
(* Networking over Bluetooth: the plugin Networking of the applet and the  *)
(* page "Network" of blueman-services, which share the settings            *)
(* org.blueman.network, and the plugin Network of blueman-mechanism, which *)
(* runs NetConf and DhcpClient for them.  The mechanism serves the calls   *)
(* one after the other; blueman-services waits for the answer of its own,  *)
(* the applet does not.  Between two calls the mechanism may exit.  What   *)
(* the plugin asks of BlueZ is in the module Networking.  NetConf and      *)
(* DhcpClient share nothing but the timer of the mechanism, which calls    *)
(* set back and a client stops, so that for either of them the other is    *)
(* one more reason for the mechanism not to exit yet: a behaviour shows    *)
(* one of the two at work.                                                 *)
(***************************************************************************)
EXTENDS NetConf, DhcpClient, Sequences

CONSTANT MaxQueue      \* bound: calls waiting for the mechanism

ASSUME NetworkAssumption ==
    /\ MaxQueue \in Nat \ {0}
    /\ None \notin Addresses \cup Handlers /\ Addresses \cap Handlers = {}

VARIABLES
    config,        \* nap-enable, ip4-address and dhcp-handler
    queue,         \* the calls EnableNetwork and DisableNetwork on their way
    page,          \* what the page is doing: "idle", "waiting", "enabled" (it has the answer)
    wanted,        \* the address and the handler it asked for
    loaded,        \* Networking is loaded
    part           \* what is at work: "network" or "client"

napVars == <<config, queue, page, wanted, loaded>>
vars == <<net, dhcpVars, mechanismVars, napVars, part>>

Nothing == [a |-> None, h |-> None]

Init ==
    /\ NetConfInit /\ DhcpInit /\ MechanismInit
    /\ config = [enable |-> FALSE, a |-> None, h |-> None]
    /\ queue = <<>> /\ page = "idle"
    /\ wanted = Nothing
    /\ loaded = FALSE /\ part \in {"network", "client"}

(***************************************************************************)
(* The plugin Networking.                                                  *)
(***************************************************************************)
_apply_nap_settings ==
    IF config.enable /\ config.a # None
    THEN /\ Len(queue) < MaxQueue
         /\ queue' = Append(queue, [from |-> "applet", op |-> "enable", a |-> config.a,
                                    h |-> config.h, changed |-> FALSE])
    ELSE UNCHANGED queue

Load ==
    /\ ~loaded /\ loaded' = TRUE
    /\ _apply_nap_settings
    /\ UNCHANGED <<config, page, wanted, net>> /\ UNCHANGED dhcpVars /\ UNCHANGED mechanismVars

\* The name servers change.
DnsChanged ==
    /\ loaded /\ config.enable
    /\ _apply_nap_settings
    /\ UNCHANGED <<config, page, wanted, loaded, net>>
    /\ UNCHANGED dhcpVars /\ UNCHANGED mechanismVars

Unload ==
    /\ loaded /\ loaded' = FALSE
    /\ UNCHANGED <<config, queue, page, wanted, net>>
    /\ UNCHANGED dhcpVars /\ UNCHANGED mechanismVars

(***************************************************************************)
(* The page of blueman-services (on_apply).                                *)
(***************************************************************************)
Apply(a, h) ==
    /\ page = "idle" /\ page' = "waiting"
    /\ Len(queue) < MaxQueue
    /\ queue' = Append(queue, [from |-> "page", op |-> "enable", a |-> a, h |-> h,
                               changed |-> a # config.a])
    /\ wanted' = [a |-> a, h |-> h]
    /\ UNCHANGED <<config, loaded, net>> /\ UNCHANGED dhcpVars /\ UNCHANGED mechanismVars

ApplyDisable ==
    /\ page = "idle" /\ page' = "waiting"
    /\ Len(queue) < MaxQueue
    /\ queue' = Append(queue, [from |-> "page", op |-> "disable", a |-> None, h |-> None,
                               changed |-> FALSE])
    /\ config' = [config EXCEPT !.enable = FALSE]
    /\ UNCHANGED <<wanted, loaded, net>> /\ UNCHANGED dhcpVars /\ UNCHANGED mechanismVars

\* The settings are written after a call that succeeded.
Applied ==
    /\ page = "enabled" /\ page' = "idle"
    /\ config' = [enable |-> TRUE, a |-> wanted.a, h |-> wanted.h] /\ wanted' = Nothing
    /\ UNCHANGED <<queue, loaded, net>> /\ UNCHANGED dhcpVars /\ UNCHANGED mechanismVars

(***************************************************************************)
(* The mechanism serves the first call: _enable_network, _disable_network. *)
(***************************************************************************)
Results(c) ==
    {Raised(net)} \cup      \* not authorized
    IF c.op = "enable" THEN apply_settings(net, c.a, c.h, c.changed) ELSE clean_up(net)

Serve ==
    /\ queue # <<>> /\ queue' = Tail(queue)
    /\ LET c == Head(queue)
       IN  \E r \in Results(c) :
            /\ net' = [r.net EXCEPT !.orphans = @ \cap Running(r.net)]
            /\ page' = IF c.from # "page" THEN page
                       ELSE IF c.op = "enable" /\ r.ok THEN "enabled" ELSE "idle"
            /\ wanted' = IF c.from = "page" /\ ~r.ok THEN Nothing ELSE wanted
    /\ \A a \in Addresses : net'.nat[a] <= 2          \* bound
    /\ Authorized
    /\ UNCHANGED <<config, loaded>> /\ UNCHANGED dhcpVars

\* It has been idle for long enough.
MechanismExits ==
    /\ up /\ Exit
    /\ net' = Forget(net)
    /\ ForgetClients
    /\ UNCHANGED napVars

MechanismTicks ==
    /\ Tick
    /\ UNCHANGED net /\ UNCHANGED napVars /\ UNCHANGED dhcpVars

ServerEnds(h) ==
    /\ net.server[h] # None
    /\ net' = ServerDies(net, h)
    /\ UNCHANGED napVars /\ UNCHANGED dhcpVars /\ UNCHANGED mechanismVars

\* The DHCP client, alone.
Client(A) == A /\ UNCHANGED net /\ UNCHANGED napVars

NetworkNext ==
    \/ Load \/ Unload \/ DnsChanged
    \/ \E a \in Addresses, h \in Handlers : Apply(a, h)
    \/ ApplyDisable \/ Applied
    \/ Serve
    \/ \E h \in Handlers : ServerEnds(h)

ClientNext ==
    \/ Client(dhcp_acquire)
    \/ Client(NotAuthorized) \/ Client(DhcpFails) \/ Client(ClientStarts) \/ Client(ClientEnds)
    \/ Client(ClientFailed) \/ Client(ClientBound) \/ Client(Complete) \/ Client(CallTimesOut)

Next ==
    /\ UNCHANGED part
    /\ \/ part = "network" /\ NetworkNext
       \/ part = "client" /\ ClientNext
       \/ MechanismTicks \/ MechanismExits

Spec == Init /\ [][Next]_vars

-------------------------------------------------------------------------------
(* The types of the variables. *)
TypeOK ==
    /\ MechanismTypeOK /\ DhcpTypeOK
    /\ net.locks \subseteq Locks /\ net.addrs \subseteq Addresses /\ net.mine \subseteq Addresses
    /\ net.handler \in Handlers \cup {None} /\ net.pidfiles \subseteq Handlers
    /\ net.nat \in [Addresses -> Nat] /\ net.server \in [Handlers -> Addresses \cup {None}]
    /\ {net.bridge, net.pid, net.refused, config.enable, loaded} \subseteq BOOLEAN
    /\ net.orphans \subseteq Handlers \cup Addresses
    /\ Len(queue) <= MaxQueue /\ page \in {"idle", "waiting", "enabled"}

(* A lock file stands for what it locks, though calls fail half-way and the mechanism
   exits: with "netconfig" the bridge is there and has an address, and with "iptables" an
   address is masqueraded, unless iptables refused the last rules it was given
   (NetConf.apply_settings, clean_up). *)
LocksHold ==
    /\ TypeOK
    /\ "netconfig" \in net.locks => net.bridge /\ net.addrs # {}
    /\ "iptables" \in net.locks => net.refused \/ \E a \in Addresses : net.nat[a] > 0
    /\ net.addrs # {} => net.bridge

(* What is out of reach was left behind by an exit of the mechanism, by a start taken for a
   failure or by iptables refusing a deletion: any other DHCP server is the one of the current
   handler, with the lock, and any other address is masqueraded once, by a rule that is known
   (NetConf._dhcp_handler, _ipt_rules, DHCPHandler.apply, clean_up). *)
OrphansAreKnown ==
    /\ \A h \in Handlers :
        net.server[h] # None => h \in net.orphans \/ (h = net.handler /\ "dhcp" \in net.locks)
    /\ \A a \in Addresses \ net.orphans :
        net.nat[a] > 0 => net.nat[a] = 1 /\ a \in net.mine
===============================================================================
