------------------------------ MODULE DhcpClient ------------------------------
(***************************************************************************)
(* The DHCP client for one interface of a personal area network:           *)
(* plugins/applet/DhcpClient.py asks, plugins/mechanism/Network.py and     *)
(* main/DhcpClient.py run dhclient, dhcpcd or udhcpc and answer.           *)
(***************************************************************************)
EXTENDS Mechanism

VARIABLES
    call,        \* the applet's call: "none", "sent", "running" or "bound" (waiting to be
                 \* answered), "lost": nobody will answer it.  The interface is in
                 \* DhcpClient.querying of the applet from the call to its answer.
    client       \* the client process the mechanism checks each second, and keeps in
                 \* querying of its own: "none", "runs", "bound", "failed"

dhcpVars == <<call, client>>

DhcpInit == call = "none" /\ client = "none"

DhcpTypeOK ==
    /\ call \in {"none", "sent", "running", "bound", "lost"}
    /\ client \in {"none", "runs", "bound", "failed"}

\* dhcp_acquire, for a new value of Network1.Interface or as a method of the applet's: an
\* address is asked for unless one is.
dhcp_acquire ==
    /\ call = "none" /\ call' = "sent"
    /\ UNCHANGED client /\ UNCHANGED mechanismVars

\* _run_dhcp_client stops the timer before it asks for the authorization: a caller that
\* does not get it is answered, and the timer stays stopped.
NotAuthorized == call = "sent" /\ call' = "none" /\ Stop /\ UNCHANGED client

\* No client is installed, or one is being watched on the interface, or it cannot be run.
DhcpFails ==
    /\ call = "sent" /\ call' = "none"
    /\ up' = TRUE /\ stopped' = FALSE /\ time' = 0
    /\ UNCHANGED client

ClientStarts ==
    /\ call = "sent" /\ client = "none"
    /\ call' = "running" /\ client' = "runs"
    /\ Stop

\* The client gets an address, or gives up; 30 seconds after its start it is terminated.
ClientEnds ==
    /\ client = "runs"
    /\ client' \in {"bound", "failed"}
    /\ UNCHANGED call /\ UNCHANGED mechanismVars

\* _check_client, which tells of a failure at once and of a success a second later.
ClientFailed ==
    /\ client = "failed" /\ client' = "none"
    /\ call' = "none"
    /\ Resume

ClientBound ==
    /\ client = "bound" /\ client' = "none"
    /\ call' = "bound"
    /\ UNCHANGED mechanismVars

\* complete(), with the addresses that _check_client read before: an interface that had
\* none then raises KeyError, nobody is answered and the timer stays stopped.
Complete ==
    /\ call = "bound"
    /\ \/ call' = "none" /\ Resume
       \/ call' = "lost" /\ UNCHANGED mechanismVars
    /\ UNCHANGED client

\* The applet gives up after two minutes, longer than any client runs.
CallTimesOut == call = "lost" /\ call' = "none" /\ UNCHANGED client /\ UNCHANGED mechanismVars

\* The mechanism exits: it forgets what it was running, and D-Bus tells the applet that
\* there will be no answer.
ForgetClients == client' = "none" /\ call' = IF call = "sent" THEN call ELSE "none"

===============================================================================
