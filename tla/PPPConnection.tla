--------------------------- MODULE PPPConnection ---------------------------
(***************************************************************************)
(* A dial-up in the mechanism: Ppp._ppp_connect makes a PPPConnection,     *)
(* which sends the modem its commands one by one, each with a watch on the *)
(* modem's file and a timeout, and hands the port to pppd when the last    *)
(* one, the dial, is answered with CONNECT.  A tick looks whether pppd     *)
(* has gone to the background (the link is up) or has failed.              *)
(***************************************************************************)
EXTENDS Mechanism

CONSTANTS Calls,       \* calls of PPPConnect; one PPPConnection for each
          Commands     \* number of commands; the last one dials

ASSUME DialAssumption == Commands \in Nat \ {0}

VARIABLES call,        \* the D-Bus call: none, asked, served, ok or error
          command,     \* the command whose reply the connection waits for, or 0
          watching,    \* connections whose io_watch is installed
          timing,      \* connections whose timeout is pending
          file,        \* connections with an open file
          pppd,        \* as check_pppd polls it: none, running, up (in the
                       \* background) or failed
          interface    \* connections that know the interface and are polled

dialVars == <<call, command, watching, timing, file, pppd, interface>>
vars == <<mechanismVars, dialVars>>

DialTypeOK == /\ call \in [Calls -> {"none", "asked", "served", "ok", "error"}]
              /\ command \in [Calls -> 0 .. Commands]
              /\ watching \subseteq Calls
              /\ timing \subseteq Calls
              /\ file \subseteq Calls
              /\ pppd \in [Calls -> {"none", "running", "up", "failed"}]
              /\ interface \subseteq Calls

DialInit == /\ call = [c \in Calls |-> "none"]
            /\ command = [c \in Calls |-> 0]
            /\ watching = {}
            /\ timing = {}
            /\ file = {}
            /\ pppd = [c \in Calls |-> "none"]
            /\ interface = {}

-----------------------------------------------------------------------------
(* What the handlers below are made of.                                    *)

Answer(c, a) == call' = [call EXCEPT ![c] = a]

(* Mutant: the watch is left when the timeout fires.                       *)
StopTiming(c) == /\ timing' = timing \ {c}
                 /\ command' = [command EXCEPT ![c] = 0]
                 /\ UNCHANGED watching

(* wait_for_reply: both sources are installed for the same command.        *)
WaitForReply(c, n) == /\ command' = [command EXCEPT ![c] = n]
                      /\ watching' = watching \union {c}
                      /\ timing' = timing \union {c}

StopWaiting(c) == /\ watching' = watching \ {c}
                  /\ timing' = timing \ {c}
                  /\ command' = [command EXCEPT ![c] = 0]

cleanup(c) == file' = file \ {c}

(* "error-occurred" reaches _ppp_error, which answers and resumes the      *)
(* timer.                                                                  *)
ErrorOccurred(c) == Answer(c, "error") /\ Resume

-----------------------------------------------------------------------------
(* _ppp_connect.  The timer is stopped before the connection is made, and  *)
(* an exception (a bad APN, a file that cannot be opened, a write that     *)
(* fails) answers the call without resuming it; a write that fails leaves  *)
(* the file open.                                                          *)
NotAuthorized(c) == /\ call[c] = "asked"
                    /\ Authorized
                    /\ Answer(c, "error")
                    /\ UNCHANGED <<command, watching, timing, file, pppd, interface>>

NotStarted(c) == /\ call[c] = "asked"
                 /\ Stop
                 /\ Answer(c, "error")
                 /\ file' \in {file, file \union {c}}
                 /\ UNCHANGED <<command, watching, timing, pppd, interface>>

Dialing(c) == /\ call[c] = "asked"
              /\ Stop
              /\ Answer(c, "served")
              /\ file' = file \union {c}
              /\ WaitForReply(c, 1)
              /\ UNCHANGED <<pppd, interface>>

(* on_data_ready with the end of the reply to a command before the dial,   *)
(* be it OK or ERROR: the next command is sent.                            *)
Reply(c) == /\ c \in watching
            /\ command[c] < Commands
            /\ WaitForReply(c, command[c] + 1)
            /\ UNCHANGED <<mechanismVars, call, file, pppd, interface>>

(* The write of the next command fails: the exception leaves the callback, *)
(* both sources are gone and nothing else is done.                         *)
WriteFails(c) == /\ c \in watching
                 /\ command[c] < Commands
                 /\ StopWaiting(c)
                 /\ UNCHANGED <<mechanismVars, call, file, pppd, interface>>

(* connect_callback: the modem answered CONNECT and pppd was started.      *)
ModemConnects(c) == /\ c \in watching
                    /\ command[c] = Commands
                    /\ StopWaiting(c)
                    /\ pppd' = [pppd EXCEPT ![c] = "running"]
                    /\ cleanup(c)
                    /\ UNCHANGED <<mechanismVars, call, interface>>

(* connect_callback: another answer, or pppd cannot be started.            *)
DialFails(c) == /\ c \in watching
                /\ command[c] = Commands
                /\ StopWaiting(c)
                /\ cleanup(c)
                /\ ErrorOccurred(c)
                /\ UNCHANGED <<pppd, interface>>

(* on_data_ready with an error, or a read that fails.                      *)
SocketError(c) == /\ c \in watching
                  /\ StopWaiting(c)
                  /\ ErrorOccurred(c)
                  /\ cleanup(c)
                  /\ UNCHANGED <<pppd, interface>>

(* A byte that is not UTF-8: the exception removes the watch; the timeout  *)
(* is left to end the dial.                                                *)
BadByte(c) == /\ c \in watching
              /\ watching' = watching \ {c}
              /\ UNCHANGED <<mechanismVars, call, command, timing, file, pppd, interface>>

(* on_timeout.                                                             *)
ModemTimeout(c) == /\ c \in timing
                   /\ StopWaiting(c)
                   /\ ErrorOccurred(c)
                   /\ cleanup(c)
                   /\ UNCHANGED <<pppd, interface>>

(* on_pppd_stdout reads the line with the interface; what is not read when *)
(* pppd closes its output is lost.                                         *)
on_pppd_stdout(c) == /\ pppd[c] = "running"
                     /\ call[c] = "served"
                     /\ c \notin interface
                     /\ interface' = interface \union {c}
                     /\ UNCHANGED <<mechanismVars, call, command, watching, timing, file, pppd>>

(* pppd goes to the background with a link, or fails.                      *)
PppdEnds(c) == /\ pppd[c] = "running"
               /\ \E s \in {"up", "failed"} : pppd' = [pppd EXCEPT ![c] = s]
               /\ UNCHANGED <<mechanismVars, call, command, watching, timing, file, interface>>

(* check_pppd, while pppd has ended and the call waits.  Without the       *)
(* interface's name the answer cannot be built: the exception leaves the   *)
(* call unanswered and the timer stopped, and no tick comes again, so the  *)
(* action is not enabled then.                                             *)
check_pppd(c) == /\ call[c] = "served"
                 /\ \/ /\ pppd[c] = "up"
                       /\ c \in interface
                       /\ Answer(c, "ok")
                       /\ Resume
                    \/ /\ pppd[c] = "failed"
                       /\ ErrorOccurred(c)
                 /\ pppd' = [pppd EXCEPT ![c] = "none"]
                 /\ interface' = interface \ {c}
                 /\ UNCHANGED <<command, watching, timing, file>>

(* The process exits: its files and sources go, nobody polls a pppd any    *)
(* more, and D-Bus answers the calls it served with an error.              *)
MechanismExits == /\ Exit
                  /\ call' = [c \in Calls |-> IF call[c] = "served" THEN "error" ELSE call[c]]
                  /\ watching' = {}
                  /\ timing' = {}
                  /\ file' = {}
                  /\ command' = [c \in Calls |-> 0]
                  /\ pppd' = [c \in Calls |-> "none"]
                  /\ interface' = {}

MechanismTicks == Tick /\ UNCHANGED dialVars

DialStep(c) == \/ NotAuthorized(c) \/ NotStarted(c) \/ Dialing(c)
               \/ Reply(c) \/ WriteFails(c) \/ ModemConnects(c) \/ DialFails(c)
               \/ SocketError(c) \/ BadByte(c) \/ ModemTimeout(c)
               \/ on_pppd_stdout(c) \/ PppdEnds(c) \/ check_pppd(c)
=============================================================================
