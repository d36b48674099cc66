----------------------------- MODULE DBusMethod -----------------------------
(***************************************************************************)
(* What a method of an object that a DbusService exports promises to the   *)
(* callers of its method: an answer to each call, once, however many calls *)
(* are open and whoever gives the answer.  TransferService, BluezAgent and *)
(* ConnectService implement it for the methods they model.                 *)
(***************************************************************************)
EXTENDS Naturals

CONSTANT Calls

VARIABLES state,     \* a call is unused, open, answered, or over: its caller
                     \* has given up, or the process that served it has
          replies    \* how often a handler has answered it

callVars == <<state, replies>>

Init == /\ state = [c \in Calls |-> "unused"]
        /\ replies = [c \in Calls |-> 0]

Becomes(c, s, n) == state'[c] = s /\ replies'[c] = n

(* The call arrives.                                                       *)
Asked(c) == state[c] = "unused" /\ Becomes(c, "open", 0)

(* A handler calls ok or err while the caller waits, or afterwards, which  *)
(* the caller does not see.                                                *)
Answered(c) == /\ state[c] \in {"open", "over"}
               /\ replies[c] = 0
               /\ Becomes(c, IF state[c] = "open" THEN "answered" ELSE "over", 1)

(* _handle_method_call answers a method that fails before it returns.      *)
AnsweredAtOnce(c) == state[c] = "unused" /\ Becomes(c, "answered", 1)

GivenUp(c) == state[c] = "open" /\ Becomes(c, "over", replies[c])

Stays(c) == Becomes(c, state[c], replies[c])

(* One handler may answer several calls.                                   *)
Next == /\ \A c \in Calls : Asked(c) \/ Answered(c) \/ AnsweredAtOnce(c) \/ GivenUp(c) \/ Stays(c)
        /\ state' \in [Calls -> {"unused", "open", "answered", "over"}]
        /\ replies' \in [Calls -> {0, 1}]

Spec == Init /\ [][Next]_callVars

(* Each call is answered once at most, and "answered" is what the caller   *)
(* was told: not before a handler did, and not without.                    *)
AnsweredOnce == \A c \in Calls : /\ replies[c] \in {0, 1}
                                 /\ state[c] = "answered" => replies[c] = 1
                                 /\ state[c] \in {"unused", "open"} => replies[c] = 0
=============================================================================
