----------------------------- MODULE Mechanism -----------------------------
(***************************************************************************)
(* The root helper blueman-mechanism as a process: D-Bus starts it when a  *)
(* call arrives, and a timer makes it exit when it has been idle for a     *)
(* number of ticks.  A handler that runs for long stops the timer and      *)
(* resumes it when it is done.  "stopped" is one flag for all handlers:    *)
(* two of them that overlap share it (MechanismApplication.Timer).         *)
(***************************************************************************)
EXTENDS Naturals

CONSTANT IdleLimit     \* ticks without a call after which the mechanism exits

ASSUME IdleAssumption == IdleLimit \in Nat \ {0}

VARIABLES up,          \* the process runs
          stopped,     \* Timer.stopped
          time         \* Timer.time

mechanismVars == <<up, stopped, time>>

MechanismTypeOK == /\ up \in BOOLEAN
                   /\ stopped \in BOOLEAN
                   /\ time \in 0 .. IdleLimit - 1
                   /\ ~up => ~stopped /\ time = 0

MechanismInit == up = FALSE /\ stopped = FALSE /\ time = 0

(* A call of a method that does not ask for an authorization: it starts   *)
(* the process if there is none, and leaves the timer alone.               *)
Called == up' = TRUE /\ UNCHANGED <<stopped, time>>

(* confirm_authorization sets the time back, whatever it answers.          *)
Authorized == up' = TRUE /\ time' = 0 /\ UNCHANGED stopped

Stop == up' = TRUE /\ time' = 0 /\ stopped' = TRUE

Resume == up' = up /\ stopped' = FALSE /\ time' = 0

Idle == up /\ ~stopped

(* A tick before the last one.                                             *)
Tick == /\ Idle
        /\ time + 1 < IdleLimit
        /\ time' = time + 1
        /\ UNCHANGED <<up, stopped>>

(* The last tick quits the main loop; the next process has a new timer.    *)
Exit == /\ Idle
        /\ time + 1 = IdleLimit
        /\ up' = FALSE
        /\ time' = 0
        /\ UNCHANGED stopped
=============================================================================
