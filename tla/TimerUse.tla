------------------------------ MODULE TimerUse ------------------------------
(***************************************************************************)
(* How one CFrontPanel is to use blinkTimer: stop, which clears the flag   *)
(* and then revokes; start, which schedules one entry behind a stop; and   *)
(* the callback, which may schedule itself when it has found the flag set. *)
(* Singleton has the requests in few steps, Blink all that they do in      *)
(* between; both come down to this.                                        *)
(***************************************************************************)
VARIABLES request,   \* "none", "stopping", "quiet" (behind its Revoke), "starting"
          blinking,  \* the flag
          waiting,   \* an entry is in the timer
          callback   \* "none", "runs", "schedules" (has found the flag set)

vars == <<request, blinking, waiting, callback>>

Init == request = "none" /\ ~blinking /\ ~waiting /\ callback = "none"

Stop ==
  /\ request \in {"none", "quiet"} /\ request' = "stopping"
  /\ blinking' = FALSE
  /\ UNCHANGED <<waiting, callback>>

Revoke ==
  /\ request = "stopping" /\ request' \in {"quiet", "none"}
  /\ callback = "none"
  /\ waiting' = FALSE
  /\ UNCHANGED <<blinking, callback>>

\* a request that wants no pattern, or the object is deleted
Leave ==
  /\ request = "quiet" /\ request' = "none"
  /\ UNCHANGED <<blinking, waiting, callback>>

Arm ==
  /\ request = "quiet" /\ request' \in {"starting", "none"}
  /\ ~waiting /\ callback = "none"
  /\ blinking' = TRUE
  /\ UNCHANGED <<waiting, callback>>

Schedule ==
  /\ request = "starting" /\ request' = "none"
  /\ ~waiting /\ callback = "none"
  /\ waiting' \in BOOLEAN
  /\ UNCHANGED <<blinking, callback>>

Fire ==
  /\ waiting /\ callback = "none"
  /\ waiting' = FALSE /\ callback' = "runs"
  /\ UNCHANGED <<request, blinking>>

Test ==
  /\ callback = "runs" /\ ~waiting
  /\ \/ callback' = "none"
     \/ blinking /\ callback' = "schedules"
  /\ UNCHANGED <<request, blinking, waiting>>

Reschedule ==
  /\ callback = "schedules" /\ ~waiting
  /\ waiting' = TRUE /\ callback' = "none"
  /\ UNCHANGED <<request, blinking>>

Next ==
  \/ Stop \/ Revoke \/ Leave \/ Arm \/ Schedule
  \/ Fire \/ Test \/ Reschedule

Spec == Init /\ [][Next]_vars

\* The same where the process may end, or no longer be looked at.
Gone == Init'
MortalSpec == Init /\ [][Next \/ Gone]_vars
=============================================================================
