---------------------------- MODULE PowerFollow ----------------------------
(***************************************************************************)
(* How the plugin is to follow PowerManager's mode, whatever statements    *)
(* and threads do it.  While it follows, the status comes from two sources *)
(* only: the mode is asked for, once at most and before anything is noted, *)
(* and each notification is noted, the oldest first.  Nothing else touches *)
(* the status.  An answer only ever turns the status on: where it begins   *)
(* as something left from before, it may stay on.                          *)
(***************************************************************************)
EXTENDS Sequences

CONSTANT Modes        \* with "ON" among them

VARIABLES mode,       \* PowerManager's
          queue,      \* its notifications that are not noted yet
          following,  \* notifications come, and the status is to be right
          fresh,      \* and it began as off
          told,       \* what was last heard of the mode, and how
          status      \* the plugin takes the mode to be ON

vars == <<mode, queue, following, fresh, told, status>>

Off == ~following /\ ~fresh /\ told = "nothing" /\ ~status /\ queue = <<>>

Init == mode \in Modes /\ Off

Change ==
  /\ mode' \in Modes \ {mode}
  /\ queue' = IF following THEN Append(queue, mode') ELSE queue
  /\ UNCHANGED <<following, fresh, told, status>>

Begin ==
  /\ ~following /\ following' = TRUE
  /\ {fresh', status'} \subseteq BOOLEAN /\ ~(fresh' /\ status')
  /\ UNCHANGED <<mode, queue, told>>

Fetch ==
  /\ following /\ told = "nothing"
  /\ told' = "answer"
  /\ status' = (status \/ mode = "ON")
  /\ UNCHANGED <<mode, queue, following, fresh>>

\* the question is not put, or not answered
Leave ==
  /\ following /\ told = "nothing"
  /\ told' = "unanswered"
  /\ UNCHANGED <<mode, queue, following, fresh, status>>

Note ==
  /\ following /\ queue # <<>>
  /\ queue' = Tail(queue)
  /\ status' = (Head(queue) = "ON")
  /\ told' = "notification"
  /\ UNCHANGED <<mode, following, fresh>>

End ==
  /\ following /\ Off'
  /\ UNCHANGED mode

Next == Change \/ Begin \/ Fetch \/ Leave \/ Note \/ End

Spec == Init /\ [][Next]_vars
-----------------------------------------------------------------------------
\* What following comes to.  When nothing is on its way any more, and the last
\* that was heard of the mode was a notification, the status is PowerManager's
\* mode.  After an answer alone it does not miss that the mode is ON, and is the
\* mode if it began as off.
Followed ==
  queue = <<>> =>
    /\ told \in {"answer", "notification"} /\ mode = "ON" => status
    /\ told = "notification" \/ (told = "answer" /\ fresh) => (status <=> mode = "ON")

\* What the notifications still on their way say of the mode, as an inductive
\* invariant.
FollowInv ==
  /\ mode \in Modes /\ queue \in Seq(Modes)
  /\ ~following => Off
  /\ queue # <<>> => queue[Len(queue)] = mode
  /\ fresh /\ told \in {"nothing", "unanswered"} => ~status
  /\ Followed
=============================================================================
