----------------------------- MODULE BlinkShow -----------------------------
(***************************************************************************)
(* What a blink request promises, whatever threads and timers deliver it:  *)
(* the elements of the pattern are shown one after the other, the pattern  *)
(* is played iterations + 1 times (for ever when iterations is negative),  *)
(* the LED then stays on the last element, and a request for a steady      *)
(* value or for another pattern puts an end to it.                         *)
(***************************************************************************)
EXTENDS Integers, Sequences

CONSTANTS Shades,      \* what an element of a pattern makes the LED show
          Steady,      \* what any other request makes the LED show
          Patterns,    \* the patterns that may be asked for
          Iterations,  \* the repeat counts that may be asked for
          DsFaults     \* device settings may refuse what an element asks for

VARIABLES led,         \* what the LED shows
          playing,     \* a pattern is being played
          pattern,     \* the pattern being played, <<>> if none is
          pos,         \* the position in pattern of the element shown
          left,        \* how often the pattern is still to be repeated
          stopped      \* another request has come and takes over

vars == <<led, playing, pattern, pos, left, stopped>>

Init ==
  /\ led \in Steady /\ playing = FALSE /\ pattern = <<>>
  /\ pos = 0 /\ left = 0 /\ stopped = FALSE

Rest ==
  playing' = FALSE /\ pattern' = <<>> /\ pos' = 0 /\ left' = 0 /\ stopped' = FALSE

\* The promise is about when an element is shown, and which one.  Device
\* settings may refuse all of it, or a half.
Shows(shade) ==
  IF DsFaults THEN led' \in Shades \cup {led} ELSE led' = shade

Start(p, n) ==
  /\ ~playing /\ p # <<>>
  /\ playing' = TRUE /\ pattern' = p /\ pos' = 1
  /\ left' = IF n < 0 THEN -1 ELSE n
  /\ Shows(p[1])
  /\ UNCHANGED stopped

\* the next element of the same round
Step ==
  /\ playing /\ pos < Len(pattern)
  /\ pos' = pos + 1
  /\ Shows(pattern[pos + 1])
  /\ UNCHANGED <<playing, pattern, left, stopped>>

\* the first element of the next round
Repeat ==
  /\ playing /\ pos = Len(pattern) /\ left # 0
  /\ pos' = 1
  /\ left' = IF left < 0 THEN left ELSE left - 1
  /\ Shows(pattern[1])
  /\ UNCHANGED <<playing, pattern, stopped>>

\* the last round is over: the LED stays as it is
End ==
  /\ playing /\ pos = Len(pattern) /\ left = 0
  /\ Rest
  /\ UNCHANGED led

\* another request comes; an element that is due may still be shown
Stop ==
  /\ playing /\ ~stopped
  /\ stopped' = TRUE
  /\ UNCHANGED <<led, playing, pattern, pos, left>>

\* and stops the pattern wherever it is; nothing else does
Cancel ==
  /\ playing /\ stopped
  /\ Rest
  /\ UNCHANGED led

\* a steady value is only ever written when nothing plays
Set ==
  /\ ~playing
  /\ led' \in Steady
  /\ UNCHANGED <<playing, pattern, pos, left, stopped>>

Advance == Step \/ Repeat \/ End

Next ==
  \/ \E p \in Patterns, n \in Iterations : Start(p, n)
  \/ Advance
  \/ Stop
  \/ Cancel
  \/ Set

\* A pattern that plays goes on by itself.  (What the LED shows does not count:
\* a pattern of one element that device settings refuses goes on unseen.)
progress == <<playing, pattern, pos, left>>
Spec == Init /\ [][Next]_vars /\ WF_progress(Advance)
=============================================================================
