------------------------- MODULE PowerFollowProofs -------------------------
(***************************************************************************)
(* Proofs about PowerFollow, for any modes and queues of any length.       *)
(***************************************************************************)
EXTENDS PowerFollow, SequenceTheorems, TLAPS

\* A notification that is taken off leaves the last one last; when it was the
\* only one it tells the mode.
LEMMA TailOfQueue ==
  ASSUME NEW q \in Seq(Modes), q # <<>>, NEW m, q[Len(q)] = m
  PROVE  /\ Tail(q) \in Seq(Modes)
         /\ Tail(q) # <<>> => Tail(q)[Len(Tail(q))] = m
         /\ Tail(q) = <<>> => Head(q) = m
<1>1. /\ Len(Tail(q)) = Len(q) - 1 /\ Len(q) \in Nat /\ Tail(q) \in Seq(Modes)
      /\ Len(<<>>) = 0 /\ Head(q) = q[1]
  OBVIOUS
<1>2. ASSUME Tail(q) # <<>> PROVE Tail(q)[Len(Tail(q))] = m
  <2>1. Len(Tail(q)) \in 1..Len(Tail(q))
    BY <1>1, <1>2
  <2> QED
    BY <1>1, <2>1
<1>3. ASSUME Tail(q) = <<>> PROVE Head(q) = m
  <2>1. Len(Tail(q)) = 0
    BY <1>1, <1>3
  <2>2. \A n \in Nat : n - 1 = 0 => n = 1
    OBVIOUS
  <2>3. Len(q) = 1
    BY <1>1, <2>1, <2>2
  <2> QED
    BY <1>1, <2>3
<1> QED
  BY <1>1, <1>2, <1>3

\* FollowInv is inductive.
LEMMA FollowStep == ASSUME FollowInv, [Next]_vars PROVE FollowInv'
<1> USE DEF FollowInv, Followed, Off
<1>1. CASE Change
  <2>1. CASE following
    <3>1. mode' \in Modes /\ queue \in Seq(Modes) /\ queue' = Append(queue, mode')
      BY <1>1, <2>1 DEF Change
    <3>2. queue' \in Seq(Modes) /\ queue' # <<>> /\ queue'[Len(queue')] = mode'
      BY <3>1
    <3> QED
      BY <1>1, <2>1, <3>1, <3>2 DEF Change
  <2>2. CASE ~following
    BY <1>1, <2>2 DEF Change
  <2> QED
    BY <2>1, <2>2
<1>2. CASE Begin
  BY <1>2 DEF Begin
<1>3. CASE Fetch
  BY <1>3 DEF Fetch
<1>4. CASE Leave
  BY <1>4 DEF Leave
<1>5. CASE Note
  BY <1>5, TailOfQueue DEF Note
<1>6. CASE End
  BY <1>6 DEF End
<1>7. CASE UNCHANGED vars
  BY <1>7 DEF vars
<1> QED
  BY <1>1, <1>2, <1>3, <1>4, <1>5, <1>6, <1>7 DEF Next

\* Whoever follows PowerManager like this has the status right whenever nothing
\* is on its way, for any number of changes at any time, if the status began as
\* off; otherwise it can be wrong in one way only, on while PowerManager is not.
\* This is what Panel and Singleton are shown to do (PanelFollows, ShellFollows).
THEOREM FollowsRight == Spec => [](FollowInv /\ Followed)
<1>1. Init => FollowInv
  BY DEF Init, FollowInv, Followed, Off
<1>2. FollowInv => Followed
  BY DEF FollowInv
<1> QED
  BY <1>1, <1>2, FollowStep, PTL DEF Spec
=============================================================================
