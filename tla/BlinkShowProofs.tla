-------------------------- MODULE BlinkShowProofs --------------------------
(***************************************************************************)
(* Blink implements the safety part of BlinkShow: with one client at a     *)
(* time, every step of the engine is a step of the promise or leaves alone *)
(* what the promise is about, whichever calls to device settings throw.    *)
(***************************************************************************)
EXTENDS BlinkProofs, SequenceTheorems

\* What a request carries reaches the list and the counter as it was asked for.
Asked ==
  \A c \in Clients :
    /\ pc[c] \in {"revokeAndClear", "clear"} => todo[c] \in Patterns
    /\ pc[c] = "push" => blinkList \o todo[c] \in Patterns
    /\ pc[c] \in {"revokeAndArm", "arm", "first"} => blinkList \in Patterns
    /\ pc[c] \in {"revokeAndClear", "clear", "push", "revokeAndArm", "arm"}
         => iterations[c] \in Iterations
    /\ pc[c] = "first" => maxNumberOfBlinkRepeats \in Iterations
    /\ pc[c] \in {"first", "check", "schedule"} => numberOfBlinks = 0

\* While a pattern with a finite repeat count plays, the rounds played are not
\* more than those asked for: Inc does not wrap.
Counted ==
  Playing /\ ~Endless(maxNumberOfBlinkRepeats)
    => numberOfBlinks \in 0..maxNumberOfBlinkRepeats

\* While an entry waits or a callback runs, the index names an element, whatever
\* the LED shows.
Standing == Ticks > 0 => currentBlinkListIndex < Len(blinkList)

\* Who plays, after the step of a client.
LEMMA PlayingClient ==
  ASSUME OneClient, RevokeWaits, TypeOK, ChainInv, NEW c \in Clients
  PROVE  /\ NewRequest(c) => (Playing' <=> Playing)
         /\ Revoke(c) => ~Playing'
         /\ Write(c) \/ Clear(c) \/ Push(c) \/ Restop(c) \/ Arm(c) => ~Playing /\ ~Playing'
         /\ First(c) => ~Playing /\ Playing'
         /\ Check(c) \/ Schedule(c) => Playing /\ Playing'
<1>1. /\ pending \in Nat /\ tick \in TickLabels /\ pc \in [Clients -> Labels]
      /\ \A d \in Clients : d = c
  BY DEF TypeOK, OneClient
<1>2. Ticks > 0 <=> pending > 0 \/ tick # "idle"
  BY <1>1 DEF Ticks
<1>3. Ticks > 0 => pc[c] \in {"idle", "revokeAndWrite", "revokeAndClear"}
  BY DEF ChainInv
<1>4. ASSUME NewRequest(c) PROVE Playing' <=> Playing
  <2>1. UNCHANGED <<pending, tick>> /\ pc[c] = "idle"
        /\ pc'[c] \in {"revokeAndWrite", "revokeAndClear"}
    BY <1>1, <1>4 DEF NewRequest, LedRequest, SetBlink, StopBlinkTimer, Goto
  <2> QED
    BY <1>1, <2>1 DEF Playing, Ticks
<1>5. ASSUME Revoke(c) PROVE ~Playing'
  <2>1. pending' = 0 /\ tick' = "idle" /\ pc'[c] \in {"write", "clear", "arm"}
    BY <1>1, <1>5 DEF Revoke, RevokeEntries, Returns, Goto
  <2> QED
    BY <1>1, <2>1 DEF Playing, Ticks
<1>6. ASSUME Write(c) \/ Clear(c) \/ Push(c) \/ Restop(c) \/ Arm(c) PROVE ~Playing /\ ~Playing'
  <2>1. /\ pc[c] \in {"write", "clear", "push", "arm"} /\ UNCHANGED <<pending, tick>>
        /\ pc'[c] \in {"idle", "push", "revokeAndArm", "first"}
    BY <1>1, <1>6 DEF Write, Clear, Push, Restop, Arm, StopBlinkTimer, Goto
  <2>2. ~(Ticks > 0) /\ ~(Ticks' > 0)
    BY <1>3, <2>1 DEF Ticks
  <2> QED
    BY <1>1, <2>1, <2>2 DEF Playing
<1>7. ASSUME First(c) PROVE ~Playing /\ Playing'
  <2>1. pc[c] = "first" /\ pc'[c] = "check"
    BY <1>1, <1>7 DEF First, Goto, ChainInv, TypeOK
  <2> QED
    BY <1>1, <1>3, <2>1 DEF Playing
<1>8. ASSUME Check(c) PROVE Playing /\ Playing'
  <2>1. pc[c] = "check" /\ pc'[c] = "schedule"
    BY <1>1, <1>8 DEF Check, StillBlinking, Goto, ChainInv
  <2> QED
    BY <1>1, <2>1 DEF Playing
<1>9. ASSUME Schedule(c) PROVE Playing /\ Playing'
  <2>1. pc[c] = "schedule" /\ pending' = pending + 1 /\ tick' = tick
    BY <1>9 DEF Schedule
  <2>2. Ticks' > 0
    BY <1>1, <2>1 DEF Ticks
  <2> QED
    BY <1>1, <2>1, <2>2 DEF Playing
<1> QED
  BY <1>4, <1>5, <1>6, <1>7, <1>8, <1>9

\* Who plays, after a step of the timer: the callback hands the pattern on, or
\* is the last.
LEMMA PlayingTimer ==
  ASSUME OneClient, RevokeWaits, TypeOK, ChainInv, Timer
  PROVE  /\ Playing
         /\ Playing' <=> ~(Advance /\ ~BlinkAgain) /\ ~(Recheck /\ ~isBlinking)
         /\ UNCHANGED <<pc, todo, iterations, blinkList, isBlinking, maxNumberOfBlinkRepeats>>
         /\ ~Advance => UNCHANGED <<numberOfBlinks, currentBlinkListIndex>>
<1>1. pending \in Nat /\ tick \in TickLabels
  BY DEF TypeOK
<1>2. Ticks > 0 /\ (tick # "idle" => pending = 0)
  BY <1>1 DEF Timer, Fire, Advance, Show, Recheck, Reschedule, Ticks, ChainInv
<1>3. \A c \in Clients : pc[c] \notin {"check", "schedule"}
  BY <1>2 DEF ChainInv
<1>4. /\ UNCHANGED <<pc, todo, iterations, blinkList, isBlinking, maxNumberOfBlinkRepeats>>
      /\ ~Advance => UNCHANGED <<numberOfBlinks, currentBlinkListIndex>>
  BY DEF Timer, Fire, Advance, Show, Recheck, Reschedule, request, counters
<1>5. Playing' <=> Ticks' > 0
  BY <1>3, <1>4 DEF Playing
<1>6. CASE Fire
  BY <1>1, <1>2, <1>3, <1>4, <1>5, <1>6 DEF Fire, Advance, Recheck, Ticks, Playing
<1>7. CASE Advance
  BY <1>1, <1>2, <1>3, <1>4, <1>5, <1>7 DEF Advance, Recheck, Ticks, Playing
<1>8. CASE Show
  <2>1. tick' = "check" /\ pending' = pending
    BY <1>8 DEF Show, ChainInv, TypeOK
  <2> QED
    BY <1>1, <1>2, <1>3, <1>4, <1>5, <1>8, <2>1 DEF Show, Advance, Recheck, Ticks, Playing
<1>9. CASE Recheck
  BY <1>1, <1>2, <1>3, <1>4, <1>5, <1>9 DEF Advance, Recheck, StillBlinking, Ticks, Playing
<1>10. CASE Reschedule
  BY <1>1, <1>2, <1>3, <1>4, <1>5, <1>10 DEF Advance, Recheck, Reschedule, Ticks, Playing
<1> QED
  BY <1>6, <1>7, <1>8, <1>9, <1>10 DEF Timer

\* Taking the first element of one sequence to the end of another.
LEMMA PushKeeps ==
  ASSUME NEW S, NEW s \in Seq(S), NEW t \in Seq(S), t # <<>>
  PROVE  Append(s, Head(t)) \o Tail(t) = s \o t
<1>1. Head(t) \in S /\ Tail(t) \in Seq(S) /\ t = <<Head(t)>> \o Tail(t)
  BY HeadTailProperties
<1>2. Append(s, Head(t)) = s \o <<Head(t)>> /\ <<Head(t)>> \in Seq(S)
  BY <1>1, AppendIsConcat
<1> HIDE <1>1
<1>3. (s \o <<Head(t)>>) \o Tail(t) = s \o (<<Head(t)>> \o Tail(t))
  BY <1>1, <1>2, ConcatAssociative
<1> QED
  BY <1>1, <1>2, <1>3

LEMMA AskedInit == Init => Asked
BY DEF Init, Asked

\* The steps of a client.
LEMMA AskedClient ==
  ASSUME OneClient, RevokeWaits, TypeOK, ChainInv, Asked,
         NEW c \in Clients, NewRequest(c) \/ Serve(c)
  PROVE  Asked'
<1> USE DEF Goto, StopBlinkTimer, request, counters
<1>1. /\ pc \in [Clients -> Labels] /\ todo \in [Clients -> Seq(Shades)]
      /\ iterations \in [Clients -> Int32] /\ blinkList \in Seq(Shades)
      /\ \A d \in Clients : d = c
  BY DEF TypeOK, OneClient
<1>2. CASE LedRequest(c)
  BY <1>1, <1>2 DEF LedRequest, Asked
<1>3. ASSUME NEW p \in Patterns, NEW n \in Iterations, SetBlink(c, p, n) PROVE Asked'
  BY <1>1, <1>3 DEF SetBlink, Asked
<1>4. CASE Revoke(c)
  BY <1>1, <1>4 DEF Revoke, Returns, Asked
<1>5. CASE Write(c)
  BY <1>1, <1>5 DEF Write, Asked
<1>6. CASE Clear(c)
  <2>1. <<>> \o todo[c] = todo[c]
    BY <1>1
  <2> QED
    BY <1>1, <1>6, <2>1 DEF Clear, Asked
<1>7. CASE Push(c)
  <2>1. /\ pc[c] = "push" /\ pc' = pc /\ todo[c] # <<>>
        /\ blinkList' = Append(blinkList, Head(todo[c])) /\ todo'[c] = Tail(todo[c])
    BY <1>1, <1>7 DEF Push
  <2>2. todo[c] \in Seq(Shades)
    BY <1>1
  <2>3. blinkList' \o todo'[c] = blinkList \o todo[c]
    BY <1>1, <2>1, <2>2, PushKeeps
  <2> QED
    BY <1>1, <1>7, <2>1, <2>3 DEF Push, Asked
<1>8. CASE Restop(c)
  <2>1. blinkList \o <<>> = blinkList
    BY <1>1
  <2> QED
    BY <1>1, <1>8, <2>1 DEF Restop, Asked
<1>9. CASE Arm(c)
  BY <1>1, <1>9 DEF Arm, Asked
<1>10. CASE First(c)
  BY <1>1, <1>10 DEF First, Asked
<1>11. CASE Check(c)
  BY <1>1, <1>11 DEF Check, Asked
<1>12. CASE Schedule(c)
  BY <1>1, <1>12 DEF Schedule, Asked
<1> QED
  BY <1>2, <1>3, <1>4, <1>5, <1>6, <1>7, <1>8, <1>9, <1>10, <1>11, <1>12 DEF NewRequest, Serve

\* The steps of the timer, which count rounds only while no request is at a
\* label that relies on the count.
LEMMA AskedTimer ==
  ASSUME OneClient, RevokeWaits, TypeOK, ChainInv, Asked, Timer PROVE Asked'
<1>1. UNCHANGED <<pc, todo, iterations, blinkList, maxNumberOfBlinkRepeats>>
  BY PlayingTimer
<1>2. CASE Advance
  <2>1. Ticks > 0
    BY <1>2 DEF Advance, Ticks, TypeOK
  <2>2. \A c \in Clients : pc[c] \notin {"first", "check", "schedule"}
    BY <2>1 DEF ChainInv
  <2> QED
    BY <1>1, <2>2 DEF Asked
<1>3. CASE ~Advance
  BY <1>1, <1>3, PlayingTimer DEF Asked
<1> QED
  BY <1>2, <1>3

LEMMA CountedInit == Init => Counted
BY DEF Init, Counted, Playing, Ticks

LEMMA CountedClient ==
  ASSUME OneClient, RevokeWaits, TypeOK, ChainInv, Asked, Counted,
         NEW c \in Clients, NewRequest(c) \/ Serve(c)
  PROVE  Counted'
<1>1. CASE First(c)
  <2>1. UNCHANGED <<numberOfBlinks, maxNumberOfBlinkRepeats>> /\ numberOfBlinks = 0
    BY <1>1 DEF First, Asked, counters
  <2>2. maxNumberOfBlinkRepeats \in Int
    BY IntAssumption DEF TypeOK, Int32
  <2> QED
    BY <2>1, <2>2 DEF Counted, Endless
<1>2. CASE Write(c) \/ Clear(c) \/ Push(c) \/ Restop(c) \/ Arm(c) \/ Revoke(c)
  BY <1>2, PlayingClient DEF Counted
<1>3. CASE NewRequest(c) \/ Check(c) \/ Schedule(c)
  <2>1. UNCHANGED <<numberOfBlinks, maxNumberOfBlinkRepeats>>
    BY <1>3 DEF NewRequest, LedRequest, SetBlink, Check, Schedule, counters
  <2>2. Playing' <=> Playing
    BY <1>3, PlayingClient
  <2> QED
    BY <2>1, <2>2 DEF Counted, Endless
<1> QED
  BY <1>1, <1>2, <1>3 DEF Serve

LEMMA CountedTimer ==
  ASSUME OneClient, RevokeWaits, TypeOK, ChainInv, Counted, Timer PROVE Counted'
<1>0. numberOfBlinks \in Int32 /\ maxNumberOfBlinkRepeats \in Int32 /\ IntMax \in Nat
  BY IntAssumption DEF TypeOK
<1>1. CASE Advance
  <2>1. SUFFICES ASSUME BlinkAgain, ~Endless(maxNumberOfBlinkRepeats)
                 PROVE  numberOfBlinks' \in 0..maxNumberOfBlinkRepeats
    BY <1>1, PlayingTimer DEF Counted, Endless
  <2>2. numberOfBlinks \in 0..maxNumberOfBlinkRepeats /\ maxNumberOfBlinkRepeats < IntMax
    BY <1>0, <2>1, PlayingTimer DEF Counted, Endless, Int32
  <2>3. numberOfBlinks' = Rounds /\ Inc(numberOfBlinks) = numberOfBlinks + 1
    BY <1>0, <1>1, <2>2 DEF Advance, Inc
  <2> QED
    BY <1>0, <2>1, <2>2, <2>3 DEF Rounds, BlinkAgain, Endless, Int32
<1>2. CASE ~Advance
  BY <1>2, PlayingTimer DEF Counted, Endless
<1> QED
  BY <1>1, <1>2

LEMMA StandingInit == Init => Standing
BY DEF Init, Standing, Ticks

\* A client gives the timer an entry only behind its first element.
LEMMA StandingClient ==
  ASSUME OneClient, RevokeWaits, TypeOK, ChainInv, Standing,
         NEW c \in Clients, NewRequest(c) \/ Serve(c)
  PROVE  Standing'
<1>1. pending \in Nat /\ blinkList \in Seq(Shades)
  BY DEF TypeOK
<1>2. CASE Schedule(c)
  <2>1. /\ currentBlinkListIndex' = 0 /\ blinkList' = blinkList /\ blinkList # <<>>
    BY <1>2 DEF Schedule, ChainInv, counters
  <2> QED
    BY <1>1, <2>1 DEF Standing
<1>3. CASE NewRequest(c) \/ Check(c)
  BY <1>3 DEF NewRequest, LedRequest, SetBlink, Check, Standing, Ticks, counters
<1>4. CASE First(c)
  BY <1>4 DEF First, Standing, Ticks, counters
<1>5. CASE Write(c) \/ Clear(c) \/ Push(c) \/ Restop(c) \/ Arm(c) \/ Revoke(c)
  <2>1. ~Playing'
    BY <1>5, PlayingClient
  <2> QED
    BY <2>1 DEF Playing, Standing
<1> QED
  BY <1>2, <1>3, <1>4, <1>5 DEF Serve

\* A callback steps to an element, or hands nothing on.
LEMMA StandingTimer ==
  ASSUME OneClient, RevokeWaits, TypeOK, ChainInv, Standing, Timer PROVE Standing'
<1>1. Ticks > 0 /\ blinkList' = blinkList /\ blinkList # <<>>
  <2>1. Ticks > 0
    BY DEF Timer, Fire, Advance, Show, Recheck, Reschedule, Ticks, TypeOK
  <2> QED
    BY <2>1, PlayingTimer DEF ChainInv
<1>2. CASE Advance
  <2>1. currentBlinkListIndex' = IF Wraps THEN 0 ELSE currentBlinkListIndex + 1
    BY <1>2 DEF NextIndex, Advance
  <2>2. currentBlinkListIndex \in Nat /\ Len(blinkList) \in Nat /\ Len(blinkList) # 0
    BY <1>1 DEF TypeOK
  <2> QED
    BY <1>1, <2>1, <2>2 DEF Standing, Wraps
<1>3. CASE ~Advance
  BY <1>1, <1>3, PlayingTimer DEF Standing
<1> QED
  BY <1>2, <1>3

\* All three are invariants, given ChainInv and TypeOK.
LEMMA AskedAlways ==
  ASSUME OneClient, RevokeWaits PROVE Spec => [](Asked /\ Counted /\ Standing)
<1>1. TypeOK /\ ChainInv /\ Asked /\ Counted /\ Standing /\ [Next]_vars
        => (Asked /\ Counted /\ Standing)'
  <2>1. Asked /\ Counted /\ Standing /\ UNCHANGED vars => (Asked /\ Counted /\ Standing)'
    BY DEF Asked, Counted, Standing, Playing, Ticks, Endless, vars, counters, request
  <2> QED
    BY <2>1, AskedClient, AskedTimer, CountedClient, CountedTimer,
       StandingClient, StandingTimer DEF Next
<1> QED
  BY <1>1, AskedInit, CountedInit, StandingInit, ChainAlways, TypeCorrect, PTL DEF Spec

-----------------------------------------------------------------------------
(***************************************************************************)
(* The refinement.                                                         *)
(***************************************************************************)
\* What the promise is about is left alone.
Quiet ==
  /\ led' = led
  /\ Playing' <=> Playing
  /\ Playing => /\ blinkList' = blinkList /\ (isBlinking' <=> isBlinking)
                /\ Position' = Position /\ RoundsLeft' = RoundsLeft

LEMMA PlayingBoolean == Playing \in BOOLEAN /\ Playing' \in BOOLEAN
BY DEF Playing

LEMMA QuietStutters == ASSUME Quiet PROVE UNCHANGED Promise!vars
<1>1. (Playing /\ ~isBlinking)' <=> (Playing /\ ~isBlinking)
  BY DEF Quiet
<1>2. /\ (IF Playing THEN blinkList ELSE <<>>)' = (IF Playing THEN blinkList ELSE <<>>)
      /\ (IF Playing THEN Position ELSE 0)' = (IF Playing THEN Position ELSE 0)
      /\ (IF Playing THEN RoundsLeft ELSE 0)' = (IF Playing THEN RoundsLeft ELSE 0)
  BY DEF Quiet
<1>3. Playing' = Playing /\ led' = led
  BY PlayingBoolean DEF Quiet
<1> QED
  BY <1>1, <1>2, <1>3 DEF Promise!vars

LEMMA PromiseInit == Init => Promise!Init
<1> SUFFICES ASSUME Init PROVE Promise!Init
  OBVIOUS
<1>1. ~Playing
  BY DEF Init, Playing, Ticks
<1> QED
  BY <1>1 DEF Init, Promise!Init

\* A request that comes stops the pattern, Revoke puts an end to it, Write sets
\* a steady value, First starts the pattern; the rest is not seen.
LEMMA ClientKeeps ==
  ASSUME OneClient, RevokeWaits, TypeOK, ChainInv, Asked,
         NEW c \in Clients, NewRequest(c) \/ Serve(c)
  PROVE  Promise!Next \/ UNCHANGED Promise!vars
<1> USE DEF counters, request
<1>1. CASE NewRequest(c)
  <2>1. /\ UNCHANGED <<led, tick, blinkList, numberOfBlinks, maxNumberOfBlinkRepeats,
                      currentBlinkListIndex>>
        /\ ~isBlinking'
    BY <1>1 DEF NewRequest, LedRequest, SetBlink, StopBlinkTimer
  <2>2. Playing' <=> Playing
    BY <1>1, PlayingClient
  <2>3. Position' = Position /\ RoundsLeft' = RoundsLeft
    BY <2>1 DEF Position, RoundsLeft, Endless
  <2>4. CASE Playing /\ isBlinking
    <3>1. Promise!Stop
      BY <2>1, <2>2, <2>3, <2>4 DEF Promise!Stop
    <3> QED
      BY <3>1 DEF Promise!Next
  <2>5. CASE ~(Playing /\ isBlinking)
    <3>1. Playing => (isBlinking' <=> isBlinking)
      BY <2>1, <2>5
    <3>2. Quiet
      BY <2>1, <2>2, <2>3, <3>1 DEF Quiet
    <3> QED
      BY <3>2, QuietStutters
  <2> QED
    BY <2>4, <2>5
<1>2. CASE Revoke(c)
  <2>1. UNCHANGED <<led, blinkList, isBlinking>> /\ ~isBlinking /\ ~Playing'
    BY <1>2, PlayingClient DEF Revoke, Returns, ChainInv
  <2>2. CASE Playing
    <3>1. Promise!Cancel
      BY <2>1, <2>2 DEF Promise!Cancel, Promise!Rest
    <3> QED
      BY <3>1 DEF Promise!Next
  <2>3. CASE ~Playing
    <3>1. Quiet
      BY <2>1, <2>3 DEF Quiet
    <3> QED
      BY <3>1, QuietStutters
  <2> QED
    BY <2>2, <2>3
<1>3. CASE Write(c)
  <2>1. led' \in Steady \cup {led} /\ ~Playing /\ ~Playing'
    BY <1>3, PlayingClient DEF Write
  <2>2. CASE led' \in Steady
    <3>1. (Playing /\ ~isBlinking)' <=> (Playing /\ ~isBlinking)
      BY <2>1
    <3>2. Playing' = Playing
      BY <2>1, PlayingBoolean
    <3>3. Promise!Set
      BY <2>1, <2>2, <3>1, <3>2 DEF Promise!Set
    <3> QED
      BY <3>3 DEF Promise!Next
  <2>3. CASE led' = led
    BY <2>1, <2>3, QuietStutters DEF Quiet
  <2> QED
    BY <2>1, <2>2, <2>3
<1>4. CASE Clear(c) \/ Push(c) \/ Restop(c) \/ Arm(c)
  <2>1. led' = led /\ ~Playing /\ ~Playing'
    BY <1>4, PlayingClient DEF Clear, Push, Restop, Arm
  <2> QED
    BY <2>1, QuietStutters DEF Quiet
<1>5. CASE First(c)
  <2>1. /\ pc[c] = "first" /\ ~Playing /\ Playing'
        /\ UNCHANGED <<tick, blinkList, isBlinking, maxNumberOfBlinkRepeats>>
        /\ UNCHANGED <<numberOfBlinks, currentBlinkListIndex>>
    BY <1>5, PlayingClient DEF First
  <2>2. /\ isBlinking /\ blinkList # <<>> /\ currentBlinkListIndex = 0 /\ Ticks = 0
        /\ blinkList \in Patterns /\ maxNumberOfBlinkRepeats \in Iterations /\ numberOfBlinks = 0
    <3>1. ~(Ticks > 0) /\ Ticks \in Nat
      BY <2>1 DEF ChainInv, Ticks, TypeOK
    <3> QED
      BY <2>1, <3>1 DEF ChainInv, Asked
  <2>3. Promise!Shows(blinkList[1])
    BY <1>5, <2>2 DEF First, SetBlinkLed, Promise!Shows, TypeOK
  <2>4. tick = "idle"
    BY <2>2 DEF Ticks, TypeOK
  <2> DEFINE n == IF Endless(maxNumberOfBlinkRepeats) THEN -1 ELSE maxNumberOfBlinkRepeats
  <2>5. maxNumberOfBlinkRepeats \in Int
    BY IntAssumption DEF TypeOK, Int32
  <2>6. n \in {IF Endless(k) THEN -1 ELSE k : k \in Iterations}
    BY <2>2
  <2>7. n < 0 <=> n = -1
    BY <2>5 DEF Endless
  <2>8. Position' = 1 /\ RoundsLeft' = n
    <3>1. Position' = 1
      BY <2>1, <2>2, <2>4 DEF Position
    <3>2. RoundsLeft' = n
      BY <2>1, <2>2, <2>4, <2>5 DEF RoundsLeft, Endless
    <3> QED
      BY <3>1, <3>2
  <2> HIDE DEF n
  <2>9. Promise!Start(blinkList, n)
    BY <2>1, <2>2, <2>3, <2>7, <2>8 DEF Promise!Start
  <2> QED
    BY <2>2, <2>6, <2>9 DEF Promise!Next
<1>6. CASE Check(c) \/ Schedule(c)
  <2>1. UNCHANGED <<led, tick, blinkList, isBlinking, numberOfBlinks, maxNumberOfBlinkRepeats,
                    currentBlinkListIndex>>
    BY <1>6 DEF Check, Schedule
  <2>2. Playing /\ Playing'
    BY <1>6, PlayingClient
  <2>3. Position' = Position /\ RoundsLeft' = RoundsLeft
    BY <2>1 DEF Position, RoundsLeft, Endless
  <2> QED
    BY <2>1, <2>2, <2>3, QuietStutters DEF Quiet
<1> QED
  BY <1>1, <1>2, <1>3, <1>4, <1>5, <1>6 DEF Serve

\* The callback shows the next element or the next round in Show, and finds the
\* pattern to be over in Advance, or stopped in Recheck.
LEMMA TimerKeeps ==
  ASSUME OneClient, RevokeWaits, TypeOK, ChainInv, Counted, Standing, Timer
  PROVE  Promise!Next \/ UNCHANGED Promise!vars
<1>0. /\ numberOfBlinks \in Int /\ maxNumberOfBlinkRepeats \in Int /\ IntMax \in Nat
      /\ numberOfBlinks <= IntMax /\ maxNumberOfBlinkRepeats <= IntMax
      /\ currentBlinkListIndex \in Nat /\ Len(blinkList) \in Nat
  BY IntAssumption DEF TypeOK, Int32
<1>1. /\ Playing /\ UNCHANGED <<blinkList, isBlinking, maxNumberOfBlinkRepeats>>
      /\ ~Advance => UNCHANGED <<numberOfBlinks, currentBlinkListIndex>>
      /\ Playing' <=> ~(Advance /\ ~BlinkAgain) /\ ~(Recheck /\ ~isBlinking)
  BY PlayingTimer
<1>2. ~Endless(maxNumberOfBlinkRepeats) =>
        /\ numberOfBlinks \in 0..maxNumberOfBlinkRepeats
        /\ maxNumberOfBlinkRepeats < IntMax /\ Inc(numberOfBlinks) = numberOfBlinks + 1
  BY <1>0, <1>1 DEF Counted, Endless, Inc
<1>3. CASE Fire \/ Reschedule
  <2>1. led' = led /\ ~Advance /\ ~Recheck /\ tick # "show" /\ tick' # "show"
    BY <1>3 DEF Fire, Reschedule, Advance, Recheck
  <2>2. Position' = Position /\ RoundsLeft' = RoundsLeft
    BY <1>1, <2>1 DEF Position, RoundsLeft, Endless
  <2> QED
    BY <1>1, <2>1, <2>2, QuietStutters DEF Quiet
<1>4. CASE Advance
  <2>1. /\ tick = "advance" /\ led' = led /\ ~Recheck /\ currentBlinkListIndex < Len(blinkList)
        /\ currentBlinkListIndex' = IF Wraps THEN 0 ELSE currentBlinkListIndex + 1
        /\ numberOfBlinks' = Rounds /\ tick' = IF BlinkAgain THEN "show" ELSE "idle"
    <3>1. Ticks > 0
      BY <1>4 DEF Advance, Ticks, TypeOK
    <3> QED
      BY <1>4, <3>1 DEF NextIndex, Advance, Recheck, Standing
  <2>2. /\ Position = currentBlinkListIndex + 1
        /\ RoundsLeft = IF Endless(maxNumberOfBlinkRepeats) THEN -1
                        ELSE maxNumberOfBlinkRepeats - numberOfBlinks
    BY <1>0, <2>1 DEF Position, RoundsLeft
  <2>3. CASE BlinkAgain
    <3>1. Position' = Position
      BY <1>0, <1>1, <2>1, <2>2, <2>3 DEF Position, Wraps
    <3>2. RoundsLeft' = RoundsLeft
      BY <1>0, <1>1, <1>2, <2>1, <2>2, <2>3 DEF RoundsLeft, Rounds, Endless, Wraps
    <3> QED
      BY <1>1, <2>1, <2>3, <3>1, <3>2, QuietStutters DEF Quiet
  <2>4. CASE ~BlinkAgain
    <3>1. Wraps /\ maxNumberOfBlinkRepeats >= 0 /\ ~(Inc(numberOfBlinks) <= maxNumberOfBlinkRepeats)
      BY <1>0, <2>4 DEF BlinkAgain, Rounds
    <3>2. ~Endless(maxNumberOfBlinkRepeats)
      <4>1. Inc(numberOfBlinks) <= IntMax
        BY <1>0 DEF Inc
      <4> QED
        BY <1>0, <3>1, <4>1 DEF Endless
    <3>3. RoundsLeft = 0 /\ Position = Len(blinkList)
      BY <1>0, <1>2, <2>1, <2>2, <3>1, <3>2 DEF Wraps
    <3>4. ~Playing'
      BY <1>1, <1>4, <2>4
    <3>5. Promise!End
      BY <1>1, <2>1, <3>3, <3>4 DEF Promise!End, Promise!Rest
    <3> QED
      BY <3>5 DEF Promise!Next, Promise!Advance
  <2> QED
    BY <2>3, <2>4
<1>5. CASE Show
  <2>1. /\ tick = "show" /\ tick' = "check" /\ currentBlinkListIndex < Len(blinkList)
        /\ Promise!Shows(blinkList[currentBlinkListIndex + 1]) /\ ~Advance /\ ~Recheck
    BY <1>0, <1>5 DEF Show, SetBlinkLed, Promise!Shows, ChainInv, Advance, Recheck
  <2>2. UNCHANGED <<numberOfBlinks, currentBlinkListIndex>> /\ Playing'
    BY <1>1, <2>1
  <2>3. /\ Position' = currentBlinkListIndex + 1
        /\ RoundsLeft' = IF Endless(maxNumberOfBlinkRepeats) THEN -1
                         ELSE maxNumberOfBlinkRepeats - numberOfBlinks
    BY <1>0, <1>1, <2>1, <2>2 DEF Position, RoundsLeft, Endless
  <2>4. (Playing /\ ~isBlinking)' <=> (Playing /\ ~isBlinking)
    BY <1>1, <2>2
  <2>5. Playing' = Playing
    BY <1>1, <2>2, PlayingBoolean
  <2>6. CASE currentBlinkListIndex # 0
    <3>1. Position = currentBlinkListIndex /\ RoundsLeft' = RoundsLeft
      BY <1>0, <2>1, <2>3, <2>6 DEF Position, RoundsLeft
    <3>2. Promise!Step
      BY <1>0, <1>1, <2>1, <2>2, <2>3, <2>4, <2>5, <3>1 DEF Promise!Step
    <3> QED
      BY <3>2 DEF Promise!Next, Promise!Advance
  <2>7. CASE currentBlinkListIndex = 0
    <3>1. /\ Position = Len(blinkList) /\ Position' = 1
          /\ RoundsLeft = IF Endless(maxNumberOfBlinkRepeats) THEN -1
                          ELSE maxNumberOfBlinkRepeats - numberOfBlinks + 1
      BY <1>0, <2>1, <2>3, <2>7 DEF Position, RoundsLeft
    <3>2. /\ RoundsLeft # 0
          /\ RoundsLeft' = IF RoundsLeft < 0 THEN RoundsLeft ELSE RoundsLeft - 1
      BY <1>0, <1>2, <2>3, <3>1
    <3>3. Promise!Repeat
      BY <1>1, <2>1, <2>2, <2>4, <2>5, <2>7, <3>1, <3>2 DEF Promise!Repeat
    <3> QED
      BY <3>3 DEF Promise!Next, Promise!Advance
  <2> QED
    BY <2>6, <2>7
<1>6. CASE Recheck
  <2>1. led' = led /\ ~Advance /\ tick = "check" /\ tick' # "show"
    BY <1>6 DEF Recheck, Advance
  <2>2. CASE isBlinking
    <3>1. Position' = Position /\ RoundsLeft' = RoundsLeft
      BY <1>1, <2>1 DEF Position, RoundsLeft, Endless
    <3> QED
      BY <1>1, <2>1, <2>2, <3>1, QuietStutters DEF Quiet
  <2>3. CASE ~isBlinking
    <3>1. ~Playing'
      BY <1>1, <1>6, <2>3
    <3>2. Promise!Cancel
      BY <1>1, <2>1, <2>3, <3>1 DEF Promise!Cancel, Promise!Rest
    <3> QED
      BY <3>2 DEF Promise!Next
  <2> QED
    BY <2>2, <2>3
<1> QED
  BY <1>3, <1>4, <1>5, <1>6 DEF Timer

\* With one client at a time the engine keeps the safety part of KeepsPromise,
\* for every pattern and repeat count and whatever device settings throws: the
\* elements in their order, the right number of rounds, nothing shown after a
\* stop.
THEOREM ShowsPromised ==
  ASSUME OneClient, RevokeWaits
  PROVE  Spec => Promise!Init /\ [][Promise!Next]_Promise!vars
<1>1. TypeOK /\ ChainInv /\ Asked /\ Counted /\ Standing /\ [Next]_vars
        => [Promise!Next]_Promise!vars
  <2>1. ASSUME UNCHANGED vars PROVE UNCHANGED Promise!vars
    <3>1. Quiet
      BY <2>1 DEF Quiet, Playing, Position, RoundsLeft, Endless, Ticks, vars, counters
    <3> QED
      BY <3>1, QuietStutters
  <2> QED
    BY <2>1, ClientKeeps, TimerKeeps DEF Next
<1> QED
  BY <1>1, PromiseInit, TypeCorrect, ChainAlways, AskedAlways, PTL DEF Spec
=============================================================================
