---------------------------- MODULE BlinkProofs ----------------------------
(***************************************************************************)
(* Proofs about Blink, for any patterns, any int width and, where it says  *)
(* so, any number of clients.                                              *)
(***************************************************************************)
EXTENDS Blink, FiniteSetTheorems, TLAPS

\* Every variable keeps its type; in particular the index is never negative.
THEOREM TypeCorrect == Spec => []TypeOK
<1> USE PatternsAssumption, IntAssumption DEF PatternsAssumption, IntAssumption
<1>1. Init => TypeOK
  <2>1. <<>> \in Seq(Shades) /\ 0 \in Int32
    BY DEF Int32
  <2>2. Init => pc \in [Clients -> Labels]
    BY DEF Init, Labels
  <2>3. Init => todo \in [Clients -> Seq(Shades)] /\ iterations \in [Clients -> Int32]
    BY <2>1 DEF Init
  <2>4. Init => blinkList \in Seq(Shades)
    BY <2>1 DEF Init
  <2>5. Init => numberOfBlinks \in Int32 /\ maxNumberOfBlinkRepeats \in Int32
    BY <2>1 DEF Init
  <2>6. Init => isBlinking \in BOOLEAN /\ terminated \in BOOLEAN
    BY DEF Init
  <2>7. Init => currentBlinkListIndex \in Nat /\ pending \in Nat
    BY DEF Init
  <2>8. Init => tick \in TickLabels
    BY DEF Init, TickLabels
  <2>9. Init => led \in Shades \cup Steady
    BY DEF Init
  <2> QED
    BY <2>2, <2>3, <2>4, <2>5, <2>6, <2>7, <2>8, <2>9 DEF TypeOK
<1>2. TypeOK /\ [Next]_vars => TypeOK'
  <2> SUFFICES ASSUME TypeOK, [Next]_vars PROVE TypeOK'
    OBVIOUS
  <2> USE DEF TypeOK, Goto, Labels, Returns, TickLabels, counters, request, StopBlinkTimer
  <2>1. ASSUME NEW c \in Clients, LedRequest(c) PROVE TypeOK'
    BY <2>1 DEF LedRequest
  <2>2. ASSUME NEW c \in Clients, NEW p \in Patterns, NEW n \in Iterations, SetBlink(c, p, n)
        PROVE TypeOK'
    BY <2>2 DEF SetBlink, Int32
  <2>3. ASSUME NEW c \in Clients, Revoke(c) PROVE TypeOK'
    BY <2>3 DEF Revoke, RevokeEntries
  <2>4. ASSUME NEW c \in Clients, Write(c) PROVE TypeOK'
    BY <2>4 DEF Write
  <2>5. ASSUME NEW c \in Clients, Clear(c) PROVE TypeOK'
    BY <2>5 DEF Clear
  <2>6. ASSUME NEW c \in Clients, Push(c) PROVE TypeOK'
    BY <2>6 DEF Push
  <2>7. ASSUME NEW c \in Clients, Restop(c) PROVE TypeOK'
    BY <2>7 DEF Restop
  <2>8. ASSUME NEW c \in Clients, Arm(c) PROVE TypeOK'
    BY <2>8 DEF Arm, Int32
  <2>9. ASSUME NEW c \in Clients, First(c) PROVE TypeOK'
    <3>1. ASSUME Len(blinkList) > 0 PROVE blinkList[1] \in Shades
      BY <3>1
    <3> QED
      BY <2>9, <3>1 DEF First, SetBlinkLed
  <2>10. ASSUME NEW c \in Clients, Check(c) PROVE TypeOK'
    BY <2>10 DEF Check
  <2>11. ASSUME NEW c \in Clients, Schedule(c) PROVE TypeOK'
    BY <2>11 DEF Schedule
  <2>12. CASE Fire
    BY <2>12 DEF Fire
  <2>13. CASE Advance
    BY <2>13 DEF NextIndex, Advance, Rounds, Inc, Int32
  <2>14. CASE Show
    <3>1. ASSUME currentBlinkListIndex < Len(blinkList)
          PROVE blinkList[currentBlinkListIndex + 1] \in Shades
      BY <3>1
    <3> QED
      BY <2>14, <3>1 DEF Show, SetBlinkLed
  <2>15. CASE Recheck
    BY <2>15 DEF Recheck
  <2>16. CASE Reschedule
    BY <2>16 DEF Reschedule
  <2>17. CASE UNCHANGED vars
    BY <2>17 DEF vars
  <2> QED
    BY <2>1, <2>2, <2>3, <2>4, <2>5, <2>6, <2>7, <2>8, <2>9, <2>10, <2>11, <2>12,
       <2>13, <2>14, <2>15, <2>16, <2>17 DEF Next, NewRequest, Serve, Timer
<1> QED
  BY <1>1, <1>2, PTL DEF Spec

-----------------------------------------------------------------------------
\* Holders is a finite set, no larger than Clients.
LEMMA HoldersSize ==
  /\ IsFiniteSet(Holders) /\ Cardinality(Holders) \in Nat
  /\ Cardinality(Holders) <= Cardinality(Clients)
  /\ Cardinality(Clients) \in Nat
BY ClientsAssumption, FS_Subset, FS_CardinalityType DEF Holders, ClientsAssumption

\* The same after a step.
LEMMA HoldersNextSize ==
  /\ IsFiniteSet(Holders') /\ Cardinality(Holders') \in Nat
  /\ Cardinality(Holders') <= Cardinality(Clients)
<1>1. Holders' \subseteq Clients
  BY DEF Holders
<1> QED
  BY <1>1, ClientsAssumption, FS_Subset, FS_CardinalityType DEF ClientsAssumption

\* A request that goes on from label to label2, both or none of them a label
\* of Holders, leaves their number as it is, or lowers it.
LEMMA HoldersKept ==
  ASSUME TypeOK, NEW c \in Clients, NEW label \in Labels, Goto(c, label),
         label \in {"arm", "first", "check", "schedule"}
           => pc[c] \in {"arm", "first", "check", "schedule"}
  PROVE  Cardinality(Holders') <= Cardinality(Holders)
<1>1. Holders' \subseteq Holders
  BY DEF Holders, Goto, TypeOK
<1> QED
  BY <1>1, HoldersSize, FS_Subset

\* A request that leaves the labels of Holders lowers their number by one.
LEMMA HoldersLeft ==
  ASSUME TypeOK, NEW c \in Holders, Goto(c, "idle")
  PROVE  Cardinality(Holders') = Cardinality(Holders) - 1
<1>1. Holders' = Holders \ {c}
  BY DEF Holders, Goto, TypeOK
<1> QED
  BY <1>1, HoldersSize, FS_RemoveElement

\* However many clients there are, entries never pile up in the timer, if
\* Revoke waits for the callback that runs.
THEOREM TicksStayBounded == ASSUME RevokeWaits PROVE Spec => []TicksBounded
<1>1. Init => TicksBounded
  <2> SUFFICES ASSUME Init PROVE TicksBounded
    OBVIOUS
  <2>1. Ticks = 0
    BY DEF Init, Ticks
  <2> QED
    BY <2>1, HoldersSize DEF TicksBounded
<1>2. TypeOK /\ TicksBounded /\ [Next]_vars => TicksBounded'
  <2> SUFFICES ASSUME TypeOK, TicksBounded, [Next]_vars PROVE TicksBounded'
    OBVIOUS
  <2> USE HoldersSize, HoldersNextSize
  <2>0. pending \in Nat /\ Ticks \in Nat
    BY DEF TypeOK, Ticks
  <2> DEFINE Same == Ticks' = Ticks /\ Cardinality(Holders') <= Cardinality(Holders)
  <2>same. Same => TicksBounded'
    BY <2>0 DEF TicksBounded
  <2>1. ASSUME NEW c \in Clients, NewRequest(c) PROVE Same
    <3>1. Goto(c, "revokeAndWrite") \/ Goto(c, "revokeAndClear")
      BY <2>1 DEF NewRequest, LedRequest, SetBlink, StopBlinkTimer
    <3>2. UNCHANGED <<pending, tick>>
      BY <2>1 DEF NewRequest, LedRequest, SetBlink
    <3> QED
      BY <3>1, <3>2, HoldersKept DEF Ticks, Labels, Returns
  <2>2. ASSUME NEW c \in Clients, Revoke(c) PROVE TicksBounded'
    <3>1. pending' = 0 /\ tick' = "idle"
      BY <2>2, RevokeWaits DEF Revoke, RevokeEntries
    <3>2. Ticks' = 0
      BY <3>1 DEF Ticks
    <3> QED
      BY <3>2 DEF TicksBounded
  <2>3. ASSUME NEW c \in Clients,
               Write(c) \/ Clear(c) \/ Push(c) \/ Restop(c) \/ Arm(c) \/ First(c) \/ Check(c)
        PROVE  Same
    <3>1. UNCHANGED <<pending, tick>>
      BY <2>3 DEF Write, Clear, Push, Restop, Arm, First, Check
    <3>2. CASE Push(c)
      BY <3>1, <3>2 DEF Push, Ticks, Holders
    <3>3. CASE Write(c) \/ Clear(c) \/ Restop(c)
      <4>1. Goto(c, "idle") \/ Goto(c, "push") \/ Goto(c, "revokeAndArm")
        BY <3>3 DEF Write, Clear, Restop, StopBlinkTimer
      <4> QED
        BY <3>1, <4>1, HoldersKept DEF Ticks, Labels, Returns
    <3>4. CASE Arm(c) \/ First(c) \/ Check(c)
      <4>1. pc[c] \in {"arm", "first", "check"}
        BY <3>4 DEF Arm, First, Check
      <4>2. PICK label \in {"idle", "first", "check", "schedule"} : Goto(c, label)
        BY <3>4 DEF Arm, First, Check
      <4> QED
        BY <3>1, <4>1, <4>2, HoldersKept DEF Ticks, Labels, Returns
    <3> QED
      BY <2>3, <3>2, <3>3, <3>4
  <2>4. ASSUME NEW c \in Clients, Schedule(c) PROVE TicksBounded'
    <3>1. c \in Holders
      BY <2>4 DEF Schedule, Holders
    <3>2. Cardinality(Holders') = Cardinality(Holders) - 1
      BY <2>4, <3>1, HoldersLeft DEF Schedule
    <3>3. Ticks' = Ticks + 1
      BY <2>4, <2>0 DEF Schedule, Ticks
    <3> QED
      BY <3>2, <3>3, <2>0 DEF TicksBounded
  <2>5. ASSUME Timer PROVE TicksBounded'
    <3>1. UNCHANGED pc
      BY <2>5 DEF Timer, Fire, Advance, Show, Recheck, Reschedule
    <3>2. Cardinality(Holders') = Cardinality(Holders)
      BY <3>1 DEF Holders
    <3>3. Ticks' <= Ticks /\ Ticks' \in Nat
      BY <2>5, <2>0 DEF Timer, Fire, Advance, Show, Recheck, Reschedule, Ticks, TypeOK, TickLabels
    <3> QED
      BY <3>2, <3>3, <2>0 DEF TicksBounded
  <2>6. CASE UNCHANGED vars
    BY <2>6, <2>same DEF vars, Ticks, Holders
  <2> QED
    BY <2>same, <2>1, <2>2, <2>3, <2>4, <2>5, <2>6 DEF Next, Serve
<1> QED
  BY <1>1, <1>2, TypeCorrect, PTL DEF Spec

-----------------------------------------------------------------------------
(***************************************************************************)
(* One client at a time.                                                   *)
(***************************************************************************)
OneClient == \A c, d \in Clients : c = d

\* At first nothing waits, and no request is under way.
LEMMA ChainInit == Init => ChainInv
<1> SUFFICES ASSUME Init PROVE ChainInv
  OBVIOUS
<1>1. Ticks = 0
  BY DEF Init, Ticks
<1>2. \A c \in Clients : pc[c] = "idle"
  BY DEF Init
<1> QED
  BY <1>1, <1>2 DEF Init, ChainInv

\* The steps of the client, under which the timer's part of ChainInv does not
\* change, or is empty.
LEMMA ChainClient ==
  ASSUME OneClient, RevokeWaits, TypeOK, ChainInv,
         NEW c \in Clients, NewRequest(c) \/ Serve(c)
  PROVE  ChainInv'
<1> USE DEF Goto, StopBlinkTimer, counters, request
<1>0. \A d \in Clients : d = c
  BY OneClient DEF OneClient
<1>1. Ticks \in Nat /\ pending \in Nat /\ blinkList \in Seq(Shades)
  BY DEF Ticks, TypeOK
<1>2. CASE NewRequest(c)
  <2>1. UNCHANGED <<pending, tick, blinkList, currentBlinkListIndex, terminated>> /\ isBlinking' = FALSE
    BY <1>2 DEF NewRequest, LedRequest, SetBlink
  <2>2. \A d \in Clients : pc'[d] \in {"revokeAndWrite", "revokeAndClear"}
    BY <1>0, <1>2 DEF NewRequest, LedRequest, SetBlink, TypeOK
  <2> QED
    BY <2>1, <2>2, <1>1 DEF ChainInv, Ticks
<1>3. CASE Revoke(c)
  <2>1. pending' = 0 /\ tick' = "idle" /\ UNCHANGED <<blinkList, isBlinking, currentBlinkListIndex, terminated>>
    BY <1>3, RevokeWaits DEF Revoke, RevokeEntries
  <2>2. \A d \in Clients : pc'[d] \in {"write", "clear", "arm"}
    BY <1>0, <1>3 DEF Revoke, Returns, TypeOK
  <2>3. ~isBlinking
    BY <1>3 DEF Revoke, Returns, ChainInv
  <2>4. Ticks' = 0
    BY <2>1 DEF Ticks
  <2> QED
    BY <2>1, <2>2, <2>3, <2>4 DEF ChainInv
<1>4. CASE Write(c) \/ Clear(c) \/ Push(c) \/ Restop(c)
  <2>1. Ticks = 0 /\ ~isBlinking
    BY <1>4, <1>1 DEF Write, Clear, Push, Restop, ChainInv
  <2>2. UNCHANGED <<pending, tick, terminated>> /\ isBlinking' = FALSE
    BY <1>4, <2>1 DEF Write, Clear, Push, Restop, TypeOK
  <2>3. \A d \in Clients : pc'[d] \in {"idle", "push", "revokeAndArm"}
    BY <1>0, <1>4 DEF Write, Clear, Push, Restop, TypeOK
  <2>4. Ticks' = 0 /\ tick' = "idle"
    BY <2>1, <2>2, <1>1 DEF Ticks
  <2> QED
    BY <2>2, <2>3, <2>4 DEF ChainInv
<1>5. CASE Arm(c)
  <2>1. Ticks = 0 /\ UNCHANGED <<pending, tick, terminated, blinkList>>
    BY <1>5, <1>1 DEF Arm, ChainInv
  <2>2. isBlinking' = TRUE /\ currentBlinkListIndex' = 0
    BY <1>5 DEF Arm
  <2>3. \A d \in Clients : pc'[d] = "idle" \/ (pc'[d] = "first" /\ blinkList # <<>>)
    BY <1>0, <1>5, <1>1 DEF Arm, TypeOK
  <2>4. Ticks' = 0 /\ tick' = "idle"
    BY <2>1, <1>1 DEF Ticks
  <2> QED
    BY <2>1, <2>2, <2>3, <2>4 DEF ChainInv
<1>6. CASE First(c) \/ Check(c)
  <2>1. Ticks = 0 /\ isBlinking /\ blinkList # <<>> /\ currentBlinkListIndex = 0
    BY <1>6, <1>1 DEF First, Check, ChainInv
  <2>2. UNCHANGED <<pending, tick, terminated, blinkList, isBlinking, currentBlinkListIndex>>
    BY <1>6 DEF First, Check
  <2>3. Len(blinkList) > 0
    BY <2>1, <1>1
  <2>4. \A d \in Clients : pc'[d] \in {"check", "schedule"}
    <3>1. CASE First(c)
      BY <1>0, <3>1, <2>3 DEF First, TypeOK
    <3>2. CASE Check(c)
      <4>1. Goto(c, "schedule")
        BY <3>2, <2>1 DEF Check, StillBlinking
      <4> QED
        BY <1>0, <4>1 DEF TypeOK
    <3> QED
      BY <1>6, <3>1, <3>2
  <2>5. Ticks' = 0 /\ tick' = "idle"
    BY <2>1, <2>2, <1>1 DEF Ticks
  <2> QED
    BY <2>1, <2>2, <2>4, <2>5 DEF ChainInv
<1>7. CASE Schedule(c)
  <2>1. Ticks = 0 /\ isBlinking /\ blinkList # <<>>
    BY <1>7, <1>1 DEF Schedule, ChainInv
  <2>2. pending' = pending + 1 /\ UNCHANGED <<tick, terminated, blinkList, isBlinking>>
    BY <1>7 DEF Schedule
  <2>3. \A d \in Clients : pc'[d] = "idle"
    BY <1>0, <1>7 DEF Schedule, TypeOK
  <2>4. Ticks' = 1 /\ tick' = "idle"
    BY <2>1, <2>2, <1>1 DEF Ticks
  <2> QED
    BY <2>1, <2>2, <2>3, <2>4 DEF ChainInv
<1> QED
  BY <1>2, <1>3, <1>4, <1>5, <1>6, <1>7 DEF Serve

\* The steps of the timer's thread, under which no request is between a Revoke
\* and its Schedule.
LEMMA ChainTimer ==
  ASSUME TypeOK, ChainInv, Timer
  PROVE  ChainInv'
<1>1. Ticks \in Nat /\ pending \in Nat /\ Len(blinkList) \in Nat /\ currentBlinkListIndex \in Nat
  BY DEF Ticks, TypeOK
<1>2. Ticks = 1 /\ blinkList # <<>>
  BY <1>1 DEF Timer, Fire, Advance, Show, Recheck, Reschedule, ChainInv, Ticks
<1>3. Len(blinkList) > 0
  BY <1>2 DEF TypeOK
<1>4. UNCHANGED <<pc, isBlinking, blinkList>>
  BY DEF Timer, Fire, Advance, Show, Recheck, Reschedule
<1>5. \A c \in Clients : /\ pc[c] \in {"idle", "revokeAndWrite", "revokeAndClear"}
                         /\ pc[c] = "idle" => isBlinking
                         /\ pc[c] # "idle" => ~isBlinking
  BY <1>2 DEF ChainInv
<1>6. Ticks' <= 1
  BY <1>1, <1>2 DEF Timer, Fire, Advance, Show, Recheck, Reschedule, Ticks
<1>7. ~terminated'
  BY <1>1 DEF Timer, Fire, Advance, Show, Recheck, Reschedule, ChainInv
<1>8. tick' = "show" => currentBlinkListIndex' < Len(blinkList')
  BY <1>1, <1>3, <1>4 DEF Timer, Fire, NextIndex, Advance, Show, Recheck, Reschedule, Wraps, ChainInv
<1> QED
  BY <1>2, <1>4, <1>5, <1>6, <1>7, <1>8 DEF ChainInv

\* ChainInv depends on the variables only.
LEMMA ChainStutter == ASSUME ChainInv, UNCHANGED vars PROVE ChainInv'
BY DEF ChainInv, vars, counters, Ticks

\* ChainInv is inductive, given TypeOK.
THEOREM ChainAlways == ASSUME OneClient, RevokeWaits PROVE Spec => []ChainInv
<1>1. TypeOK /\ ChainInv /\ [Next]_vars => ChainInv'
  BY ChainClient, ChainTimer, ChainStutter DEF Next
<1> QED
  BY <1>1, ChainInit, TypeCorrect, PTL DEF Spec

\* With one client at a time the callback never reads past m_blinkList.
THEOREM InRange == ASSUME OneClient, RevokeWaits PROVE Spec => []NoOutOfRange
<1>1. ChainInv => NoOutOfRange
  BY DEF ChainInv, NoOutOfRange
<1> QED
  BY <1>1, ChainAlways, PTL

\* With one client at a time nothing is left in the timer once a request other
\* than setBlink has returned, even if every call to device settings throws.
THEOREM Stopped ==
  ASSUME OneClient, RevokeWaits, Clients # {} PROVE Spec => []StoppedIsStopped
<1>1. TypeOK /\ ChainInv => StoppedIsStopped
  <2> SUFFICES ASSUME TypeOK, ChainInv, AllIdle, ~isBlinking PROVE Ticks = 0
    BY DEF StoppedIsStopped
  <2>1. PICK c \in Clients : pc[c] = "idle"
    BY Clients # {} DEF AllIdle
  <2>2. Ticks \in Nat
    BY DEF Ticks, TypeOK
  <2> QED
    BY <2>1, <2>2 DEF ChainInv
<1> QED
  BY <1>1, ChainAlways, TypeCorrect, PTL

\* The steps of the client: it returns with a pattern that is to blink only by
\* adding an entry, or when there is nothing to blink.
LEMMA StallClient ==
  ASSUME OneClient, RevokeWaits, TypeOK, ChainInv,
         NEW c \in Clients, NewRequest(c) \/ Serve(c)
  PROVE  NeverStalls'
<1> USE DEF Goto, StopBlinkTimer, request
<1>1. Ticks \in Nat /\ pending \in Nat /\ blinkList \in Seq(Shades) /\ Len(blinkList) \in Nat
  BY DEF Ticks, TypeOK
<1>2. CASE NewRequest(c) \/ Revoke(c) \/ Clear(c) \/ Push(c) \/ Restop(c)
  <2>1. pc'[c] # "idle"
    BY <1>2 DEF NewRequest, LedRequest, SetBlink, Revoke, Returns, Clear, Push, Restop, TypeOK
  <2> QED
    BY <2>1 DEF NeverStalls, AllIdle
<1>3. CASE Write(c)
  <2>1. ~isBlinking /\ UNCHANGED isBlinking
    BY <1>3 DEF Write, ChainInv
  <2> QED
    BY <2>1 DEF NeverStalls
<1>4. CASE Arm(c) \/ First(c) \/ Check(c)
  <2>1. pc'[c] # "idle" \/ blinkList' = <<>>
    <3>1. CASE Arm(c)
      BY <3>1, <1>1 DEF Arm, TypeOK
    <3>2. CASE First(c)
      <4>1. Len(blinkList) > 0
        BY <3>2, <1>1 DEF First, ChainInv
      <4> QED
        BY <3>2, <4>1, <1>1 DEF First, TypeOK
    <3>3. CASE Check(c)
      <4>1. Goto(c, "schedule")
        BY <3>3 DEF Check, StillBlinking, ChainInv
      <4> QED
        BY <4>1 DEF TypeOK
    <3> QED
      BY <1>4, <3>1, <3>2, <3>3
  <2> QED
    BY <2>1 DEF NeverStalls, AllIdle
<1>5. CASE Schedule(c)
  <2>1. Ticks = 0
    BY <1>5, <1>1 DEF Schedule, ChainInv
  <2>2. Ticks' = 1
    BY <1>5, <2>1, <1>1 DEF Schedule, Ticks
  <2> QED
    BY <2>2 DEF NeverStalls
<1> QED
  BY <1>2, <1>3, <1>4, <1>5 DEF Serve

\* The steps of the timer's thread: a callback ends without a new entry only
\* when its rounds are counted out, and no int is above INT_MAX.
LEMMA StallTimer ==
  ASSUME TypeOK, ChainInv, Timer
  PROVE  NeverStalls'
<1>1. Ticks \in Nat /\ pending \in Nat
  BY DEF Ticks, TypeOK
<1>2. Ticks = 1
  BY <1>1 DEF Timer, Fire, Advance, Show, Recheck, Reschedule, ChainInv, Ticks
<1>3. UNCHANGED <<isBlinking, maxNumberOfBlinkRepeats>>
  BY DEF Timer, Fire, Advance, Show, Recheck, Reschedule, counters
<1>4. SUFFICES ASSUME isBlinking, Endless(maxNumberOfBlinkRepeats) PROVE Ticks' = 1
  BY <1>3 DEF NeverStalls, Endless
<1>5. BlinkAgain
  <2>1. numberOfBlinks \in Int32 /\ maxNumberOfBlinkRepeats \in Int32
    BY DEF TypeOK
  <2>2. Rounds \in Int32
    BY <2>1, IntAssumption DEF Rounds, Inc, Int32, IntAssumption
  <2> QED
    BY <1>4, <2>1, <2>2, IntAssumption DEF BlinkAgain, Endless, Int32, IntAssumption
<1>6. CASE Fire
  BY <1>6, <1>1, <1>2 DEF Fire, Ticks
<1>7. CASE Advance
  <2>1. tick' = "show" /\ UNCHANGED pending
    BY <1>7, <1>5 DEF Advance
  <2> QED
    BY <1>7, <2>1, <1>1, <1>2 DEF Advance, Ticks
<1>8. CASE Show
  BY <1>8, <1>1, <1>2 DEF Show, Ticks
<1>9. CASE Recheck
  <2>1. tick' = "schedule" /\ UNCHANGED pending
    BY <1>9, <1>4 DEF Recheck, StillBlinking
  <2> QED
    BY <1>9, <2>1, <1>1, <1>2 DEF Recheck, Ticks
<1>10. CASE Reschedule
  BY <1>10, <1>1, <1>2 DEF Reschedule, Ticks
<1> QED
  BY <1>6, <1>7, <1>8, <1>9, <1>10 DEF Timer

\* With one client at a time a pattern that is to blink for ever never stalls,
\* even if every call to device settings throws.
THEOREM BlinksOn ==
  ASSUME OneClient, RevokeWaits PROVE Spec => []NeverStalls
<1>1. Init => NeverStalls
  BY DEF Init, NeverStalls
<1>2. TypeOK /\ ChainInv /\ NeverStalls /\ [Next]_vars => NeverStalls'
  <2>1. NeverStalls /\ UNCHANGED vars => NeverStalls'
    BY DEF NeverStalls, AllIdle, Endless, Ticks, vars, counters
  <2> QED
    BY <2>1, StallClient, StallTimer DEF Next
<1> QED
  BY <1>1, <1>2, ChainAlways, TypeCorrect, PTL DEF Spec

-----------------------------------------------------------------------------
(***************************************************************************)
(* What the LED shows, when device settings does not throw.                *)
(***************************************************************************)
\* At first no pattern is being played.
LEMMA LedInit == Init => LedInv
<1> SUFFICES ASSUME Init PROVE LedInv
  OBVIOUS
<1> QED
  BY DEF Init, LedInv, StaysOnLast

\* The steps of the client: whatever writes the LED, no entry is left when it
\* does, or it shows the first element.
LEMMA LedClient ==
  ASSUME OneClient, RevokeWaits, ~DsFaults, TypeOK, ChainInv, ChainInv', LedInv,
         NEW c \in Clients, NewRequest(c) \/ Serve(c)
  PROVE  LedInv'
<1> USE DEF Goto, StopBlinkTimer, counters, request
<1>0. \A d \in Clients : d = c
  BY OneClient DEF OneClient
<1>1. Ticks \in Nat /\ pending \in Nat /\ blinkList \in Seq(Shades) /\ Len(blinkList) \in Nat
  BY DEF Ticks, TypeOK
<1>2. CASE NewRequest(c)
  <2>1. UNCHANGED <<pending, tick, blinkList, currentBlinkListIndex, led>> /\ isBlinking' = FALSE
    BY <1>2 DEF NewRequest, LedRequest, SetBlink
  <2>2. \A d \in Clients : pc'[d] \in {"revokeAndWrite", "revokeAndClear"}
    BY <1>0, <1>2 DEF NewRequest, LedRequest, SetBlink, TypeOK
  <2> QED
    BY <2>1, <2>2 DEF LedInv, OnElement, StaysOnLast
<1>3. CASE Revoke(c) \/ Write(c) \/ Clear(c) \/ Push(c) \/ Restop(c)
  <2>1. isBlinking' = FALSE
    BY <1>3 DEF Revoke, Write, Clear, Push, Restop, Returns, ChainInv, TypeOK
  <2>2. pc'[c] \notin {"first", "check", "schedule"}
    BY <1>3 DEF Revoke, Write, Clear, Push, Restop, Returns, TypeOK
  <2>3. pending' = 0 /\ tick' = "idle"
    <3>1. CASE Revoke(c)
      BY <3>1, RevokeWaits DEF Revoke, RevokeEntries
    <3>2. CASE Write(c) \/ Clear(c) \/ Push(c) \/ Restop(c)
      <4>1. Ticks = 0
        BY <3>2, <1>1 DEF Write, Clear, Push, Restop, ChainInv
      <4> QED
        BY <3>2, <4>1, <1>1 DEF Write, Clear, Push, Restop, Ticks
    <3> QED
      BY <1>3, <3>1, <3>2
  <2> QED
    BY <2>1, <2>2, <2>3, <1>0 DEF LedInv, StaysOnLast
<1>4. CASE Arm(c)
  <2>1. pending = 0 /\ tick = "idle"
    BY <1>4, <1>1 DEF Arm, ChainInv, Ticks
  <2>2. pc'[c] = "first" \/ (pc'[c] = "idle" /\ blinkList = <<>>)
    BY <1>4, <1>1 DEF Arm, TypeOK
  <2>3. UNCHANGED <<pending, tick, blinkList>>
    BY <1>4 DEF Arm
  <2>4. StaysOnLast'
    BY <2>2, <2>3 DEF StaysOnLast, AllIdle
  <2> QED
    BY <2>1, <2>2, <2>3, <2>4, <1>0 DEF LedInv
<1>5. CASE First(c)
  <2>1. /\ pending = 0 /\ tick = "idle" /\ Len(blinkList) > 0
        /\ currentBlinkListIndex = 0
    BY <1>5, <1>1 DEF First, ChainInv, Ticks
  <2>2. led' = blinkList[1] /\ Goto(c, "check")
    BY <1>5, <2>1, ~DsFaults DEF First, SetBlinkLed
  <2>3. UNCHANGED <<pending, tick, blinkList, currentBlinkListIndex>>
    BY <1>5 DEF First
  <2>4. OnElement'
    BY <2>1, <2>2, <2>3 DEF OnElement
  <2>5. ~AllIdle'
    BY <2>2 DEF AllIdle, TypeOK
  <2> QED
    BY <2>1, <2>3, <2>4, <2>5 DEF LedInv, StaysOnLast
<1>6. CASE Check(c) \/ Schedule(c)
  <2>1. OnElement /\ tick = "idle"
    BY <1>6, <1>1 DEF Check, Schedule, LedInv, ChainInv, Ticks
  <2>2. UNCHANGED <<tick, blinkList, currentBlinkListIndex, led, isBlinking>>
    BY <1>6 DEF Check, Schedule
  <2>3. OnElement'
    BY <2>1, <2>2 DEF OnElement
  <2>4. StaysOnLast'
    <3>1. CASE Check(c)
      <4>1. Goto(c, "schedule")
        BY <3>1 DEF Check, StillBlinking, ChainInv
      <4> QED
        BY <4>1 DEF StaysOnLast, AllIdle, TypeOK
    <3>2. CASE Schedule(c)
      <4>1. Ticks' # 0
        BY <3>2, <2>1, <1>1 DEF Schedule, Ticks
      <4> QED
        BY <4>1 DEF StaysOnLast
    <3> QED
      BY <1>6, <3>1, <3>2
  <2> QED
    BY <2>1, <2>2, <2>3, <2>4 DEF LedInv
<1> QED
  BY <1>2, <1>3, <1>4, <1>5, <1>6 DEF Serve

\* The steps of the timer's thread: the index and the LED move together.
LEMMA LedTimer ==
  ASSUME ~DsFaults, TypeOK, ChainInv, ChainInv', LedInv, Timer
  PROVE  LedInv'
<1>1. Ticks \in Nat /\ pending \in Nat /\ Len(blinkList) \in Nat /\ currentBlinkListIndex \in Nat
  BY DEF Ticks, TypeOK
<1>2. UNCHANGED <<pc, blinkList, isBlinking>>
  BY DEF Timer, Fire, Advance, Show, Recheck, Reschedule
<1>3. \A c \in Clients : pc[c] \in {"idle", "revokeAndWrite", "revokeAndClear"}
  BY <1>1 DEF Timer, Fire, Advance, Show, Recheck, Reschedule, ChainInv, Ticks
<1>4. blinkList # <<>> /\ Len(blinkList) > 0
  BY <1>1 DEF Timer, Fire, Advance, Show, Recheck, Reschedule, ChainInv, Ticks, TypeOK
<1>5. CASE Fire
  <2>1. OnElement' /\ tick' = "advance" /\ Ticks' # 0
    BY <1>5, <1>1 DEF Fire, LedInv, OnElement, counters, Ticks
  <2> QED
    BY <2>1, <1>2, <1>3 DEF LedInv, StaysOnLast
<1>6. CASE Advance
  <2>1. OnElement /\ pending = 0 /\ UNCHANGED <<led, pending>>
    BY <1>6, <1>1 DEF Advance, LedInv, ChainInv, Ticks
  <2>2. led \in Shades
    BY <2>1, <1>1 DEF OnElement, TypeOK
  <2>3. CASE BlinkAgain
    <3>1. tick' = "show" /\ Ticks' # 0
      BY <1>6, <2>1, <2>3 DEF Advance, Ticks
    <3> QED
      BY <3>1, <2>1, <2>2, <1>2, <1>3 DEF LedInv, StaysOnLast
  <2>4. CASE ~BlinkAgain
    <3>1. Wraps /\ tick' = "idle"
      BY <1>6, <2>4 DEF Advance, BlinkAgain
    <3>2. led' = blinkList'[Len(blinkList')]
      BY <3>1, <2>1, <1>1, <1>2 DEF Wraps, OnElement
    <3> QED
      BY <3>1, <3>2, <2>1, <1>2, <1>3 DEF LedInv, StaysOnLast
  <2> QED
    BY <2>3, <2>4
<1>7. CASE Show
  <2>1. pending = 0 /\ tick' = "check" /\ UNCHANGED <<pending, currentBlinkListIndex>>
    BY <1>7, <1>1 DEF Show, ChainInv, Ticks, counters
  <2>2. OnElement'
    BY <1>7, <1>2, <1>1, ~DsFaults DEF Show, SetBlinkLed, OnElement, ChainInv, counters
  <2>3. Ticks' # 0
    BY <2>1 DEF Ticks
  <2> QED
    BY <2>1, <2>2, <2>3, <1>2, <1>3 DEF LedInv, StaysOnLast
<1>8. CASE Recheck
  <2>1. OnElement'
    BY <1>8, <1>2 DEF Recheck, LedInv, OnElement, counters
  <2>2. tick' \in {"schedule", "idle"} /\ UNCHANGED pending
    BY <1>8 DEF Recheck
  <2>3. AllIdle => ~isBlinking \/ tick' = "schedule"
    BY <1>8 DEF Recheck, StillBlinking
  <2>4. StaysOnLast'
    BY <2>2, <2>3, <1>1, <1>2 DEF StaysOnLast, Ticks, AllIdle
  <2> QED
    BY <2>1, <2>2, <2>4, <1>2, <1>3 DEF LedInv
<1>9. CASE Reschedule
  <2>1. OnElement' /\ tick' = "idle" /\ Ticks' # 0
    BY <1>9, <1>1, <1>2 DEF Reschedule, LedInv, OnElement, counters, Ticks
  <2> QED
    BY <2>1, <1>2, <1>3 DEF LedInv, StaysOnLast
<1> QED
  BY <1>5, <1>6, <1>7, <1>8, <1>9 DEF Timer

\* LedInv depends on the variables only.
LEMMA LedStutter == ASSUME LedInv, UNCHANGED vars PROVE LedInv'
BY DEF LedInv, StaysOnLast, OnElement, AllIdle, vars, counters, Ticks

\* LedInv is inductive, given ChainInv and TypeOK.
THEOREM LedAlways == ASSUME OneClient, RevokeWaits, ~DsFaults PROVE Spec => []LedInv
<1>1. TypeOK /\ ChainInv /\ ChainInv' /\ LedInv /\ [Next]_vars => LedInv'
  BY LedClient, LedTimer, LedStutter DEF Next
<1> QED
  BY <1>1, LedInit, ChainAlways, TypeCorrect, PTL DEF Spec

\* With one client at a time a pattern leaves the LED on its last element.
THEOREM LastElement ==
  ASSUME OneClient, RevokeWaits, ~DsFaults PROVE Spec => []StaysOnLast
<1>1. LedInv => StaysOnLast
  BY DEF LedInv
<1> QED
  BY <1>1, LedAlways, PTL

\* With one client at a time no callback writes over a steady value: while a
\* callback runs or may run, the LED shows an element of the pattern.
THEOREM SteadyKept ==
  ASSUME OneClient, RevokeWaits, ~DsFaults PROVE Spec => SteadyStays
<1>1. TypeOK /\ ChainInv /\ LedInv /\ [Next]_vars
        => [(led \in Steady /\ led' # led) => RequestWrites]_vars
  <2> SUFFICES ASSUME TypeOK, ChainInv, LedInv, Next, led \in Steady, led' # led
               PROVE  RequestWrites
    BY DEF vars
  <2>1. ~Show
    BY ShadesAssumption DEF Show, LedInv, ShadesAssumption
  <2>2. PICK c \in Clients : Write(c) \/ First(c)
    BY <2>1 DEF Next, NewRequest, LedRequest, SetBlink, Serve, Revoke, Clear, Push,
       Restop, Arm, Check, Schedule, Timer, Fire, Advance, Recheck, Reschedule
  <2> QED
    BY <2>2 DEF Write, First, RequestWrites
<1> QED
  BY <1>1, LedAlways, ChainAlways, TypeCorrect, PTL DEF Spec, SteadyStays

-----------------------------------------------------------------------------
(***************************************************************************)
(* What liveness rests on: the two variants.                               *)
(***************************************************************************)
\* The values of the two records.
LEMMA StepsIn ==
  /\ StepsAhead["idle"] = 0 /\ StepsAhead["advance"] = 4 /\ StepsAhead["show"] = 3
  /\ StepsAhead["check"] = 2 /\ StepsAhead["schedule"] = 6
  /\ StepsToAdvance["idle"] = 0 /\ StepsToAdvance["advance"] = 0
  /\ StepsToAdvance["show"] = 4 /\ StepsToAdvance["check"] = 3
  /\ StepsToAdvance["schedule"] = 2
BY DEF StepsAhead, StepsToAdvance

\* What each step of the timer's thread does to the two counts.
LEMMA TimerCounts ==
  ASSUME TypeOK, Timer
  PROVE  /\ {Ahead, Ahead', Steps, Steps'} \subseteq Nat
         /\ Ahead' < Ahead \/ isBlinking \/ terminated'
         /\ \/ Steps' < Steps /\ Ticks' \in {Ticks, Ticks - 1}
            \/ Advance \/ terminated'
<1> USE StepsIn DEF Ahead, Steps, Ticks
<1>0. pending \in Nat /\ tick \in {"idle", "advance", "show", "check", "schedule"}
  BY DEF TypeOK, TickLabels
<1>1. CASE Fire
  BY <1>0, <1>1 DEF Fire
<1>2. CASE Advance
  BY <1>0, <1>2 DEF Advance
<1>3. CASE Show
  BY <1>0, <1>3 DEF Show
<1>4. CASE Recheck
  BY <1>0, <1>4 DEF Recheck, StillBlinking
<1>5. CASE Reschedule
  BY <1>0, <1>5 DEF Reschedule
<1> QED
  BY <1>1, <1>2, <1>3, <1>4, <1>5 DEF Timer

\* With one client at a time a Revoke waits for six steps of the timer's thread
\* at most, and for each of them once: nothing else moves, and nothing that is
\* added behind it keeps it waiting.
THEOREM RevokesCome ==
  ASSUME OneClient, RevokeWaits PROVE Spec => RevokeComes /\ [](Ahead \in 0..6)
<1>1. TypeOK /\ ChainInv /\ ChainInv' /\ [Next]_vars
        => [\A c \in Clients :
              pc[c] \in DOMAIN Returns /\ pc'[c] = pc[c] => Ahead' < Ahead]_vars
  <2> SUFFICES ASSUME TypeOK, ChainInv, ChainInv', Next, NEW c \in Clients,
                      pc[c] \in DOMAIN Returns, pc'[c] = pc[c]
               PROVE  Ahead' < Ahead
    BY DEF vars
  <2>1. pc[c] \in {"revokeAndWrite", "revokeAndClear", "revokeAndArm"} /\ pc \in [Clients -> Labels]
    BY DEF Returns, TypeOK
  <2>2. \A d \in Clients : d = c
    BY OneClient DEF OneClient
  <2>3. ~Revoke(c)
    BY <2>1 DEF Revoke, Returns, Goto
  <2>4. Timer
    BY <2>1, <2>2, <2>3 DEF Next, NewRequest, LedRequest, SetBlink, Serve, Write, Clear, Push,
       Restop, Arm, First, Check, Schedule
  <2>5. ~isBlinking /\ ~terminated'
    BY <2>1 DEF ChainInv
  <2> QED
    BY <2>4, <2>5, TimerCounts
<1>2. TypeOK /\ ChainInv => Ahead \in 0..6
  <2> SUFFICES ASSUME TypeOK, ChainInv PROVE Ahead \in 0..6
    OBVIOUS
  <2>1. pending \in Nat /\ tick \in {"idle", "advance", "show", "check", "schedule"}
    BY DEF TypeOK, TickLabels
  <2>2. pending + (IF tick = "idle" THEN 0 ELSE 1) <= 1
    BY DEF ChainInv, Ticks
  <2> QED
    BY <2>1, <2>2, StepsIn DEF Ahead
<1> QED
  BY <1>1, <1>2, ChainAlways, TypeCorrect, PTL DEF Spec, RevokeComes

\* Where the callback advances: to the next element, to the next round, or to
\* the end of its chain.
LEMMA AdvanceNearer ==
  ASSUME TypeOK, Advance, 0 <= maxNumberOfBlinkRepeats, numberOfBlinks < IntMax
  PROVE  Nearer
<1>0. /\ pending \in Nat /\ currentBlinkListIndex \in Nat /\ Len(blinkList) \in Nat
      /\ numberOfBlinks \in Int /\ maxNumberOfBlinkRepeats \in Int /\ IntMax \in Int
  BY IntAssumption DEF TypeOK, Int32, IntAssumption
<1>1. UNCHANGED <<pending, maxNumberOfBlinkRepeats, blinkList>> /\ tick = "advance"
  BY DEF Advance
<1>2. Ticks = pending + 1 /\ Ticks' = pending + (IF BlinkAgain THEN 1 ELSE 0)
  BY <1>1 DEF Advance, Ticks
<1>3. CASE Wraps
  <2>1. numberOfBlinks' = numberOfBlinks + 1
    BY <1>0, <1>3 DEF Advance, Rounds, Inc
  <2>2. BlinkAgain <=> numberOfBlinks + 1 <= maxNumberOfBlinkRepeats
    BY <1>0, <1>3 DEF BlinkAgain, Rounds, Inc
  <2>3. ChainsAndRounds' < ChainsAndRounds
    BY <1>0, <1>1, <1>2, <2>1, <2>2 DEF ChainsAndRounds, RoundsToCome
  <2> QED
    BY <2>3 DEF Nearer
<1>4. CASE ~Wraps
  <2>1. BlinkAgain /\ numberOfBlinks' = numberOfBlinks
        /\ currentBlinkListIndex' = currentBlinkListIndex + 1
    BY <1>4 DEF NextIndex, Advance, Rounds, BlinkAgain
  <2>2. currentBlinkListIndex + 1 < Len(blinkList)
    BY <1>0, <1>4 DEF Wraps
  <2>3. ChainsAndRounds' = ChainsAndRounds
    BY <1>0, <1>1, <1>2, <2>1 DEF ChainsAndRounds, RoundsToCome
  <2>4. Elements' < Elements
    BY <1>0, <1>1, <2>1, <2>2 DEF Elements
  <2> QED
    BY <2>3, <2>4 DEF Nearer
<1> QED
  BY <1>3, <1>4

\* A finite pattern runs out, for any number of clients, even where Revoke does
\* not wait and every call to device settings throws: three natural numbers fall
\* in the order of the dictionary with every step of the timer's thread.
THEOREM PatternsRunOut ==
  Spec => RunsOut /\ []({ChainsAndRounds, Elements, Steps} \subseteq Nat)
<1>1. TypeOK /\ [Next]_vars
        => [Timer /\ 0 <= maxNumberOfBlinkRepeats /\ numberOfBlinks < IntMax
              => Nearer \/ terminated']_vars
  <2> SUFFICES ASSUME TypeOK, Timer, 0 <= maxNumberOfBlinkRepeats, numberOfBlinks < IntMax,
                      ~terminated'
               PROVE  Nearer
    OBVIOUS
  <2>1. CASE Advance
    BY <2>1, AdvanceNearer
  <2>2. CASE ~Advance
    <3>1. UNCHANGED <<counters, blinkList>>
      BY <2>2 DEF Timer, Fire, Show, Recheck, Reschedule
    <3>2. Elements' = Elements /\ RoundsToCome' = RoundsToCome
      BY <3>1 DEF Elements, RoundsToCome, counters
    <3>3. Steps' < Steps /\ Ticks' \in {Ticks, Ticks - 1}
      BY <2>2, TimerCounts
    <3>4. Ticks \in Nat /\ RoundsToCome \in Nat
      BY IntAssumption DEF TypeOK, Ticks, RoundsToCome, Int32, IntAssumption
    <3>5. CASE Ticks' = Ticks
      BY <3>2, <3>3, <3>5 DEF Nearer, ChainsAndRounds
    <3>6. CASE Ticks' = Ticks - 1
      <4>1. \A m, n \in Nat : m - 1 + n < m + n
        OBVIOUS
      <4>2. ChainsAndRounds' < ChainsAndRounds
        BY <3>2, <3>4, <3>6, <4>1 DEF ChainsAndRounds
      <4> QED
        BY <4>2 DEF Nearer
    <3> QED
      BY <3>3, <3>5, <3>6
  <2> QED
    BY <2>1, <2>2
<1>2. TypeOK => {ChainsAndRounds, Elements, Steps} \subseteq Nat
  <2> SUFFICES ASSUME TypeOK PROVE {ChainsAndRounds, Elements, Steps} \subseteq Nat
    OBVIOUS
  <2>1. /\ pending \in Nat /\ currentBlinkListIndex \in Nat /\ Len(blinkList) \in Nat
        /\ numberOfBlinks \in Int /\ maxNumberOfBlinkRepeats \in Int
        /\ tick \in {"idle", "advance", "show", "check", "schedule"}
    BY IntAssumption DEF TypeOK, Int32, IntAssumption, TickLabels
  <2> QED
    BY <2>1, StepsIn DEF ChainsAndRounds, RoundsToCome, Ticks, Elements, Steps
<1> QED
  BY <1>1, <1>2, TypeCorrect, PTL DEF Spec, RunsOut


-----------------------------------------------------------------------------
(***************************************************************************)
(* The timer, as TimerUse has it: what the steps of Singleton leave out of *)
(* Blink's changes nothing that they are about.                            *)
(***************************************************************************)
\* With one client the stage is where that client is.
StageAt(label) ==
  IF label \in {"revokeAndWrite", "revokeAndClear", "revokeAndArm"} THEN "stopping"
  ELSE IF label \in {"write", "clear", "push", "arm"} THEN "quiet"
  ELSE IF label \in {"first", "check", "schedule"} THEN "starting" ELSE "none"

LEMMA OnesStage ==
  ASSUME OneClient, NEW c \in Clients
  PROVE  Stage = StageAt(pc[c]) /\ Stage' = StageAt(pc'[c])
<1>1. Clients = {c}
  BY DEF OneClient
<1>2. DOMAIN Returns = {"revokeAndWrite", "revokeAndClear", "revokeAndArm"}
  BY DEF Returns
<1>3. \A labels : (Anywhere(labels) <=> pc[c] \in labels) /\ (Anywhere(labels)' <=> pc'[c] \in labels)
  BY <1>1 DEF Anywhere
<1> QED
  BY <1>2, <1>3 DEF Stage, StageAt

LEMMA TimingClient ==
  ASSUME OneClient, RevokeWaits, TypeOK, ChainInv, NEW c \in Clients, NewRequest(c) \/ Serve(c)
  PROVE  [Timing!Next]_Timing!vars
<1> USE DEF Goto, StopBlinkTimer, request, StageAt
<1>1. pc \in [Clients -> Labels] /\ pending \in Nat /\ tick \in TickLabels
  BY DEF TypeOK
<1>2. Stage = StageAt(pc[c]) /\ Stage' = StageAt(pc'[c])
  BY OnesStage
<1>3. pc[c] \in {"arm", "first", "check", "schedule"} => pending = 0 /\ tick = "idle"
  BY <1>1 DEF ChainInv, Ticks
<1>4. CASE NewRequest(c) \/ Restop(c)
  <2>1. /\ Stage \in {"none", "quiet"} /\ Stage' = "stopping" /\ isBlinking' = FALSE
        /\ UNCHANGED <<pending, tick>>
    BY <1>1, <1>2, <1>4 DEF NewRequest, LedRequest, SetBlink, Restop
  <2> QED
    BY <2>1 DEF Timing!Next, Timing!Stop
<1>5. CASE Revoke(c)
  <2>1. /\ Stage = "stopping" /\ Stage' = "quiet" /\ tick = "idle" /\ pending' = 0
        /\ UNCHANGED <<isBlinking, tick>>
    BY <1>1, <1>2, <1>5 DEF Revoke, RevokeEntries, Returns
  <2> QED
    BY <2>1 DEF Timing!Next, Timing!Revoke
<1>6. CASE Write(c)
  <2>1. Stage = "quiet" /\ Stage' = "none" /\ UNCHANGED <<isBlinking, pending, tick>>
    BY <1>1, <1>2, <1>6 DEF Write
  <2> QED
    BY <2>1 DEF Timing!Next, Timing!Leave
<1>7. CASE Clear(c) \/ Push(c)
  <2>1. Stage' = Stage /\ UNCHANGED <<isBlinking, pending, tick>>
    BY <1>1, <1>2, <1>7 DEF Clear, Push
  <2> QED
    BY <2>1 DEF Timing!vars
<1>8. CASE Arm(c)
  <2>1. /\ Stage = "quiet" /\ Stage' \in {"starting", "none"} /\ isBlinking' = TRUE
        /\ UNCHANGED <<pending, tick>>
    BY <1>1, <1>2, <1>8 DEF Arm
  <2>2. pending = 0 /\ tick = "idle"
    BY <1>3, <1>8 DEF Arm
  <2> QED
    BY <2>1, <2>2 DEF Timing!Next, Timing!Arm
<1>9. CASE First(c) \/ Check(c) \/ Schedule(c)
  <2>1. /\ Stage = "starting" /\ Stage' \in {"starting", "none"}
        /\ UNCHANGED <<isBlinking, tick>>
        /\ pending' = pending \/ Stage' = "none"
    BY <1>1, <1>2, <1>9 DEF First, Check, Schedule
  <2>2. pending = 0 /\ tick = "idle"
    BY <1>3, <1>9 DEF First, Check, Schedule
  <2>3. CASE Stage' = "starting"
    BY <2>1, <2>3 DEF Timing!vars
  <2>4. CASE Stage' = "none"
    BY <2>1, <2>2, <2>4 DEF Timing!Next, Timing!Schedule
  <2> QED
    BY <2>1, <2>3, <2>4
<1> QED
  BY <1>4, <1>5, <1>6, <1>7, <1>8, <1>9 DEF Serve

LEMMA TimingTimer ==
  ASSUME TypeOK, ChainInv, Timer PROVE [Timing!Next]_Timing!vars
<1>1. pending \in Nat /\ tick \in TickLabels /\ pending + (IF tick = "idle" THEN 0 ELSE 1) <= 1
  BY DEF TypeOK, ChainInv, Ticks
<1>2. UNCHANGED <<pc, isBlinking>> /\ Stage' = Stage
  BY DEF Timer, Fire, Advance, Show, Recheck, Reschedule, Stage, Anywhere
<1>3. CASE Fire
  <2>1. tick = "idle" /\ pending > 0 /\ pending' = 0 /\ tick' = "advance"
    BY <1>1, <1>3 DEF Fire
  <2> QED
    BY <1>2, <2>1 DEF Timing!Next, Timing!Fire
<1>4. CASE Advance \/ Show
  <2>1. /\ tick \in {"advance", "show"} /\ tick' \in {"show", "check", "idle"}
        /\ pending' = pending /\ pending = 0
    <3>1. CASE Advance
      BY <1>1, <3>1 DEF Advance
    <3>2. CASE Show
      BY <1>1, <3>2 DEF Show
    <3> QED
      BY <1>4, <3>1, <3>2
  <2>2. CASE tick' = "idle"
    BY <1>2, <2>1, <2>2 DEF Timing!Next, Timing!Test
  <2>3. CASE tick' # "idle"
    BY <1>2, <2>1, <2>3 DEF Timing!vars
  <2> QED
    BY <2>2, <2>3
<1>5. CASE Recheck
  <2>1. /\ tick = "check" /\ pending' = pending /\ pending = 0
        /\ tick' = "idle" \/ (isBlinking /\ tick' = "schedule")
    BY <1>1, <1>5 DEF Recheck, StillBlinking
  <2> QED
    BY <1>2, <2>1 DEF Timing!Next, Timing!Test
<1>6. CASE Reschedule
  <2>1. tick = "schedule" /\ tick' = "idle" /\ pending = 0 /\ pending' = 1
    BY <1>1, <1>6 DEF Reschedule
  <2> QED
    BY <1>2, <2>1 DEF Timing!Next, Timing!Reschedule
<1> QED
  BY <1>3, <1>4, <1>5, <1>6 DEF Timer

\* With one client at a time the engine uses its timer as TimerUse says, for every
\* pattern and repeat count and whichever calls throw.
THEOREM EngineUsesTimer == ASSUME OneClient, RevokeWaits PROVE Spec => UsesTimer
<1>1. TypeOK /\ ChainInv /\ [Next]_vars => [Timing!Next]_Timing!vars
  <2>1. ASSUME UNCHANGED vars PROVE UNCHANGED Timing!vars
    BY <2>1 DEF vars, Timing!vars, Stage, Anywhere
  <2> QED
    BY <2>1, TimingClient, TimingTimer DEF Next
<1>2. Init => Timing!Init
  BY DEF Init, Timing!Init, Stage, Anywhere, Returns
<1> QED
  BY <1>1, <1>2, ChainAlways, TypeCorrect, PTL DEF Spec, UsesTimer, Timing!Spec
=============================================================================
