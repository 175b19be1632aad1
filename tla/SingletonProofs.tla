-------------------------- MODULE SingletonProofs --------------------------
(***************************************************************************)
(* Proofs about Singleton, for queues of any length and any number of      *)
(* activations, when Revoke and Unregister wait.                           *)
(***************************************************************************)
EXTENDS Singleton, TLAPS

Inv == ProcessTypeOK /\ SafeInv

Waits == RevokeWaits /\ UnregisterWaits

\* At first there is nothing that could be used.
LEMMA InvInit == Init => Inv
<1> SUFFICES ASSUME Init PROVE Inv
  OBVIOUS
<1>1. ProcessTypeOK
  <2>1. queue \in Seq(Modes)
    BY DEF Init
  <2>2. activations \in 0..MaxActivations /\ made \in Nat /\ manager \in Nat
    BY BoundsAssumption DEF Init, BoundsAssumption
  <2>3. got \in [Threads -> Pointers] /\ {s_instance, running} \subseteq Pointers
    BY DEF Init, Pointers
  <2> QED
    BY <2>1, <2>2, <2>3 DEF Init, ProcessTypeOK, Labels, Tellings
<1>2. Placed /\ Made
  BY DEF Init, Placed, Made, Calling, Threads
<1> QED
  BY <1>1, <1>2 DEF Init, Inv, SafeInv, NoDeadUse, Calling, Threads

\* What a call of instance() does keeps Inv, whoever calls it.
LEMMA InvInstance == ASSUME Inv, NEW t \in Threads, Instance(t) PROVE Inv'
<1> USE DEF Inv, Labels, At, Goto, Finish, Tell, Tellings, statics, objects, blinkTimer,
        notifying, history, Pointers
<1>1. CASE Enter(t)
  <2>1. ProcessTypeOK'
    BY <1>1 DEF Enter, ProcessTypeOK, Body
  <2>2. Placed'
    BY <1>1 DEF Enter, ProcessTypeOK, SafeInv, Placed, Made, Calling, Body, Threads
  <2>3. Made'
    BY <1>1 DEF Enter, ProcessTypeOK, SafeInv, Placed, Made, Calling, Body, Threads
  <2> QED
    BY <1>1, <2>1, <2>2, <2>3 DEF Enter, ProcessTypeOK, SafeInv, NoDeadUse, Calling, Body, Threads
<1>2. CASE Connect(t)
  <2>1. ProcessTypeOK'
    BY <1>2 DEF Connect, ProcessTypeOK, Body
  <2>2. Placed'
    BY <1>2 DEF Connect, ProcessTypeOK, SafeInv, Placed, Calling, Body, Threads
  <2>3. Made'
    BY <1>2 DEF Connect, ProcessTypeOK, SafeInv, Placed, Made, Calling, Body, Threads
  <2> QED
    BY <1>2, <2>1, <2>2, <2>3 DEF Connect, ProcessTypeOK, SafeInv, NoDeadUse, Calling, Body, Threads
<1>3. CASE Make(t)
  <2>1. ProcessTypeOK'
    BY <1>3 DEF Make, ProcessTypeOK, Body
  <2>2. Placed'
    BY <1>3 DEF Make, ProcessTypeOK, SafeInv, Placed, Calling, Body, Threads
  <2>3. Made'
    BY <1>3 DEF Make, ProcessTypeOK, SafeInv, Placed, Made, Calling, Body, Threads
  <2> QED
    BY <1>3, <2>1, <2>2, <2>3 DEF Make, ProcessTypeOK, SafeInv, NoDeadUse, Calling, Body, Threads
<1>4. CASE New(t)
  <2>0. made' \in Nat /\ made' # 0 /\ 1..made \subseteq 1..made' /\ 0..made \subseteq 0..made'
    BY <1>4 DEF New, ProcessTypeOK
  <2>1. ProcessTypeOK'
    BY <1>4, <2>0 DEF New, ProcessTypeOK, Body
  <2>2. Placed'
    BY <1>4 DEF New, ProcessTypeOK, SafeInv, Placed, Calling, Body, Threads
  <2>3. Made'
    BY <1>4, <2>0 DEF New, ProcessTypeOK, SafeInv, Placed, Made, Calling, Body, Threads
  <2> QED
    BY <1>4, <2>1, <2>2, <2>3 DEF New, ProcessTypeOK, SafeInv, Placed, NoDeadUse, Calling,
       Body, Threads
<1>5. CASE InitializeDs(t)
  <2>1. ProcessTypeOK'
    <3>1. told' \in Tellings /\ manager' \in Nat
      BY <1>5 DEF InitializeDs, ProcessTypeOK
    <3>2. pc' \in [Threads -> Labels]
      BY <1>5 DEF InitializeDs, ProcessTypeOK, Body
    <3> QED
      BY <1>5, <3>1, <3>2 DEF InitializeDs, ProcessTypeOK
  <2>2. Placed'
    BY <1>5 DEF InitializeDs, ProcessTypeOK, SafeInv, Placed, Calling, Body, Threads
  <2>3. Made'
    BY <1>5 DEF InitializeDs, ProcessTypeOK, SafeInv, Placed, Made, Calling, Body, Threads
  <2> QED
    BY <1>5, <2>1, <2>2, <2>3 DEF InitializeDs, ProcessTypeOK, SafeInv, NoDeadUse, Calling,
       Body, Threads
<1>6. CASE ReadPower(t)
  <2>1. ProcessTypeOK'
    BY <1>6 DEF ReadPower, ProcessTypeOK, Body
  <2>2. Placed'
    BY <1>6 DEF ReadPower, ProcessTypeOK, SafeInv, Placed, Calling, Body, Threads
  <2>3. Made'
    BY <1>6 DEF ReadPower, ProcessTypeOK, SafeInv, Placed, Made, Calling, Body, Threads
  <2> QED
    BY <1>6, <2>1, <2>2, <2>3 DEF ReadPower, ProcessTypeOK, SafeInv, NoDeadUse, Calling,
       Body, Threads
<1>7. CASE SetPower(t)
  <2>1. ProcessTypeOK'
    BY <1>7 DEF SetPower, ProcessTypeOK, Body
  <2>2. Placed'
    BY <1>7 DEF SetPower, ProcessTypeOK, SafeInv, Placed, Calling, Body, Threads
  <2>3. Made'
    BY <1>7 DEF SetPower, ProcessTypeOK, SafeInv, Placed, Made, Calling, Body, Threads
  <2> QED
    BY <1>7, <2>1, <2>2, <2>3 DEF SetPower, ProcessTypeOK, SafeInv, NoDeadUse, Calling, Body,
       Threads
<1>8. CASE Done(t)
  <2>1. ProcessTypeOK'
    BY <1>8 DEF Done, ProcessTypeOK, Body
  <2>2. Placed'
    BY <1>8 DEF Done, ProcessTypeOK, SafeInv, Placed, Calling, Body, Threads
  <2>3. Made'
    BY <1>8 DEF Done, ProcessTypeOK, SafeInv, Placed, Made, Calling, Body, Threads
  <2> QED
    BY <1>8, <2>1, <2>2, <2>3 DEF Done, ProcessTypeOK, SafeInv, NoDeadUse, Calling, Body, Threads
<1>9. CASE Return(t)
  <2>0. Caller(t) = IF t = "conf" THEN (IF life = "configuring" THEN "start" ELSE "stop")
                    ELSE IF t = "note" THEN "setPowerStatus" ELSE "stop"
    BY DEF Caller, Threads
  <2>1. ProcessTypeOK'
    BY <1>9, <2>0 DEF Return, ProcessTypeOK, Body, Threads
  <2>2. Placed'
    BY <1>9, <2>0 DEF Return, ProcessTypeOK, SafeInv, Placed, Calling, Body, Threads
  <2>3. Made'
    BY <1>9, <2>0 DEF Return, ProcessTypeOK, SafeInv, Placed, Made, Calling, Body, Threads
  <2> QED
    BY <1>9, <2>0, <2>1, <2>2, <2>3 DEF Return, ProcessTypeOK, SafeInv, Made, NoDeadUse,
       Calling, Body, Threads
<1> QED
  BY <1>1, <1>2, <1>3, <1>4, <1>5, <1>6, <1>7, <1>8, <1>9 DEF Instance

\* PowerManager, the timer and requests keep Inv, whatever the constants.
LEMMA InvOthers ==
  ASSUME Inv, SetPowerStatus \/ Serve \/ Callback \/ World \/ Request,
         RevokeWaits
  PROVE  Inv'
<1> USE DEF Inv, Labels, At, Goto, Finish, Tell, Tellings, statics, objects, blinkTimer,
        threads, notifying, history, Pointers
<1>1. CASE ChangeMode
  <2>1. queue' \in Seq(Modes) /\ (queue # <<>> => queue' # <<>>)
    BY <1>1 DEF ChangeMode, ProcessTypeOK
  <2>2. Placed' /\ Made'
    BY <1>1, <2>1 DEF ChangeMode, SafeInv, Placed, Made
  <2> QED
    BY <1>1, <2>1, <2>2 DEF ChangeMode, ProcessTypeOK, SafeInv, NoDeadUse
<1>2. CASE Deliver
  <2>1. ProcessTypeOK'
    BY <1>2 DEF Deliver, ProcessTypeOK
  <2>2. Placed'
    BY <1>2 DEF Deliver, ProcessTypeOK, SafeInv, Placed, Calling, Body, Threads
  <2>3. Made'
    BY <1>2 DEF Deliver, ProcessTypeOK, SafeInv, Made, Threads
  <2> QED
    BY <1>2, <2>1, <2>2, <2>3 DEF Deliver, ProcessTypeOK, SafeInv, NoDeadUse, Calling, Body, Threads
<1>3. CASE SetPowerStatus
  <2>0. queue # <<>> /\ got["note"] \in alive
    BY <1>3 DEF SetPowerStatus, SafeInv, Placed, Calling, Body
  <2>1. queue' \in Seq(Modes) /\ ~faulted'
    BY <1>3, <2>0 DEF SetPowerStatus, ProcessTypeOK, Use, SafeInv, NoDeadUse
  <2>2. ProcessTypeOK'
    <3>1. powerStatus' \in BOOLEAN
      BY <1>3 DEF SetPowerStatus
    <3>2. pc' \in [Threads -> Labels]
      BY <1>3 DEF SetPowerStatus, ProcessTypeOK
    <3>3. faulted' \in BOOLEAN
      BY <1>3 DEF SetPowerStatus, Use, ProcessTypeOK
    <3> QED
      BY <1>3, <2>1, <3>1, <3>2, <3>3 DEF SetPowerStatus, ProcessTypeOK
  <2>3. Placed'
    BY <1>3 DEF SetPowerStatus, ProcessTypeOK, SafeInv, Placed, Calling, Body, Threads
  <2>4. Made'
    BY <1>3 DEF SetPowerStatus, ProcessTypeOK, SafeInv, Made, Threads
  <2> QED
    BY <1>3, <2>1, <2>2, <2>3, <2>4 DEF SetPowerStatus, ProcessTypeOK, SafeInv, NoDeadUse,
       Calling, Threads
<1>4. CASE Fire
  <2>1. ProcessTypeOK' /\ Placed' /\ Made'
    BY <1>4 DEF Fire, ProcessTypeOK, SafeInv, Placed, Made
  <2> QED
    BY <1>4, <2>1 DEF Fire, SafeInv, NoDeadUse
<1>5. CASE Callback
  <2>0. running \in alive /\ ~faulted'
    BY <1>5 DEF Callback, Tick, Reschedule, SafeInv, Use, NoDeadUse
  <2>1. /\ entries' \subseteq entries \cup {running} /\ running' \in {0, running}
        /\ scheduling' \in BOOLEAN /\ (scheduling' => running' # 0)
    <3>1. CASE Tick
      <4>1. entries' = entries /\ scheduling = FALSE
        BY <3>1 DEF Tick, ProcessTypeOK
      <4>2. \/ running' = 0 /\ scheduling' = FALSE
            \/ running' = running /\ scheduling' = TRUE /\ running # 0
        BY <3>1, <4>1 DEF Tick
      <4> QED
        BY <4>1, <4>2
    <3>2. CASE Reschedule
      BY <3>2 DEF Reschedule
    <3> QED
      BY <1>5, <3>1, <3>2 DEF Callback
  <2>2. ProcessTypeOK'
    <3>1. faulted' \in BOOLEAN
      BY <1>5 DEF Callback, Tick, Reschedule, Use, ProcessTypeOK
    <3> QED
      BY <1>5, <2>0, <2>1, <3>1 DEF Callback, Tick, Reschedule, ProcessTypeOK
  <2>4. Placed' /\ Made'
    BY <1>5 DEF Callback, Tick, Reschedule, SafeInv, Placed, Made
  <2>3. 0 \notin alive
    BY DEF ProcessTypeOK
  <2> QED
    BY <1>5, <2>0, <2>1, <2>2, <2>3, <2>4 DEF Callback, Tick, Reschedule, SafeInv, NoDeadUse, Made
<1>6. CASE Request
  <2>1. ProcessTypeOK'
    BY <1>6 DEF Request, ProcessTypeOK
  <2>2. Placed'
    BY <1>6 DEF Request, ProcessTypeOK, SafeInv, Placed, Calling, Threads
  <2>3. Made'
    BY <1>6 DEF Request, ProcessTypeOK, SafeInv, Made, Threads
  <2> QED
    BY <1>6, <2>1, <2>2, <2>3 DEF Request, ProcessTypeOK, SafeInv, NoDeadUse, Calling, Threads
<1>7. CASE Serve
  <2>0. /\ pc["req"] \in {"stop", "revoke", "arm", "schedule"}
        /\ got["req"] \in alive /\ life = "up" /\ pc["conf"] = "idle"
    BY <1>7 DEF Serve, StopBlinkTimer, Revoke, Arm, Schedule, SafeInv, Placed, Calling, Body
  <2>a. pc \in [Threads -> Labels] /\ "req" \in Threads
    BY DEF ProcessTypeOK, Threads
  <2>1. PICK label \in {"idle", "revoke", "arm", "schedule"} : Goto("req", label)
    BY <1>7 DEF Serve, StopBlinkTimer, Revoke, Arm, Schedule
  <2>2. /\ isBlinking' \subseteq isBlinking \cup {got["req"]}
        /\ entries' \subseteq entries \cup {got["req"]}
        /\ blinkWanted' = blinkWanted /\ raced' = raced /\ activations' = activations
        /\ UNCHANGED <<statics, objects, running, scheduling, life, notifying, told>>
        /\ got' = got \/ (got' = [got EXCEPT !["req"] = 0] /\ pc'["req"] = "idle")
    BY <1>7, <2>a DEF Serve, StopBlinkTimer, Revoke, RevokeEntries, Arm, Schedule
  <2>3. ~faulted'
    BY <1>7, <2>0 DEF Serve, StopBlinkTimer, Revoke, Arm, Schedule, Use, SafeInv, NoDeadUse
  <2>4. ProcessTypeOK'
    <3>1. faulted' \in BOOLEAN
      BY <1>7 DEF Serve, StopBlinkTimer, Revoke, Arm, Schedule, Use, ProcessTypeOK
    <3>2. pc' \in [Threads -> Labels]
      BY <2>1 DEF ProcessTypeOK
    <3>3. alive' \cup isBlinking' \cup entries' \subseteq 1..made'
      BY <2>0, <2>2 DEF ProcessTypeOK
    <3>4. got' \in [Threads -> Pointers']
      BY <2>2 DEF ProcessTypeOK
    <3> QED
      BY <2>2, <3>1, <3>2, <3>3, <3>4 DEF ProcessTypeOK
  <2>5. Placed'
    BY <2>0, <2>1, <2>2 DEF ProcessTypeOK, SafeInv, Placed, Calling, Threads
  <2>6. Made'
    BY <2>0, <2>1, <2>2 DEF ProcessTypeOK, SafeInv, Made, Threads
  <2> QED
    BY <2>0, <2>1, <2>2, <2>3, <2>4, <2>5, <2>6
    DEF ProcessTypeOK, SafeInv, NoDeadUse, Calling, Threads
<1> QED
  BY <1>1, <1>2, <1>3, <1>4, <1>5, <1>6, <1>7 DEF World

\* Configure and the destructor keep Inv, when they wait for what still runs.
LEMMA InvConf ==
  ASSUME Inv, Waits, Conf PROVE Inv'
<1> USE DEF Inv, Labels, At, Goto, Finish, Tell, Tellings, statics, objects, blinkTimer,
        notifying, history, Pointers
<1>0. "conf" \in Threads /\ 0 \notin alive
  BY DEF Threads, ProcessTypeOK
<1>a. pc["conf"] \in {"register", "start", "observe"} => life = "configuring"
  BY DEF ProcessTypeOK, SafeInv, Placed, Calling, Body
<1>b. pc["conf"] \in {"stop", "revoke", "delete", "release"} => life = "destroying"
  BY DEF ProcessTypeOK, SafeInv, Placed, Calling, Body
<1>c. ASSUME NEW o, Use(o) PROVE faulted' \in BOOLEAN
  BY <1>c DEF Use, ProcessTypeOK
<1>1. CASE Register
  <2>1. ProcessTypeOK'
    BY <1>1 DEF Register, ProcessTypeOK
  <2>2. Placed'
    BY <1>1, <1>a DEF Register, ProcessTypeOK, SafeInv, Placed, Calling, Body, Threads
  <2>3. Made'
    BY <1>1 DEF Register, ProcessTypeOK, SafeInv, Placed, Made, Threads
  <2> QED
    BY <1>1, <2>1, <2>2, <2>3 DEF Register, ProcessTypeOK, SafeInv, NoDeadUse, Threads
<1>2. CASE Start
  <2>0. ~faulted'
    BY <1>2, <1>0 DEF Start, Use, SafeInv, Made, NoDeadUse
  <2>1. ProcessTypeOK'
    BY <1>2, <1>0, <1>c DEF Start, ProcessTypeOK
  <2>2. Placed'
    BY <1>2 DEF Start, ProcessTypeOK, SafeInv, Placed, Calling, Body, Threads
  <2>3. Made'
    BY <1>2 DEF Start, ProcessTypeOK, SafeInv, Made, Threads
  <2> QED
    BY <1>2, <2>0, <2>1, <2>2, <2>3 DEF Start, ProcessTypeOK, SafeInv, NoDeadUse, Threads
<1>3. CASE AddEventObserver
  <2>0. ~faulted'
    BY <1>3, <1>0 DEF AddEventObserver, Use, SafeInv, Made, NoDeadUse
  <2>1. ProcessTypeOK'
    BY <1>3, <1>0, <1>c DEF AddEventObserver, ProcessTypeOK
  <2>2. Placed'
    BY <1>3 DEF AddEventObserver, ProcessTypeOK, SafeInv, Placed, Calling, Body, Threads
  <2>3. Made'
    BY <1>3 DEF AddEventObserver, ProcessTypeOK, SafeInv, Made, Threads
  <2> QED
    BY <1>3, <2>0, <2>1, <2>2, <2>3 DEF AddEventObserver, ProcessTypeOK, SafeInv, NoDeadUse, Threads
<1>4. CASE Unregister
  <2>0. pc["note"] = "idle"
    BY <1>4 DEF Unregister, SafeInv, Placed, Waits
  <2>1. ProcessTypeOK'
    <3>1. queue' \in Seq(Modes)
      BY <1>4, <2>0 DEF Unregister
    <3> QED
      BY <1>4, <3>1 DEF Unregister, ProcessTypeOK
  <2>2. Placed'
    BY <1>4, <2>0 DEF Unregister, ProcessTypeOK, SafeInv, Placed, Calling, Body, Threads
  <2>3. Made'
    BY <1>4, <2>0 DEF Unregister, ProcessTypeOK, SafeInv, Placed, Made, Threads
  <2> QED
    BY <1>4, <2>1, <2>2, <2>3 DEF Unregister, ProcessTypeOK, SafeInv, NoDeadUse, Threads
<1>5. CASE StopBlinkTimer("conf", s_instance)
  <2>0. ~faulted' /\ s_instance # 0
    BY <1>5, <1>0, <1>b DEF StopBlinkTimer, Use, SafeInv, Placed, Made, Calling, Body, NoDeadUse
  <2>1. ProcessTypeOK'
    BY <1>5, <1>0, <1>c DEF StopBlinkTimer, ProcessTypeOK
  <2>2. Placed'
    BY <1>5 DEF StopBlinkTimer, ProcessTypeOK, SafeInv, Placed, Calling, Body, Threads
  <2>3. Made'
    BY <1>5, <2>0 DEF StopBlinkTimer, ProcessTypeOK, SafeInv, Placed, Made, Threads
  <2> QED
    BY <1>5, <2>0, <2>1, <2>2, <2>3 DEF StopBlinkTimer, ProcessTypeOK, SafeInv, NoDeadUse, Threads
<1>6. CASE Revoke("conf", s_instance, "delete")
  <2>0. running # s_instance /\ entries' = entries \ {s_instance} /\ s_instance # 0
    BY <1>6, <1>b DEF Revoke, RevokeEntries, Waits, SafeInv, Placed, Made, Calling, Body
  <2>1. ProcessTypeOK'
    BY <1>6, <2>0 DEF Revoke, ProcessTypeOK
  <2>2. Placed'
    BY <1>6 DEF Revoke, ProcessTypeOK, SafeInv, Placed, Calling, Body, Threads
  <2>3. Made'
    BY <1>6, <2>0 DEF Revoke, ProcessTypeOK, SafeInv, Placed, Made, Threads
  <2> QED
    BY <1>6, <2>0, <2>1, <2>2, <2>3 DEF Revoke, ProcessTypeOK, SafeInv, NoDeadUse, Threads
<1>7. CASE Delete
  <2>0. pc["note"] = "idle" /\ pc["req"] = "idle" /\ life = "destroying"
    BY <1>7, <1>b DEF Delete, SafeInv, Placed, Calling, Body
  <2>1. ProcessTypeOK'
    <3>1. plugin' \in BOOLEAN
      BY <1>7 DEF Delete
    <3>2. s_instance' = 0 /\ alive' \subseteq alive
      BY <1>7 DEF Delete
    <3>3. pc' \in [Threads -> Labels]
      BY <1>7 DEF Delete, ProcessTypeOK
    <3> QED
      BY <1>7, <3>1, <3>2, <3>3 DEF Delete, ProcessTypeOK
  <2>2. Placed'
    BY <1>7, <2>0 DEF Delete, ProcessTypeOK, SafeInv, Placed, Calling, Body, Threads
  <2>3. Made'
    BY <1>7, <2>0 DEF Delete, ProcessTypeOK, SafeInv, Made, Threads
  <2> QED
    BY <1>7, <2>0, <2>1, <2>2, <2>3 DEF Delete, ProcessTypeOK, SafeInv, NoDeadUse, Calling, Threads
<1>8. CASE DeInitializeDs
  <2>0. /\ pc["note"] = "idle" /\ pc["req"] = "idle" /\ life = "destroying"
        /\ manager - 1 \in Nat
    BY <1>8, <1>b DEF DeInitializeDs, SafeInv, Placed, Made, ProcessTypeOK, Calling, Body
  <2>1. ProcessTypeOK'
    <3>1. initDone' \in BOOLEAN /\ blinkWanted' \in BOOLEAN
      BY <1>8 DEF DeInitializeDs, NotInit
    <3>2. manager' \in Nat /\ life' = "down"
      BY <1>8, <2>0 DEF DeInitializeDs
    <3>3. pc' \in [Threads -> Labels]
      BY <1>8 DEF DeInitializeDs, ProcessTypeOK
    <3> QED
      BY <1>8, <3>1, <3>2, <3>3 DEF DeInitializeDs, ProcessTypeOK
  <2>2. Placed'
    BY <1>8, <2>0 DEF DeInitializeDs, ProcessTypeOK, SafeInv, Placed, Calling, Body, Threads
  <2>3. Made'
    BY <1>8, <2>0 DEF DeInitializeDs, NotInit, ProcessTypeOK, SafeInv, Made, Threads
  <2> QED
    BY <1>8, <2>0, <2>1, <2>2, <2>3 DEF DeInitializeDs, ProcessTypeOK, SafeInv, NoDeadUse, Threads
<1> QED
  BY <1>1, <1>2, <1>3, <1>4, <1>5, <1>6, <1>7, <1>8 DEF Conf

\* An activation may begin at any time, a destructor when no request is served.
LEMMA InvBegin ==
  ASSUME Inv, BeginConfigure \/ (At("req", "idle") /\ BeginDestroy) PROVE Inv'
<1> USE DEF Inv, Labels, At, Goto, Finish, Tell, Tellings, statics, objects, blinkTimer,
        notifying, history, Pointers
<1>1. CASE BeginConfigure
  <2>1. ProcessTypeOK'
    <3>1. activations' \in 0..MaxActivations
      BY <1>1, BoundsAssumption DEF BeginConfigure, ProcessTypeOK, BoundsAssumption
    <3>2. pc' \in [Threads -> Labels]
      BY <1>1 DEF BeginConfigure, ProcessTypeOK
    <3> QED
      BY <1>1, <3>1, <3>2 DEF BeginConfigure, ProcessTypeOK
  <2>2. Placed'
    BY <1>1 DEF BeginConfigure, ProcessTypeOK, SafeInv, Placed, Calling, Body, Threads
  <2>3. Made'
    BY <1>1 DEF BeginConfigure, ProcessTypeOK, SafeInv, Placed, Made, Threads
  <2> QED
    BY <1>1, <2>1, <2>2, <2>3 DEF BeginConfigure, ProcessTypeOK, SafeInv, NoDeadUse, Threads
<1>2. CASE At("req", "idle") /\ BeginDestroy
  <2>1. ProcessTypeOK'
    BY <1>2 DEF BeginDestroy, ProcessTypeOK
  <2>2. Placed'
    BY <1>2 DEF BeginDestroy, ProcessTypeOK, SafeInv, Placed, Calling, Body, Threads
  <2>3. Made'
    BY <1>2 DEF BeginDestroy, ProcessTypeOK, SafeInv, Placed, Made, Threads
  <2> QED
    BY <1>2, <2>1, <2>2, <2>3 DEF BeginDestroy, ProcessTypeOK, SafeInv, NoDeadUse, Threads
<1> QED
  BY <1>1, <1>2

\* Inv depends on the variables only.
LEMMA InvStutter == ASSUME Inv, UNCHANGED processVars PROVE Inv'
BY DEF Inv, ProcessTypeOK, SafeInv, Placed, Made, NoDeadUse, Pointers, processVars,
   statics, objects, blinkTimer, threads, notifying, history

\* Every step of the process keeps Inv.
LEMMA InvStep == ASSUME Inv, Waits, [SingletonNext]_processVars PROVE Inv'
BY InvInstance, InvOthers, InvConf, InvBegin, InvStutter
DEF SingletonNext, Internal, World, Waits

\* In one process, nobody uses a deleted object or the null pointer, however
\* many notifications are on their way and however often the implementation is
\* configured and destroyed.
THEOREM NoUseAfterDelete == ASSUME Waits PROVE SingletonSpec => []NoDeadUse
<1>1. Inv => NoDeadUse
  BY DEF Inv, SafeInv
<1>2. Inv /\ [SingletonNext]_processVars => Inv'
  BY InvStep
<1> QED
  BY <1>1, <1>2, InvInit, PTL DEF SingletonSpec

-----------------------------------------------------------------------------
(***************************************************************************)
(* Everything that instance() makes is unmade.                             *)
(***************************************************************************)
\* At first nothing is made.
LEMMA OnceInit == Init => OnceInv
BY DEF Init, OnceInv, Within, Body, Threads

\* What a call of instance() makes, it makes once.
LEMMA OnceInstance == ASSUME Inv, OnceInv, NEW t \in Threads, Instance(t) PROVE OnceInv'
<1> USE DEF Inv, At, Goto, statics, objects, Within
<1>0. pc \in [Threads -> Labels] /\ made \in Nat
  BY DEF ProcessTypeOK
<1>1. CASE Enter(t)
  <2>1. life = "down" => pc[t] = "idle"
    BY DEF SafeInv, Placed, Threads
  <2>2. SUFFICES ASSUME ~raced' PROVE OnceInv'
    BY <1>1, <2>1 DEF Enter, OnceInv
  <2>3. ~raced /\ (initDone \/ \A u \in Threads \ {t} : pc[u] \notin Body)
    BY <1>1, <2>2 DEF Enter
  <2> QED
    BY <1>0, <1>1, <2>2, <2>3 DEF Enter, OnceInv, Body
<1>2. CASE Connect(t)
  BY <1>0, <1>2 DEF Connect, OnceInv, Body, history
<1>3. CASE Make(t)
  BY <1>0, <1>3 DEF Make, OnceInv, Body, history
<1>4. CASE New(t)
  <2>1. life # "down" /\ pc["conf"] # "release"
    BY <1>4 DEF New, SafeInv, Placed, Calling, Body, Threads
  <2> QED
    BY <1>0, <1>4, <2>1 DEF New, OnceInv, Body, history
<1>5. CASE InitializeDs(t)
  <2>1. PICK label \in {"read", "done"} : pc' = [pc EXCEPT ![t] = label]
    BY <1>5 DEF InitializeDs
  <2>2. \A u \in Threads : u # t => pc'[u] = pc[u]
    BY <1>0, <2>1
  <2>3. pc[t] = "ds" /\ pc'[t] = label
    BY <1>0, <1>5, <2>1 DEF InitializeDs
  <2>4. /\ UNCHANGED <<initDone, s_instance, alive, life, raced>>
        /\ ~raced => manager = 0 /\ manager' = 1
    <3>1. ~raced => manager = 0
      BY <2>3 DEF OnceInv, Body
    <3> QED
      BY <1>5, <3>1 DEF InitializeDs
  <2> HIDE DEF At, Goto
  <2> QED
    BY <2>1, <2>2, <2>3, <2>4 DEF OnceInv, Body
<1>6. CASE ReadPower(t)
  <2>1. PICK label \in {"set", "done"} : pc' = [pc EXCEPT ![t] = label]
    BY <1>6 DEF ReadPower
  <2>2. \A u \in Threads : u # t => pc'[u] = pc[u]
    BY <1>0, <2>1
  <2>3. pc[t] = "read" /\ pc'[t] = label
    BY <1>0, <1>6, <2>1 DEF ReadPower
  <2>4. UNCHANGED <<initDone, s_instance, alive, life, raced, manager>>
    BY <1>6 DEF ReadPower
  <2> QED
    BY <2>1, <2>2, <2>3, <2>4 DEF OnceInv, Body
<1>7. CASE SetPower(t)
  BY <1>0, <1>7 DEF SetPower, OnceInv, Body, history
<1>8. CASE Done(t)
  <2>1. life # "down"
    BY <1>8 DEF Done, SafeInv, Placed, Calling, Body, Threads
  <2> QED
    BY <1>0, <1>8, <2>1 DEF Done, OnceInv, Body, history
<1>9. CASE Return(t)
  <2>1. Caller(t) \in {"start", "stop", "setPowerStatus"}
    BY DEF Caller, Threads
  <2> QED
    BY <1>0, <1>9, <2>1 DEF Return, OnceInv, Body, history
<1> QED
  BY <1>1, <1>2, <1>3, <1>4, <1>5, <1>6, <1>7, <1>8, <1>9 DEF Instance

\* Outside instance() nothing is made, and deinitialize unmakes.
LEMMA OnceOthers ==
  ASSUME Inv, OnceInv,
         Conf \/ SetPowerStatus \/ Serve \/ Callback \/ World \/ Request
           \/ BeginConfigure \/ BeginDestroy
  PROVE  OnceInv'
<1> USE DEF Inv, At, Goto, Finish, statics, objects, threads, Within
<1>0. pc \in [Threads -> Labels] /\ {"conf", "note", "req"} = Threads
  BY DEF ProcessTypeOK, Threads
<1>1. CASE Delete
  <2>1. life = "destroying" /\ alive' = alive \ {s_instance} /\ s_instance' = 0
    BY <1>1 DEF Delete, ProcessTypeOK, SafeInv, Placed, Calling, Body
  <2> QED
    BY <1>0, <1>1, <2>1 DEF Delete, OnceInv, Body, history
<1>2. CASE DeInitializeDs
  <2>1. /\ pc["note"] = "idle" /\ pc["req"] = "idle" /\ life = "destroying"
        /\ pc["conf"] = "release" /\ initDone
    BY <1>2 DEF DeInitializeDs, ProcessTypeOK, SafeInv, Placed, Made, Calling, Body
  <2>2. \A t \in Threads : pc'[t] = "idle"
    BY <1>0, <1>2, <2>1 DEF DeInitializeDs
  <2>3. s_instance' = s_instance /\ raced' = raced /\ alive' = alive /\ ~initDone'
    BY <1>2 DEF DeInitializeDs, NotInit
  <2>4. ~raced => manager' = 0
    BY <1>2, <2>1 DEF DeInitializeDs, OnceInv
  <2>5. s_instance = 0
    BY <2>1 DEF OnceInv
  <2> QED
    BY <2>2, <2>3, <2>4, <2>5 DEF OnceInv, Body
<1>3. CASE \/ Register \/ Start \/ AddEventObserver \/ Unregister
           \/ StopBlinkTimer("conf", s_instance) \/ Revoke("conf", s_instance, "delete")
           \/ SetPowerStatus \/ Serve \/ Callback \/ World \/ Request
           \/ BeginConfigure \/ BeginDestroy
  <2>1. UNCHANGED <<initDone, s_instance, manager, alive, raced>>
    BY <1>3 DEF Register, Start, AddEventObserver, Unregister, StopBlinkTimer, Revoke,
       SetPowerStatus, Serve, Arm, Schedule, Callback, Tick, Reschedule, World, ChangeMode,
       Deliver, Fire, Request, BeginConfigure, BeginDestroy, history
  <2>2. life' = "down" => life = "down"
    BY <1>3 DEF Register, Start, AddEventObserver, Unregister, StopBlinkTimer, Revoke,
       SetPowerStatus, Serve, Arm, Schedule, Callback, Tick, Reschedule, World, ChangeMode,
       Deliver, Fire, Request, BeginConfigure, BeginDestroy
  <2>3. \A t \in Threads : pc'[t] # pc[t] =>
          pc[t] \notin Body /\ pc'[t] \notin Body /\ pc'[t] # "release"
    <3>1. CASE Callback \/ ChangeMode \/ Fire
      BY <3>1 DEF Callback, Tick, Reschedule, ChangeMode, Fire
    <3>2. CASE \/ Register \/ Start \/ AddEventObserver \/ Unregister
               \/ StopBlinkTimer("conf", s_instance) \/ Revoke("conf", s_instance, "delete")
      BY <1>0, <3>2 DEF Register, Start, AddEventObserver, Unregister, StopBlinkTimer, Revoke, Body
    <3>3. CASE SetPowerStatus \/ Deliver \/ Request
      BY <1>0, <3>3 DEF SetPowerStatus, Deliver, Request, Body
    <3>4. CASE Serve
      BY <1>0, <3>4 DEF Serve, StopBlinkTimer, Revoke, Arm, Schedule, Body
    <3>5. CASE BeginConfigure \/ BeginDestroy
      <4>1. pc["conf"] = "idle"
        BY <3>5 DEF BeginConfigure, BeginDestroy, SafeInv, Placed
      <4> QED
        BY <1>0, <3>5, <4>1 DEF BeginConfigure, BeginDestroy, Body
    <3> QED
      BY <1>3, <3>1, <3>2, <3>3, <3>4, <3>5 DEF World
  <2>4. OnceInv
    OBVIOUS
  <2> QED
    BY <1>0, <2>1, <2>2, <2>3, <2>4 DEF OnceInv, Body
<1> QED
  BY <1>1, <1>2, <1>3 DEF Conf

\* Every step of the process keeps OnceInv.
LEMMA OnceStep == ASSUME Inv, OnceInv, [SingletonNext]_processVars PROVE OnceInv'
<1>1. ASSUME UNCHANGED processVars PROVE OnceInv'
  BY <1>1 DEF OnceInv, Within, processVars, statics, objects, threads, history
<1> QED
  BY <1>1, OnceInstance, OnceOthers DEF SingletonNext, Internal

\* Unless two threads met in instance(), it made one object and called device
\* settings' Initialize once, and deinitialize answered both, in each activation
\* and whatever threw.
THEOREM MadeOnce == ASSUME Waits PROVE SingletonSpec => []OnceInv
<1>1. Inv /\ OnceInv /\ [SingletonNext]_processVars => Inv' /\ OnceInv'
  BY InvStep, OnceStep
<1> QED
  BY <1>1, InvInit, OnceInit, PTL DEF SingletonSpec

\* Whatever is counted on is there, and what is about to be deleted is out of
\* the timer: the invariant behind NoUseAfterDelete.
THEOREM StaysSafe == ASSUME Waits PROVE SingletonSpec => []SafeInv
<1>1. Inv => SafeInv
  BY DEF Inv
<1>2. Inv /\ [SingletonNext]_processVars => Inv'
  BY InvStep
<1> QED
  BY <1>1, <1>2, InvInit, PTL DEF SingletonSpec
=============================================================================
