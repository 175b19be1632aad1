---------------------------- MODULE SettleProofs ----------------------------
(***************************************************************************)
(* Proofs about what is left when things have settled in one process: the  *)
(* patterns when a request has returned, the power status when the         *)
(* notifications are noted.                                                *)
(***************************************************************************)
EXTENDS SingletonProofs

OneInv == Inv /\ OnceInv

\* Every step of the process keeps OneInv.
LEMMA OneStep == ASSUME OneInv, Waits, [SingletonNext]_processVars PROVE OneInv'
BY InvStep, OnceStep DEF OneInv

(***************************************************************************)
(* The last request wins.                                                  *)
(***************************************************************************)
\* While something is in the timer a pattern is wanted, or a request is still
\* on its way to its Revoke.
WonInv ==
  /\ pc["req"] \in {"arm", "schedule"} => blinkWanted
  /\ ~raced /\ ~(entries = {} /\ running = 0) =>
       blinkWanted \/ pc["req"] \in {"instance", "return", "stop", "revoke"}

\* At first nothing is in the timer.
LEMMA WonInit == Init => WonInv
BY DEF Init, WonInv, Threads

\* A request that ends without wanting a pattern has emptied the timer: there
\* is one object, so that its Revoke takes every entry and waits for every
\* callback.
LEMMA WonRevoke ==
  ASSUME OneInv, WonInv, RevokeWaits, NEW t \in {"conf", "req"}, NEW o, NEW label,
         o = IF t = "conf" THEN s_instance ELSE got["req"],
         label \in {"delete", "arm", "idle"},
         t = "req" => label = (IF blinkWanted THEN "arm" ELSE "idle"),
         Revoke(t, o, label)
  PROVE  WonInv'
<1> USE DEF Revoke, RevokeEntries, At, Goto, Finish, Inv, OneInv, statics, objects, history
<1>1. pc \in [Threads -> Labels] /\ t \in Threads /\ "req" \in Threads
  BY DEF ProcessTypeOK, Threads
<1>2. CASE t = "conf"
  BY <1>1, <1>2 DEF WonInv
<1>3. CASE t = "req"
  <2>1. raced' = raced /\ blinkWanted' = blinkWanted /\ running' = running
    OBVIOUS
  <2>2. pc'["req"] = IF blinkWanted THEN "arm" ELSE "idle"
    BY <1>1, <1>3
  <2>3. o \in alive
    BY <1>3 DEF SafeInv, Calling, Body
  <2>4. ~raced => entries' = {} /\ running = 0
    BY <2>3 DEF OnceInv, SafeInv
  <2> QED
    BY <2>1, <2>2, <2>4 DEF WonInv
<1> QED
  BY <1>2, <1>3

\* Every step of the process keeps WonInv.
LEMMA WonStep ==
  ASSUME OneInv, WonInv, Waits, [SingletonNext]_processVars PROVE WonInv'
<1> USE DEF At, Goto, Finish, OneInv, Inv, statics, objects, threads, notifying, blinkTimer, history
<1>0. pc \in [Threads -> Labels] /\ {"conf", "note", "req"} = Threads
  BY DEF ProcessTypeOK, Threads
<1>1. CASE \E t \in Threads : Instance(t)
  <2>1. PICK t \in Threads : Instance(t)
    BY <1>1
  <2>2. UNCHANGED <<entries, running, blinkWanted>> /\ (raced => raced')
    <3>1. CASE Enter(t)
      BY <3>1 DEF Enter
    <3>2. CASE ~Enter(t)
      BY <2>1, <3>2 DEF Instance, Connect, Make, New, InitializeDs, ReadPower, SetPower,
         Done, Return
    <3> QED
      BY <3>1, <3>2
  <2>3. CASE t # "req"
    <3>1. pc'["req"] = pc["req"]
      BY <1>0, <2>1, <2>3 DEF Instance, Enter, Connect, Make, New, InitializeDs, ReadPower,
         SetPower, Done, Return
    <3> QED
      BY <2>2, <3>1 DEF WonInv
  <2>4. CASE t = "req"
    <3>1. life = "up" /\ initDone
      BY <2>1, <2>4 DEF Instance, Enter, Connect, Make, New, InitializeDs, ReadPower,
         SetPower, Done, Return, SafeInv, Placed, Made
    <3>2. pc["req"] \notin Body
      BY DEF SafeInv, Placed, Calling, Body
    <3>3. Enter("req") \/ Return("req")
      BY <2>1, <2>4, <3>2 DEF Instance, Connect, Make, New, InitializeDs, ReadPower, SetPower,
         Done, Body
    <3>4. pc'["req"] \in {"return", "stop"}
      BY <1>0, <3>1, <3>3 DEF Enter, Return, Caller
    <3> QED
      BY <2>2, <3>4 DEF WonInv
  <2> QED
    BY <2>3, <2>4
<1>2. CASE Revoke("conf", s_instance, "delete")
  BY <1>2, WonRevoke DEF Waits
<1>3. CASE Revoke("req", got["req"], IF blinkWanted THEN "arm" ELSE "idle")
  BY <1>3, WonRevoke DEF Waits
<1>4. CASE DeInitializeDs
  <2>1. pc["conf"] = "release" /\ pc["req"] = "idle" /\ pc'["req"] = "idle"
    BY <1>0, <1>4 DEF DeInitializeDs, SafeInv, Placed
  <2>2. ~raced => entries = {} /\ running = 0
    BY <2>1 DEF OnceInv, SafeInv
  <2> QED
    BY <1>4, <2>1, <2>2 DEF DeInitializeDs, WonInv
<1>5. CASE Callback
  BY <1>5 DEF Callback, Tick, Reschedule, WonInv
<1>6. CASE Fire
  BY <1>6 DEF Fire, WonInv
<1>7. CASE Schedule \/ Arm \/ StopBlinkTimer("req", got["req"]) \/ Request
  BY <1>0, <1>7 DEF Schedule, Arm, StopBlinkTimer, Request, WonInv
<1>8. CASE \/ Register \/ Start \/ AddEventObserver \/ Unregister \/ Delete
           \/ StopBlinkTimer("conf", s_instance) \/ SetPowerStatus \/ Deliver
           \/ BeginConfigure \/ BeginDestroy
  <2>1. UNCHANGED <<entries, running, blinkWanted, raced>> /\ pc'["req"] = pc["req"]
    BY <1>0, <1>8 DEF Register, Start, AddEventObserver, Unregister, Delete, StopBlinkTimer,
       SetPowerStatus, Deliver, BeginConfigure, BeginDestroy
  <2> QED
    BY <2>1 DEF WonInv
<1>9. CASE ChangeMode \/ UNCHANGED processVars
  BY <1>9 DEF ChangeMode, processVars, WonInv
<1> QED
  BY <1>1, <1>2, <1>3, <1>4, <1>5, <1>6, <1>7, <1>8, <1>9
  DEF SingletonNext, Internal, Conf, Serve, World

\* When a request that wants no pattern has returned nothing is in the timer,
\* and nothing gets there any more.
THEOREM StoppedForGood == ASSUME Waits PROVE SingletonSpec => []LastRequestWins
<1>1. OneInv /\ WonInv /\ [SingletonNext]_processVars => OneInv' /\ WonInv'
  BY OneStep, WonStep
<1>2. WonInv => LastRequestWins
  BY DEF WonInv, LastRequestWins, At
<1>3. Init => OneInv /\ WonInv
  BY InvInit, OnceInit, WonInit DEF OneInv
<1> QED
  BY <1>1, <1>2, <1>3, PTL DEF SingletonSpec

-----------------------------------------------------------------------------
(***************************************************************************)
(* The power status.  Conf is the only thread that has the service and     *)
(* asks for the mode; in the first activation the status is false until    *)
(* then, in a later one it is what the one before has left.  From then on  *)
(* what it lacks is still queued.                                          *)
(***************************************************************************)
Known ==
  queue = <<>> =>
    /\ told \in {"answer", "notification"} /\ mode = "ON" => powerStatus \/ At("conf", "set")
    /\ told = "notification" \/ (told = "answer" /\ activations = 1) =>
         (powerStatus \/ At("conf", "set") <=> mode = "ON")
Alone == ~raced /\ life \in {"configuring", "up"}

\* Before initDone nothing has been told but the answer that conf has just got,
\* or that there is none:
Asked ==
  /\ activations = 1 /\ pc["conf"] # "done" => ~powerStatus
  /\ pc["conf"] \notin Body => ~plugin
  /\ pc["conf"] = "set" => told = "answer"
  /\ pc["conf"] = "done" => told \in {"answer", "unanswered"}
  /\ pc["note"] = "done" => told = "unanswered"
  /\ told # "nothing" => pc["conf"] \in {"set", "done"} \/ pc["note"] = "done"

AloneInv ==
  /\ pc["conf"] = "register" => ~registered /\ ~initDone
  /\ queue # <<>> => queue[Len(queue)] = mode
  /\ pc["note"] \notin {"connect", "set"}
  /\ pc["note"] \in {"return", "setPowerStatus"} => initDone
  /\ initDone => pc["conf"] # "set" /\ told # "nothing"
  /\ ~initDone => Asked
  /\ registered => Known

PowerInv ==
  /\ activations = 0 => life = "down" /\ ~powerStatus
  /\ life = "down" \/ pc["conf"] = "release" => ~plugin
  /\ ~registered => queue = <<>>
  /\ life \in {"down", "destroying"} /\ pc["conf"] # "unregister" => told = "nothing"
  /\ Alone => AloneInv

\* At first nothing is known and nothing needs to be.
LEMMA PowerInit == Init => PowerInv
BY DEF Init, PowerInv, Alone

\* In instance(): the answer of GetPowerState is good as long as no
\* notification is queued, and the notification's thread has no service to ask.
LEMMA PowerInstance ==
  ASSUME OneInv, PowerInv, NEW t \in Threads, Instance(t) PROVE PowerInv'
<1> USE DEF At, Goto, Tell, statics, objects, threads, notifying, blinkTimer, history
<1>0. /\ pc \in [Threads -> Labels] /\ {"conf", "note", "req"} = Threads
      /\ mode \in Modes /\ {powerStatus, raced, initDone} \subseteq BOOLEAN
  BY DEF OneInv, Inv, ProcessTypeOK, Threads
<1>1. UNCHANGED <<notifying, life, activations>> /\ (raced => raced')
  <2>1. CASE Enter(t)
    BY <2>1 DEF Enter
  <2>2. CASE ~Enter(t)
    BY <2>2 DEF Instance, Connect, Make, New, InitializeDs, ReadPower, SetPower, Done, Return
  <2> QED
    BY <2>1, <2>2
<1>a. pc[t] \in {"instance", "return"} \cup Body /\ life # "down"
  <2>1. pc[t] \in {"instance", "return"} \cup Body
    BY DEF Instance, Enter, Connect, Make, New, InitializeDs, ReadPower, SetPower, Done,
       Return, Body
  <2> QED
    BY <1>0, <2>1 DEF OneInv, Inv, SafeInv, Placed, Body
<1>b. \A u \in Threads : u # t => pc'[u] = pc[u]
  BY <1>0 DEF Instance, Enter, Connect, Make, New, InitializeDs, ReadPower, SetPower, Done,
     Return
<1>2. activations # 0 /\ life # "down" /\ pc'["conf"] # "release"
  <2>1. pc["conf"] # "release"
    BY <1>0, <1>a DEF OneInv, Inv, ProcessTypeOK, SafeInv, Placed, Body
  <2>2. activations # 0
    BY <1>a DEF PowerInv
  <2> QED
    BY <1>0, <1>a, <2>1, <2>2 DEF Instance, Enter, Connect, Make, New, InitializeDs,
       ReadPower, SetPower, Done, Return, Caller
<1>c. ASSUME life = "destroying", pc'["conf"] # "unregister" PROVE told' = "nothing"
  <2>1. pc["conf"] # "unregister"
    <3>1. CASE t = "conf"
      BY <1>a, <3>1 DEF Body
    <3>2. CASE t # "conf"
      BY <1>0, <1>b, <1>c, <3>2
    <3> QED
      BY <3>1, <3>2
  <2>2. pc["note"] = "idle" /\ pc["req"] = "idle" /\ initDone
    BY <1>c, <2>1 DEF OneInv, Inv, SafeInv, Placed, Made
  <2>3. t = "conf" /\ pc["conf"] \in {"instance", "return"}
    BY <1>0, <1>a, <1>c, <2>2 DEF OneInv, Inv, SafeInv, Placed, Body
  <2>4. Enter(t) \/ Return(t)
    BY <2>3 DEF Instance, Connect, Make, New, InitializeDs, ReadPower, SetPower, Done
  <2>5. told' = told
    BY <2>4 DEF Enter, Return
  <2> QED
    BY <1>c, <2>1, <2>5 DEF PowerInv
<1>3. SUFFICES ASSUME Alone, Alone' PROVE AloneInv'
  BY <1>0, <1>1, <1>2, <1>c DEF PowerInv, Alone
<1>4. AloneInv /\ ~raced /\ ~raced'
  BY <1>3 DEF PowerInv, Alone
<1>5. /\ \A u, v \in Threads : pc[u] \in Body /\ pc[v] \in Body => u = v
      /\ \A u \in Threads : pc[u] \in Body => ~initDone
  BY <1>4 DEF OneInv, OnceInv, Within
<1>6. CASE t = "req"
  <2>1. life = "up" /\ initDone /\ pc["req"] \notin Body
    BY <1>6, <1>a DEF OneInv, Inv, SafeInv, Placed, Made, Calling, Body
  <2>2. Enter("req") \/ Return("req")
    BY <1>6, <2>1 DEF Instance, Connect, Make, New, InitializeDs, ReadPower, SetPower, Done,
       Body
  <2>3. UNCHANGED <<powerStatus, plugin, initDone, told>> /\ pc'["note"] = pc["note"]
        /\ pc'["conf"] = pc["conf"]
    BY <1>0, <2>2 DEF Enter, Return
  <2> QED
    BY <1>1, <1>4, <2>1, <2>3 DEF AloneInv, Known
<1>7. CASE t = "note"
  <2>1. registered /\ pc["conf"] # "register" /\ pc'["conf"] = pc["conf"]
    BY <1>0, <1>4, <1>7, <1>a, <1>b DEF OneInv, Inv, SafeInv, Placed, AloneInv, Body
  <2>3. CASE initDone
    <3>1. Enter("note") \/ Return("note")
      BY <1>5, <1>7, <2>3 DEF Instance, Connect, Make, New, InitializeDs, ReadPower, SetPower,
         Done, Body
    <3>2. /\ UNCHANGED <<initDone, powerStatus, told>>
          /\ pc'["note"] \in {"return", "setPowerStatus"}
      BY <1>0, <2>3, <3>1 DEF Enter, Return, Caller
    <3> QED
      BY <1>1, <1>4, <2>1, <2>3, <3>2 DEF AloneInv, Known
  <2>4. CASE ~initDone /\ pc["conf"] \in Body
    <3>1. pc["note"] = "instance"
      BY <1>4, <1>5, <1>7, <1>a, <2>4 DEF AloneInv, Threads
    <3>2. Enter("note")
      BY <1>7, <3>1 DEF Instance, Connect, Make, New, InitializeDs, ReadPower, SetPower, Done,
         Return
    <3>3. raced'
      BY <1>0, <2>4, <3>2 DEF Enter
    <3> QED
      BY <1>4, <3>3
  <2>5. CASE ~initDone /\ pc["conf"] \notin Body
    <3>1. ~plugin /\ Asked /\ pc["note"] \notin {"connect", "set", "return"}
      BY <1>4, <2>5 DEF AloneInv, Asked
    <3>2. ~SetPower("note") /\ ~Connect("note") /\ ~Return("note")
      BY <3>1 DEF SetPower, Connect, Return
    <3>3. powerStatus' = powerStatus /\ plugin' = plugin
      BY <1>7, <3>2 DEF Instance, Enter, Make, New, InitializeDs, ReadPower, Done
    <3>4. CASE Enter("note") \/ Make("note") \/ New("note")
      <4>1. pc'["note"] \in {"return", "make", "new", "ds"} /\ (~initDone => pc'["note"] # "return")
            /\ UNCHANGED <<initDone, told>> /\ pc["note"] # "done"
        BY <1>0, <3>4 DEF Enter, Make, New
      <4> QED
        BY <1>1, <1>4, <2>1, <2>5, <3>1, <3>3, <4>1 DEF AloneInv, Asked, Known
    <3>5. CASE InitializeDs("note") \/ ReadPower("note")
      <4>1. /\ initDone' = initDone /\ pc["note"] # "done"
            /\ \/ pc'["note"] = "read" /\ told' = told
               \/ pc'["note"] = "done" /\ told' = "unanswered"
        BY <1>0, <1>4, <3>1, <3>5 DEF InitializeDs, ReadPower
      <4>2. told = "nothing"
        BY <2>5, <3>1, <4>1 DEF Asked, Body
      <4> QED
        BY <1>1, <1>4, <2>1, <2>5, <3>1, <3>3, <4>1, <4>2 DEF AloneInv, Asked, Known, Body
    <3>6. CASE Done("note")
      <4>1. pc["note"] = "done" /\ pc'["note"] = "return" /\ initDone' /\ told' = told
        BY <1>0, <3>6 DEF Done
      <4>2. told = "unanswered" /\ pc["conf"] # "set"
        BY <2>5, <3>1, <4>1 DEF Asked, Body
      <4> QED
        BY <1>1, <1>4, <2>1, <2>5, <3>3, <4>1, <4>2 DEF AloneInv, Known
    <3> QED
      BY <1>7, <3>2, <3>4, <3>5, <3>6 DEF Instance
  <2> QED
    BY <2>3, <2>4, <2>5
<1>8. CASE t = "conf"
  <2>1. /\ pc["conf"] \notin {"register", "unregister"} /\ pc'["note"] = pc["note"]
        /\ pc'["conf"] # "register" /\ pc["conf"] \in {"instance", "return"} \cup Body
    BY <1>0, <1>8, <1>a, <1>b DEF Instance, Enter, Connect, Make, New, InitializeDs,
       ReadPower, SetPower, Done, Return, Caller, Body
  <2>4. CASE initDone
    <3>1. Enter("conf") \/ Return("conf")
      BY <1>5, <1>8, <2>4 DEF Instance, Connect, Make, New, InitializeDs, ReadPower, SetPower,
         Done, Body
    <3>2. /\ UNCHANGED <<initDone, powerStatus, told>>
          /\ pc["conf"] # "set" /\ pc'["conf"] # "set"
      BY <1>0, <2>4, <3>1 DEF Enter, Return, Caller
    <3> QED
      BY <1>1, <1>4, <2>1, <2>4, <3>2 DEF AloneInv, Known
  <2>5. CASE ~initDone
    <3>1. Asked /\ (registered => Known)
      BY <1>4, <2>5 DEF AloneInv
    <3>2. pc["note"] \notin Body
      <4>1. CASE pc["conf"] \in Body
        BY <1>0, <1>5, <4>1
      <4>2. CASE Enter("conf")
        BY <1>0, <1>4, <2>5, <4>2 DEF Enter
      <4>3. ~Return("conf")
        BY <1>3, <2>5 DEF Return, Alone, OneInv, Inv, SafeInv, Made
      <4> QED
        BY <1>8, <4>1, <4>2, <4>3 DEF Instance, Connect, Make, New, InitializeDs, ReadPower,
           SetPower, Done, Body
    <3>a. SUFFICES /\ initDone' => pc'["conf"] # "set" /\ told' # "nothing"
                   /\ ~initDone' => Asked'
                   /\ registered => Known'
                   /\ initDone => initDone'
      BY <1>1, <1>4, <2>1, <2>5, <3>2 DEF AloneInv, Body
    <3>3. CASE Enter("conf") \/ Connect("conf") \/ Make("conf") \/ New("conf")
      <4>1. /\ pc["conf"] \notin {"set", "done"} /\ pc'["conf"] \in Body \ {"set", "done"}
            /\ UNCHANGED <<initDone, powerStatus, told>>
        BY <1>0, <2>5, <3>3 DEF Enter, Connect, Make, New, Body
      <4>2. told = "nothing"
        BY <3>1, <3>2, <4>1 DEF Asked, Body
      <4> QED
        BY <1>1, <2>1, <2>5, <3>1, <3>2, <4>1, <4>2 DEF Asked, Known, Body
    <3>4. CASE InitializeDs("conf") \/ ReadPower("conf")
      <4>1. /\ pc["conf"] \in Body \ {"set", "done"}
            /\ UNCHANGED <<initDone, powerStatus, plugin>>
            /\ \/ pc'["conf"] = "read" /\ told' = told
               \/ pc'["conf"] = "done" /\ told' = "unanswered"
               \/ pc'["conf"] = "done" /\ told' = "answer" /\ mode # "ON"
               \/ pc'["conf"] = "set" /\ told' = "answer" /\ mode = "ON"
        BY <1>0, <1>4, <3>4 DEF InitializeDs, ReadPower, PowerIsOn, Body
      <4>2. told = "nothing" /\ (activations = 1 => ~powerStatus)
        BY <3>1, <3>2, <4>1 DEF Asked, Body
      <4>3. ~initDone' /\ Asked'
        BY <1>1, <2>1, <2>5, <3>1, <3>2, <4>1, <4>2 DEF Asked, Body
      <4>4. Known'
        BY <1>0, <1>1, <4>1, <4>2 DEF Known
      <4> QED
        BY <2>5, <4>3, <4>4
    <3>6. CASE SetPower("conf")
      <4>1. /\ pc["conf"] = "set" /\ pc'["conf"] = "done" /\ powerStatus' = TRUE
            /\ UNCHANGED <<initDone, told>>
        BY <1>0, <3>6 DEF SetPower
      <4> QED
        BY <1>1, <2>1, <2>5, <3>1, <3>2, <4>1 DEF Asked, Known, Body
    <3>7. CASE Done("conf")
      <4>1. /\ pc["conf"] = "done" /\ pc'["conf"] = "return" /\ initDone'
            /\ UNCHANGED <<powerStatus, told>>
        BY <1>0, <3>7 DEF Done
      <4> QED
        BY <1>1, <3>1, <4>1 DEF Asked, Known
    <3>8. ~Return("conf")
      BY <1>3, <2>5 DEF Return, Alone, OneInv, Inv, SafeInv, Made
    <3> QED
      BY <1>8, <3>3, <3>4, <3>6, <3>7, <3>8 DEF Instance
  <2> QED
    BY <2>4, <2>5
<1> QED
  BY <1>0, <1>6, <1>7, <1>8

\* A notification that is noted leaves the queue one shorter, and the last one
\* of all is the mode.
LEMMA PowerNoted == ASSUME OneInv, PowerInv, SetPowerStatus PROVE PowerInv'
<1> USE DEF At, Goto, Finish, Tell, SetPowerStatus, NewState
<1>0. /\ pc \in [Threads -> Labels] /\ {"conf", "note", "req"} = Threads
      /\ queue \in Seq(Modes) /\ queue # <<>>
  BY DEF OneInv, Inv, ProcessTypeOK, SafeInv, Placed, Threads
<1>1. /\ registered /\ pc'["conf"] = pc["conf"] /\ pc["conf"] # "release" /\ life # "down"
      /\ life = "destroying" => pc["conf"] = "unregister"
  BY <1>0 DEF OneInv, Inv, ProcessTypeOK, SafeInv, Placed, Body
<1>2. SUFFICES ASSUME Alone PROVE AloneInv'
  BY <1>0, <1>1 DEF PowerInv, Alone
<1>3. /\ initDone /\ queue[Len(queue)] = mode /\ pc["conf"] # "register" /\ registered
      /\ pc["conf"] # "set"
  BY <1>0, <1>2 DEF PowerInv, AloneInv
<1>4. Tail(queue) # <<>> => Tail(queue)[Len(Tail(queue))] = mode
  <2>1. Len(Tail(queue)) = Len(queue) - 1 /\ Len(queue) \in Nat
    BY <1>0
  <2>2. SUFFICES ASSUME Tail(queue) # <<>> PROVE Tail(queue)[Len(Tail(queue))] = mode
    OBVIOUS
  <2>3. Len(Tail(queue)) \in 1..Len(Tail(queue))
    BY <1>0, <2>1, <2>2
  <2> QED
    BY <1>0, <1>3, <2>1, <2>3
<1>5. Tail(queue) = <<>> => Head(queue) = mode
  <2>1. Len(Tail(queue)) = Len(queue) - 1 /\ Len(<<>>) = 0 /\ Head(queue) = queue[1]
    BY <1>0
  <2>2. Len(queue) \in Nat
    BY <1>0
  <2>3. ASSUME Tail(queue) = <<>> PROVE Len(queue) = 1
    <3>1. Len(Tail(queue)) = 0
      BY <2>1, <2>3
    <3> QED
      BY <2>1, <2>2, <3>1
  <2> QED
    BY <1>3, <2>1, <2>3
<1>6. queue' = Tail(queue) /\ mode' = mode /\ (queue' = <<>> => powerStatus' = (mode = "ON"))
  BY <1>5
<1>7. /\ pc'["conf"] = pc["conf"] /\ pc'["note"] = "idle" /\ initDone' /\ registered'
      /\ told' = "notification"
  BY <1>0, <1>2, <1>3 DEF Alone
<1>8. Known'
  BY <1>3, <1>6, <1>7 DEF Known
<1> QED
  BY <1>3, <1>4, <1>6, <1>7, <1>8 DEF AloneInv

\* A change of the mode is queued from the registration on.
LEMMA PowerChanged == ASSUME OneInv, PowerInv, ChangeMode PROVE PowerInv'
<1> USE DEF ChangeMode, At, statics, threads, history
<1>0. queue \in Seq(Modes)
  BY DEF OneInv, Inv, ProcessTypeOK
<1>1. CASE registered
  <2>1. mode' \in Modes
    OBVIOUS
  <2>2. queue' # <<>> /\ queue'[Len(queue')] = mode'
    BY <1>0, <1>1, <2>1
  <2> QED
    BY <1>1, <2>2 DEF PowerInv, Alone, AloneInv, Known, Asked
<1>2. CASE ~registered
  <2>1. queue' = queue /\ queue = <<>>
    BY <1>2 DEF PowerInv
  <2> QED
    BY <1>2, <2>1 DEF PowerInv, Alone, AloneInv, Asked
<1> QED
  BY <1>1, <1>2

\* Every step of the process keeps PowerInv.
LEMMA PowerStep ==
  ASSUME OneInv, PowerInv, Waits, [SingletonNext]_processVars PROVE PowerInv'
<1> USE DEF At, Goto, Finish, statics, objects, threads, notifying, blinkTimer, history
<1>0. pc \in [Threads -> Labels] /\ {"conf", "note", "req"} = Threads /\ activations \in Nat
  BY DEF OneInv, Inv, ProcessTypeOK, Threads
<1>1. CASE BeginConfigure
  <2>1. /\ life = "down" /\ pc["conf"] = "idle" /\ activations' = activations + 1
        /\ pc'["conf"] = "register" /\ life' = "configuring"
    BY <1>0, <1>1 DEF BeginConfigure, OneInv, Inv, SafeInv, Placed
  <2>2. ~registered /\ ~initDone /\ pc["note"] = "idle"
    BY <2>1 DEF OneInv, Inv, SafeInv, Placed, OnceInv
  <2>3. /\ UNCHANGED <<registered, queue, initDone, plugin, powerStatus, mode, told>>
        /\ pc'["note"] = pc["note"]
    BY <1>0, <1>1 DEF BeginConfigure
  <2>4. /\ queue = <<>> /\ ~plugin /\ told = "nothing" /\ activations' # 0
        /\ activations' = 1 => ~powerStatus
    BY <1>0, <2>1, <2>2 DEF PowerInv
  <2> QED
    BY <1>0, <2>1, <2>2, <2>3, <2>4 DEF PowerInv, Alone, AloneInv, Asked, Body
<1>2. CASE Register
  <2>1. /\ pc["conf"] = "register" /\ pc'["conf"] = "instance" /\ life = "configuring"
        /\ pc'["note"] = pc["note"]
        /\ UNCHANGED <<queue, mode, initDone, plugin, powerStatus, activations, told, life, raced>>
    BY <1>0, <1>2 DEF Register, OneInv, Inv, ProcessTypeOK, SafeInv, Placed, Body
  <2>2. ~registered /\ queue = <<>> /\ activations # 0 /\ pc["note"] = "idle"
    BY <2>1 DEF PowerInv, OneInv, Inv, SafeInv, Placed
  <2>3. ASSUME Alone PROVE AloneInv'
    <3>1. ~initDone /\ Asked
      BY <2>1, <2>3 DEF PowerInv, AloneInv
    <3>2. told = "nothing" /\ ~plugin /\ (activations = 1 => ~powerStatus)
      BY <2>1, <2>2, <3>1 DEF Asked, Body
    <3> QED
      BY <2>1, <2>2, <3>1, <3>2 DEF AloneInv, Asked, Known, Body
  <2> QED
    BY <2>1, <2>2, <2>3 DEF PowerInv, Alone
<1>3. CASE Start \/ AddEventObserver
  <2>1. initDone /\ life = "configuring" /\ pc["conf"] \in {"start", "observe"}
    BY <1>3 DEF Start, AddEventObserver, OneInv, Inv, ProcessTypeOK, SafeInv, Placed, Made, Body
  <2>2. /\ UNCHANGED <<registered, queue, initDone, plugin, powerStatus, mode, told>>
        /\ pc'["note"] = pc["note"] /\ pc'["conf"] \in {"observe", "idle"}
        /\ UNCHANGED <<activations, raced>> /\ life' \in {"configuring", "up"}
    BY <1>0, <1>3, <2>1 DEF Start, AddEventObserver
  <2>3. Known => Known'
    BY <2>1, <2>2 DEF Known
  <2> QED
    BY <2>1, <2>2, <2>3 DEF PowerInv, Alone, AloneInv
<1>4. CASE BeginDestroy
  BY <1>0, <1>4 DEF BeginDestroy, PowerInv, Alone
<1>5. CASE \/ Unregister \/ Delete \/ DeInitializeDs
           \/ StopBlinkTimer("conf", s_instance) \/ Revoke("conf", s_instance, "delete")
  <2>1. life = "destroying"
    BY <1>5 DEF Unregister, Delete, DeInitializeDs, StopBlinkTimer, Revoke, OneInv, Inv,
       ProcessTypeOK, SafeInv, Placed, Body
  <2>2. /\ life' \in {"destroying", "down"} /\ activations' = activations
        /\ powerStatus' = powerStatus
    BY <1>5, <2>1 DEF Unregister, Delete, DeInitializeDs, StopBlinkTimer, Revoke
  <2>3. life' = "down" \/ pc'["conf"] = "release" => ~plugin'
    BY <1>0, <1>5, <2>1 DEF Unregister, Delete, DeInitializeDs, StopBlinkTimer, Revoke, PowerInv
  <2>4. (~registered' => queue' = <<>>) /\ told' = "nothing"
    <3>1. CASE Unregister
      BY <3>1 DEF Unregister, Waits, OneInv, Inv, SafeInv, Placed
    <3>2. CASE ~Unregister
      BY <1>5, <2>1, <3>2 DEF Delete, DeInitializeDs, StopBlinkTimer, Revoke, PowerInv
    <3> QED
      BY <3>1, <3>2
  <2> QED
    BY <2>1, <2>2, <2>3, <2>4 DEF PowerInv, Alone
<1>6. CASE Deliver
  BY <1>0, <1>6 DEF Deliver, PowerInv, Alone, AloneInv, Asked, Known
<1>7. CASE Serve \/ Request \/ Callback \/ Fire \/ UNCHANGED processVars
  <2>1. /\ UNCHANGED <<registered, queue, initDone, plugin, powerStatus, mode, told>>
        /\ UNCHANGED <<activations, raced, life>>
    BY <1>7 DEF Serve, StopBlinkTimer, Revoke, Arm, Schedule, Request, Callback, Tick,
       Reschedule, Fire, processVars
  <2>2. pc'["note"] = pc["note"] /\ pc'["conf"] = pc["conf"]
    BY <1>0, <1>7 DEF Serve, StopBlinkTimer, Revoke, Arm, Schedule, Request, Callback, Tick,
       Reschedule, Fire, processVars
  <2> QED
    BY <2>1, <2>2 DEF PowerInv, Alone, AloneInv, Asked, Known
<1> QED
  BY <1>1, <1>2, <1>3, <1>4, <1>5, <1>6, <1>7, PowerInstance, PowerNoted, PowerChanged
  DEF SingletonNext, Internal, Conf, World

\* Once the notifications are noted, what PowerInv knows is OnIsKnown and
\* PowerSettled.
LEMMA PowerInvSettles == ASSUME OneInv, PowerInv PROVE OnIsKnown /\ PowerSettled
<1> SUFFICES ASSUME life = "up", registered, ~raced, queue = <<>>, told # "unanswered"
             PROVE  /\ mode = "ON" => powerStatus
                    /\ told = "notification" \/ activations = 1 => powerStatus = (mode = "ON")
  BY DEF PowerSettled, OnIsKnown, NotedAll
<1>1. initDone /\ powerStatus \in BOOLEAN /\ told \in Tellings
  BY DEF OneInv, Inv, ProcessTypeOK, SafeInv, Made
<1>2. Known /\ ~At("conf", "set") /\ told # "nothing"
  BY <1>1 DEF PowerInv, Alone, AloneInv, At
<1>3. told \in {"answer", "notification"}
  BY <1>1, <1>2 DEF Tellings
<1> QED
  BY <1>1, <1>2, <1>3 DEF Known

\* Unless two threads met in instance(), powerStatus is right as soon as the
\* notifications are noted, however the mode changed meanwhile: in any activation
\* when there was one, whatever failed in instance(), and in the first of a
\* process with GetPowerState's answer alone.
THEOREM PowerIsSettled == ASSUME Waits PROVE SingletonSpec => []PowerSettled
<1>1. OneInv /\ PowerInv /\ [SingletonNext]_processVars => OneInv' /\ PowerInv'
  BY OneStep, PowerStep
<1>2. OneInv /\ PowerInv => PowerSettled
  BY PowerInvSettles
<1>3. Init => OneInv /\ PowerInv
  BY InvInit, OnceInit, PowerInit DEF OneInv
<1> QED
  BY <1>1, <1>2, <1>3, PTL DEF SingletonSpec

\* In every activation, whatever powerStatus the one before has left, the ON of
\* PowerManager is not missed once it was told: a change before the registration
\* is in the answer of GetPowerState, and one after it in the notifications.
THEOREM OnIsNotMissed == ASSUME Waits PROVE SingletonSpec => []OnIsKnown
<1>1. OneInv /\ PowerInv /\ [SingletonNext]_processVars => OneInv' /\ PowerInv'
  BY OneStep, PowerStep
<1>2. OneInv /\ PowerInv => OnIsKnown
  BY PowerInvSettles
<1>3. Init => OneInv /\ PowerInv
  BY InvInit, OnceInit, PowerInit DEF OneInv
<1> QED
  BY <1>1, <1>2, <1>3, PTL DEF SingletonSpec

-----------------------------------------------------------------------------
(***************************************************************************)
(* The same as a refinement: until two threads meet in instance(), each    *)
(* activation follows PowerManager as PowerFollow does, and the first one  *)
(* does it with nothing left from before (fresh).                          *)
(***************************************************************************)
FollowingInv == OneInv /\ PowerInv

LEMMA FollowingIsBoolean == {Following, Following'} \subseteq BOOLEAN
BY DEF Following

\* Who follows is alone in the body of instance().
LEMMA FollowingAlone ==
  ASSUME FollowingInv, Following PROVE Alone /\ AloneInv /\ registered
BY DEF FollowingInv, Following, PowerInv, Alone

\* While nothing is followed PowerFollow sees the mode only; neither does it see
\* anything else when following ends.
LEMMA NotFollowing ==
  ASSUME ~Following'
  PROVE  /\ mode' = mode => [Follow!Next]_Follow!vars
         /\ mode' \in Modes \ {mode} /\ ~Following => Follow!Next
<1>1. Follow!Off'
  BY DEF Follow!Off
<1>2. ~Following => Follow!Off
  BY DEF Follow!Off
<1>3. ASSUME mode' = mode, Following PROVE Follow!End
  BY <1>1, <1>3 DEF Follow!End
<1>4. ASSUME mode' = mode, ~Following PROVE UNCHANGED Follow!vars
  BY <1>4, FollowingIsBoolean DEF Follow!vars
<1>5. ASSUME mode' \in Modes \ {mode}, ~Following PROVE Follow!Change
  BY <1>5, FollowingIsBoolean DEF Follow!Change
<1> QED
  BY <1>3, <1>4, <1>5 DEF Follow!Next

\* Everything that PowerFollow sees, when it follows.
LEMMA FollowingStutters ==
  ASSUME Following, Following', UNCHANGED <<mode, queue, told, activations>>,
         (powerStatus \/ At("conf", "set")) <=> (powerStatus' \/ At("conf", "set")')
  PROVE  UNCHANGED Follow!vars
<1>1. Following' = Following
  BY FollowingIsBoolean
<1>2. (Following /\ activations = 1)' = (Following /\ activations = 1)
  BY <1>1
<1> QED
  BY <1>1, <1>2 DEF Follow!vars

\* Only ChangeMode touches the mode, and it does nothing else but notify.
LEMMA FollowingChange == ASSUME FollowingInv, ChangeMode PROVE Follow!Next
<1> USE DEF ChangeMode, statics, threads, history
<1>1. Following' <=> Following
  BY DEF Following
<1>2. CASE Following
  <2>1. registered /\ mode' \in Modes \ {mode} /\ queue' = Append(queue, mode')
    BY <1>2 DEF Following
  <2>2. (powerStatus \/ At("conf", "set")) <=> (powerStatus \/ At("conf", "set"))'
    BY DEF At
  <2>3. Follow!Change
    BY <1>1, <1>2, <2>1, <2>2, FollowingIsBoolean DEF Follow!Change
  <2> QED
    BY <2>3 DEF Follow!Next
<1>3. CASE ~Following
  BY <1>1, <1>3, NotFollowing
<1> QED
  BY <1>2, <1>3

\* In instance(), conf asks for the mode and is answered or not, or a
\* notification's thread gets there before it and has nobody to ask.
LEMMA FollowingInstance ==
  ASSUME FollowingInv, NEW t \in Threads, Instance(t)
  PROVE  [Follow!Next]_Follow!vars
<1> USE DEF At, Goto, Tell, statics, objects, threads, notifying, blinkTimer, history
<1>0. /\ pc \in [Threads -> Labels] /\ {"conf", "note", "req"} = Threads
      /\ {initDone, powerStatus} \subseteq BOOLEAN
  BY DEF FollowingInv, OneInv, Inv, ProcessTypeOK, Threads
<1>1. UNCHANGED <<notifying, life, activations>> /\ (raced => raced')
  <2>1. CASE Enter(t)
    BY <2>1 DEF Enter
  <2>2. CASE ~Enter(t)
    BY <2>2 DEF Instance, Connect, Make, New, InitializeDs, ReadPower, SetPower, Done, Return
  <2> QED
    BY <2>1, <2>2
<1>2. CASE ~Following'
  BY <1>1, <1>2, NotFollowing
<1>3. CASE Following'
  <2>1. Following /\ AloneInv /\ registered /\ ~raced
    BY <1>1, <1>3, FollowingAlone DEF Following
  <2>2. pc["note"] \notin {"connect", "set"} /\ (~initDone => Asked)
    BY <2>1 DEF AloneInv
  <2>3. /\ \A u, v \in Threads : pc[u] \in Body /\ pc[v] \in Body => u = v
        /\ \A u \in Threads : pc[u] \in Body => ~initDone
    BY <2>1 DEF FollowingInv, OneInv, OnceInv, Within
  <2>4. mode' = mode /\ queue' = queue /\ activations' = activations
    BY <1>1
  <2>5. CASE Enter(t) \/ Connect(t) \/ Make(t) \/ New(t) \/ Done(t) \/ Return(t)
    <3>1. told' = told /\ powerStatus' = powerStatus
      BY <2>5 DEF Enter, Connect, Make, New, Done, Return
    <3>2. pc'["conf"] = "set" <=> pc["conf"] = "set"
      BY <1>0, <2>5 DEF Enter, Connect, Make, New, Done, Return, Caller
    <3> QED
      BY <1>3, <2>1, <2>4, <3>1, <3>2, FollowingStutters
  <2>6. CASE InitializeDs(t) \/ ReadPower(t)
    <3>1. pc[t] \in {"ds", "read"} /\ ~initDone /\ Asked /\ powerStatus' = powerStatus
      BY <2>2, <2>3, <2>6 DEF InitializeDs, ReadPower, Body
    <3>2. t \in {"conf", "note"}
      BY <1>0, <3>1 DEF FollowingInv, OneInv, Inv, SafeInv, Placed, Calling
    <3>3. told = "nothing" /\ pc["conf"] # "set" /\ pc["note"] # "done"
      <4>1. CASE t = "conf"
        BY <1>0, <2>3, <3>1, <4>1 DEF Asked, Body
      <4>2. CASE t = "note"
        <5>1. pc["conf"] \notin Body
          BY <1>0, <2>3, <3>1, <4>2 DEF Body
        <5> QED
          BY <3>1, <4>2, <5>1 DEF Asked, Body
      <4> QED
        BY <3>2, <4>1, <4>2
    <3>4. CASE told' = told
      <4>1. pc'["conf"] # "set"
        BY <1>0, <2>1, <2>6, <3>3, <3>4 DEF InitializeDs, ReadPower
      <4> QED
        BY <1>3, <2>1, <2>4, <3>1, <3>3, <3>4, <4>1, FollowingStutters
    <3>5. CASE told' = "unanswered"
      <4>1. pc'["conf"] # "set"
        BY <1>0, <2>1, <2>6, <3>3, <3>5 DEF InitializeDs, ReadPower
      <4>2. Follow!Leave
        BY <1>3, <2>1, <2>4, <3>1, <3>3, <3>5, <4>1, FollowingIsBoolean DEF Follow!Leave
      <4> QED
        BY <4>2 DEF Follow!Next
    <3>6. CASE told' # told /\ told' # "unanswered"
      <4>1. ReadPower(t) /\ plugin /\ told' = "answer"
        BY <2>1, <2>6, <3>6 DEF InitializeDs, ReadPower
      <4>2. t = "conf"
        <5>1. t # "note"
          BY <1>0, <2>3, <3>1, <4>1 DEF Asked, Body
        <5> QED
          BY <3>2, <5>1
      <4>3. pc'["conf"] = IF mode = "ON" THEN "set" ELSE "done"
        BY <1>0, <2>1, <4>1, <4>2 DEF ReadPower, PowerIsOn
      <4>4. (powerStatus' \/ At("conf", "set")') <=> (powerStatus \/ mode = "ON")
        BY <3>1, <4>3
      <4>5. Follow!Fetch
        BY <1>3, <2>1, <2>4, <3>3, <4>1, <4>4, FollowingIsBoolean DEF Follow!Fetch
      <4> QED
        BY <4>5 DEF Follow!Next
    <3> QED
      BY <3>4, <3>5, <3>6
  <2>7. CASE SetPower(t)
    <3>1. t # "note" /\ t # "req"
      BY <1>0, <2>2, <2>7 DEF SetPower, FollowingInv, OneInv, Inv, SafeInv, Placed, Calling
    <3>2. pc["conf"] = "set" /\ pc'["conf"] = "done" /\ powerStatus' /\ told' = told
      BY <1>0, <2>7, <3>1 DEF SetPower
    <3> QED
      BY <1>3, <2>1, <2>4, <3>2, FollowingStutters
  <2> QED
    BY <2>5, <2>6, <2>7 DEF Instance
<1> QED
  BY <1>2, <1>3

\* The notification is noted by a thread that has been through instance().
LEMMA FollowingNote ==
  ASSUME FollowingInv, SetPowerStatus PROVE [Follow!Next]_Follow!vars
<1> USE DEF At, Goto, Finish, Tell, SetPowerStatus, NewState
<1>0. /\ pc \in [Threads -> Labels] /\ {"conf", "note", "req"} = Threads /\ queue # <<>>
  BY DEF FollowingInv, OneInv, Inv, ProcessTypeOK, SafeInv, Placed, Threads
<1>1. (Following' <=> Following) /\ mode' = mode
  BY DEF Following
<1>2. CASE Following
  <2>1. AloneInv /\ ~raced
    BY <1>2, FollowingAlone DEF Following
  <2>2. pc["conf"] # "set" /\ pc'["conf"] = pc["conf"]
    BY <1>0, <2>1 DEF AloneInv
  <2>3. queue' = Tail(queue) /\ (powerStatus' <=> Head(queue) = "ON") /\ told' = "notification"
    BY <2>1
  <2>4. Follow!Note
    BY <1>0, <1>1, <1>2, <2>2, <2>3, FollowingIsBoolean DEF Follow!Note
  <2> QED
    BY <2>4 DEF Follow!Next
<1>3. CASE ~Following
  BY <1>1, <1>3, NotFollowing
<1> QED
  BY <1>2, <1>3

\* Every step of the process is one of PowerFollow's, or one that it does not see.
LEMMA FollowingStep ==
  ASSUME FollowingInv, [SingletonNext]_processVars PROVE [Follow!Next]_Follow!vars
<1> USE DEF At, Goto, Finish, statics, objects, threads, notifying, blinkTimer, history
<1>0. pc \in [Threads -> Labels] /\ {"conf", "note", "req"} = Threads
  BY DEF FollowingInv, OneInv, Inv, ProcessTypeOK, Threads
<1>1. CASE Register
  <2>1. pc["conf"] = "register" /\ pc'["conf"] = "instance" /\ life = "configuring"
        /\ UNCHANGED <<mode, queue, initDone, powerStatus, activations, told, raced, life>>
    BY <1>0, <1>1 DEF Register, FollowingInv, OneInv, Inv, ProcessTypeOK, SafeInv, Placed, Body
  <2>2. CASE Following'
    <3>1. Alone /\ AloneInv
      BY <2>1, <2>2 DEF Following, FollowingInv, PowerInv, Alone
    <3>2. ~registered /\ pc["note"] = "idle" /\ ~initDone /\ Asked /\ queue = <<>>
      BY <2>1, <3>1 DEF FollowingInv, PowerInv, AloneInv, OneInv, Inv, SafeInv, Placed
    <3>3. /\ ~Following /\ queue' = <<>> /\ told = "nothing"
          /\ ~(activations' = 1 /\ powerStatus') /\ ~At("conf", "set")'
      BY <2>1, <3>2 DEF Following, Asked, Body
    <3>4. Follow!Begin
      BY <2>1, <2>2, <3>3, FollowingIsBoolean DEF Follow!Begin
    <3> QED
      BY <3>4 DEF Follow!Next
  <2> QED
    BY <2>1, <2>2, NotFollowing
<1>2. CASE \/ BeginConfigure \/ BeginDestroy \/ Unregister \/ Delete \/ DeInitializeDs
           \/ StopBlinkTimer("conf", s_instance) \/ Revoke("conf", s_instance, "delete")
  <2>1. mode' = mode
    BY <1>2 DEF BeginConfigure, BeginDestroy, Unregister, Delete, DeInitializeDs,
       StopBlinkTimer, Revoke
  <2>2. BeginConfigure => ~registered'
    BY DEF BeginConfigure, FollowingInv, OneInv, Inv, SafeInv, Placed
  <2>3. ~BeginConfigure => life' \in {"destroying", "down"}
    BY <1>2 DEF BeginDestroy, Unregister, Delete, DeInitializeDs, StopBlinkTimer, Revoke,
       FollowingInv, OneInv, Inv, ProcessTypeOK, SafeInv, Placed, Body
  <2> QED
    BY <2>1, <2>2, <2>3, NotFollowing DEF Following
<1>3. CASE \/ Start \/ AddEventObserver \/ Deliver \/ Serve \/ Request \/ Callback \/ Fire
           \/ UNCHANGED processVars
  <2>1. UNCHANGED <<registered, queue, powerStatus, mode, told, activations, raced>>
    BY <1>3 DEF Start, AddEventObserver, Deliver, Serve, StopBlinkTimer, Revoke, Arm, Schedule,
       Request, Callback, Tick, Reschedule, Fire, processVars
  <2>2. CASE Start \/ AddEventObserver
    <3>1. life = "configuring" /\ life' \in {"configuring", "up"}
          /\ pc["conf"] \in {"start", "observe"} /\ pc'["conf"] \in {"observe", "idle"}
      BY <1>0, <2>2 DEF Start, AddEventObserver, FollowingInv, OneInv, Inv, ProcessTypeOK,
         SafeInv, Placed, Body
    <3>2. Following' <=> Following
      BY <2>1, <3>1 DEF Following
    <3> QED
      BY <2>1, <3>1, <3>2, FollowingStutters, NotFollowing
  <2>3. CASE ~(Start \/ AddEventObserver)
    <3>1. life' = life /\ pc'["conf"] = pc["conf"]
      BY <1>0, <1>3, <2>3 DEF Deliver, Serve, StopBlinkTimer, Revoke, Arm, Schedule,
         Request, Callback, Tick, Reschedule, Fire, processVars
    <3>2. Following' <=> Following
      BY <2>1, <3>1 DEF Following
    <3> QED
      BY <2>1, <3>1, <3>2, FollowingStutters, NotFollowing
  <2> QED
    BY <2>2, <2>3
<1> QED
  BY <1>1, <1>2, <1>3, FollowingInstance, FollowingNote, FollowingChange
  DEF SingletonNext, Internal, Conf, World

LEMMA FollowingInit == Init => FollowingInv /\ Follow!Init
<1>1. Init => OneInv /\ PowerInv
  BY InvInit, OnceInit, PowerInit DEF OneInv
<1>2. Init => ~Following /\ mode \in Modes
  BY DEF Init, Following
<1> QED
  BY <1>1, <1>2 DEF FollowingInv, Follow!Init, Follow!Off

\* In each activation, and until two threads meet in instance(), powerStatus
\* changes by one answer of GetPowerState at most and by the notifications in
\* their order, and by nothing else, whichever statements the three threads are
\* at, however often the mode changes between them, and whatever fails in
\* instance().
THEOREM ProcessFollows == ASSUME Waits PROVE SingletonSpec => FollowsPower
<1>1. FollowingInv /\ [SingletonNext]_processVars => FollowingInv' /\ [Follow!Next]_Follow!vars
  BY OneStep, PowerStep, FollowingStep DEF FollowingInv
<1> QED
  BY <1>1, FollowingInit, PTL DEF SingletonSpec, FollowsPower, Follow!Spec

-----------------------------------------------------------------------------
(***************************************************************************)
(* A Revoke is not kept waiting: what SettlesDown rests on.                *)
(***************************************************************************)
\* An object whose entries are being revoked does not blink any more.
RevokedInv == \A t \in {"conf", "req"} : At(t, "revoke") => Pointer(t) \notin isBlinking

\* While a thread is in Revoke nobody but the timer is about its object: the
\* others are idle, or find instance()'s work done.
LEMMA OnlyTimer ==
  ASSUME Inv, NEW t \in {"conf", "req"}, At(t, "revoke"), At(t, "revoke")',
         [SingletonNext]_processVars
  PROVE  /\ Pointer(t)' = Pointer(t) /\ Pointer(t) # 0 /\ isBlinking' = isBlinking
         /\ Callback \/ Fire \/ UNCHANGED <<entries, running, scheduling>>
<1> USE DEF At, Goto, Finish, Pointer, statics, objects, threads, notifying, blinkTimer, history
<1>0. /\ pc \in [Threads -> Labels] /\ {"conf", "note", "req"} = Threads
      /\ got \in [Threads -> Pointers]
  BY DEF Inv, ProcessTypeOK, Threads
<1>1. Pointer(t) # 0
  <2>1. pc["conf"] = "revoke" => s_instance # 0
    BY DEF Inv, ProcessTypeOK, SafeInv, Placed, Made, Body
  <2>2. pc["req"] = "revoke" => got["req"] \in alive /\ 0 \notin alive
    BY DEF Inv, ProcessTypeOK, SafeInv, Calling, Body
  <2> QED
    BY <2>1, <2>2
<1>2. CASE t = "conf"
  <2>1. /\ pc["conf"] = "revoke" /\ pc'["conf"] = "revoke"
        /\ life = "destroying" /\ pc["note"] = "idle" /\ pc["req"] = "idle"
    BY <1>2 DEF Inv, ProcessTypeOK, SafeInv, Placed, Body
  <2>2. ~(\E u \in Threads : Instance(u)) /\ ~Serve /\ ~SetPowerStatus
    BY <1>0, <2>1 DEF Instance, Enter, Connect, Make, New, InitializeDs, ReadPower, SetPower,
       Done, Return, Serve, StopBlinkTimer, Revoke, Arm, Schedule, SetPowerStatus
  <2>3. ~Conf
    BY <1>0, <2>1 DEF Conf, Register, Start, AddEventObserver, Unregister, StopBlinkTimer,
       Revoke, Delete, DeInitializeDs
  <2>4. ~Request /\ ~BeginConfigure /\ ~BeginDestroy
    BY <2>1 DEF Request, BeginConfigure, BeginDestroy
  <2>5. CASE ChangeMode \/ Deliver \/ UNCHANGED processVars
    BY <1>1, <1>2, <2>5 DEF ChangeMode, Deliver, processVars
  <2>6. CASE Callback \/ Fire
    BY <1>1, <1>2, <2>6 DEF Callback, Tick, Reschedule, Fire
  <2> QED
    BY <2>2, <2>3, <2>4, <2>5, <2>6 DEF SingletonNext, Internal, World
<1>3. CASE t = "req"
  <2>1. /\ pc["req"] = "revoke" /\ pc'["req"] = "revoke"
        /\ life = "up" /\ pc["conf"] = "idle" /\ initDone
    BY <1>3 DEF Inv, SafeInv, Placed, Made
  <2>2. ~Serve
    BY <1>0, <2>1 DEF Serve, StopBlinkTimer, Revoke, Arm, Schedule
  <2>3. ~Conf
    BY <2>1 DEF Conf, Register, Start, AddEventObserver, Unregister, StopBlinkTimer,
       Revoke, Delete, DeInitializeDs
  <2>4. ~Request /\ ~BeginConfigure /\ ~(At("req", "idle") /\ BeginDestroy)
    BY <2>1 DEF Request, BeginConfigure
  <2>5. ASSUME NEW u \in Threads, Instance(u)
        PROVE  /\ got'["req"] = got["req"]
               /\ UNCHANGED <<isBlinking, entries, running, scheduling>>
    <3>1. CASE Return(u)
      <4>1. u # "req"
        BY <2>1, <3>1 DEF Return
      <4> QED
        BY <1>0, <3>1, <4>1 DEF Return
    <3>2. CASE ~Return(u)
      BY <2>5, <3>2 DEF Instance, Enter, Connect, Make, New, InitializeDs, ReadPower, SetPower,
         Done
    <3> QED
      BY <3>1, <3>2
  <2>6. CASE SetPowerStatus \/ ChangeMode \/ Deliver \/ UNCHANGED processVars
    <3>1. got'["req"] = got["req"]
      <4>1. CASE SetPowerStatus
        BY <1>0, <4>1 DEF SetPowerStatus
      <4>2. CASE ~SetPowerStatus
        BY <2>6, <4>2 DEF ChangeMode, Deliver, processVars
      <4> QED
        BY <4>1, <4>2
    <3>2. UNCHANGED <<isBlinking, entries, running, scheduling>>
      BY <2>6 DEF SetPowerStatus, ChangeMode, Deliver, processVars
    <3> QED
      BY <1>1, <1>3, <3>1, <3>2
  <2>7. CASE Callback \/ Fire
    BY <1>1, <1>3, <2>7 DEF Callback, Tick, Reschedule, Fire
  <2> QED
    BY <1>1, <1>3, <2>2, <2>3, <2>4, <2>5, <2>6, <2>7 DEF SingletonNext, Internal, World
<1> QED
  BY <1>1, <1>2, <1>3

\* So that its entries and its callback come to their end.
LEMMA TimerNears ==
  ASSUME NEW o, o # 0, o \notin isBlinking, scheduling => running # 0,
         Callback \/ Fire
  PROVE  /\ Left(o)' <= Left(o)
         /\ running' # running /\ o \in {running, running'} => Left(o)' < Left(o)
<1>1. CASE Tick
  <2>1. entries' = entries /\ ~scheduling
    BY <1>1 DEF Tick
  <2>2. CASE running = o
    <3>1. running' = 0
      BY <1>1, <2>2 DEF Tick, StillBlinking
    <3> QED
      BY <2>1, <2>2, <3>1 DEF Left
  <2>3. CASE running # o
    <3>1. running' # o
      BY <1>1, <2>3 DEF Tick
    <3> QED
      BY <2>1, <2>3, <3>1 DEF Left
  <2> QED
    BY <2>2, <2>3
<1>2. CASE Reschedule
  <2>1. running' = 0 /\ scheduling
    BY <1>2 DEF Reschedule
  <2>2. CASE running = o
    <3>1. o \in entries'
      BY <1>2, <2>2 DEF Reschedule
    <3> QED
      BY <2>1, <2>2, <3>1 DEF Left
  <2>3. CASE running # o
    <3>1. o \in entries' <=> o \in entries
      BY <1>2, <2>3 DEF Reschedule
    <3> QED
      BY <2>1, <2>3, <3>1 DEF Left
  <2> QED
    BY <2>2, <2>3
<1>3. CASE Fire
  <2>1. running = 0 /\ running' \in entries /\ entries' = entries \ {running'}
        /\ ~scheduling /\ ~scheduling'
    BY <1>3 DEF Fire
  <2>2. CASE running' = o
    BY <2>1, <2>2 DEF Left
  <2>3. CASE running' # o
    BY <2>1, <2>3 DEF Left
  <2> QED
    BY <2>2, <2>3
<1> QED
  BY <1>1, <1>2, <1>3 DEF Callback

\* The flag is cleared before, and set again only by a request behind its own
\* Revoke.
LEMMA RevokedStep ==
  ASSUME Inv, RevokedInv, [SingletonNext]_processVars PROVE RevokedInv'
<1> USE DEF At, Goto, Finish, statics, objects, threads, notifying, blinkTimer, history
<1>0. pc \in [Threads -> Labels] /\ {"conf", "note", "req"} = Threads
  BY DEF Inv, ProcessTypeOK, Threads
<1>1. SUFFICES ASSUME NEW t \in {"conf", "req"}, pc'[t] = "revoke"
               PROVE  Pointer(t)' \notin isBlinking'
  BY DEF RevokedInv
<1>2. CASE pc[t] = "revoke"
  BY <1>1, <1>2, OnlyTimer DEF RevokedInv
<1>3. CASE pc[t] # "revoke"
  <2>1. ~UNCHANGED pc
    BY <1>1, <1>3
  <2>2. ASSUME NEW u \in Threads, Instance(u) PROVE FALSE
    BY <1>0, <1>1, <1>3, <2>2 DEF Instance, Enter, Connect, Make, New, InitializeDs, ReadPower,
       SetPower, Done, Return, Caller
  <2>3. ~SetPowerStatus /\ ~World /\ ~Callback /\ ~Request /\ ~BeginConfigure /\ ~BeginDestroy
    BY <1>0, <1>1, <1>3, <2>1 DEF SetPowerStatus, World, ChangeMode, Deliver, Fire,
       Callback, Tick, Reschedule, Request, BeginConfigure, BeginDestroy
  <2>4. CASE Conf
    <3>1. StopBlinkTimer("conf", s_instance) /\ t = "conf"
      BY <1>0, <1>1, <1>3, <2>4 DEF Conf, Register, Start, AddEventObserver, Unregister,
         StopBlinkTimer, Revoke, Delete, DeInitializeDs
    <3> QED
      BY <3>1 DEF StopBlinkTimer, Pointer
  <2>5. CASE Serve
    <3>1. StopBlinkTimer("req", got["req"]) /\ t = "req"
      BY <1>0, <1>1, <1>3, <2>5 DEF Serve, StopBlinkTimer, Revoke, Arm, Schedule
    <3> QED
      BY <3>1 DEF StopBlinkTimer, Pointer
  <2> QED
    BY <2>1, <2>2, <2>3, <2>4, <2>5 DEF SingletonNext, Internal, processVars
<1> QED
  BY <1>2, <1>3

\* What RevokeNears says of one step.
Nears ==
  \A t \in {"conf", "req"} :
    At(t, "revoke") /\ At(t, "revoke")' =>
      /\ Pointer(t)' = Pointer(t) /\ Left(Pointer(t))' <= Left(Pointer(t))
      /\ running' # running /\ Pointer(t) \in {running, running'}
           => Left(Pointer(t))' < Left(Pointer(t))

LEMMA NearsStep ==
  ASSUME Inv, RevokedInv, [SingletonNext]_processVars PROVE Nears
<1> SUFFICES ASSUME NEW t \in {"conf", "req"}, At(t, "revoke"), At(t, "revoke")'
             PROVE  /\ Pointer(t)' = Pointer(t) /\ Left(Pointer(t))' <= Left(Pointer(t))
                    /\ running' # running /\ Pointer(t) \in {running, running'}
                         => Left(Pointer(t))' < Left(Pointer(t))
  BY DEF Nears
<1> DEFINE o == Pointer(t)
<1>1. /\ o' = o /\ o # 0 /\ o \notin isBlinking
      /\ Callback \/ Fire \/ UNCHANGED <<entries, running, scheduling>>
  BY OnlyTimer DEF RevokedInv
<1>2. /\ Left(o)' = (IF o \in entries' THEN 2 ELSE 0)
                      + (IF running' # o THEN 0 ELSE IF scheduling' THEN 3 ELSE 1)
      /\ Left(o) = (IF o \in entries THEN 2 ELSE 0)
                     + (IF running # o THEN 0 ELSE IF scheduling THEN 3 ELSE 1)
  BY <1>1 DEF Left
<1> HIDE DEF o
<1>3. CASE Callback \/ Fire
  <2>1. PICK x : x = o
    OBVIOUS
  <2>2. /\ Left(x)' <= Left(x)
        /\ running' # running /\ x \in {running, running'} => Left(x)' < Left(x)
    BY <1>1, <1>3, <2>1, TimerNears DEF Inv, SafeInv
  <2> QED
    BY <1>1, <1>2, <2>1, <2>2 DEF o, Left
<1>4. CASE UNCHANGED <<entries, running, scheduling>>
  BY <1>1, <1>2, <1>4 DEF o
<1> QED
  BY <1>1, <1>3, <1>4

\* A Revoke waits for the call of its object's callback that is under way and for
\* one more that is due, at most: what the timer has of the object only shrinks,
\* however many notifications, mode changes and callbacks of others come in between.
THEOREM RevokesNear == ASSUME Waits PROVE SingletonSpec => RevokeNears
<1>1. Init => Inv /\ RevokedInv
  BY InvInit DEF Init, RevokedInv, At, Threads
<1>2. Inv /\ RevokedInv /\ [SingletonNext]_processVars => Inv' /\ RevokedInv' /\ [Nears]_processVars
  BY InvStep, RevokedStep, NearsStep
<1> QED
  BY <1>1, <1>2, PTL DEF SingletonSpec, RevokeNears, Nears

-----------------------------------------------------------------------------
(***************************************************************************)
(* The timer, as TimerUse has it, until two threads meet in instance().    *)
(***************************************************************************)
\* There is one chain at most, none behind a Revoke, and the object that is
\* deleted does not blink.
TimedInv ==
  /\ At("conf", "delete") => s_instance \notin isBlinking
  /\ ~raced =>
       /\ running # 0 => entries = {}
       /\ pc["req"] \in {"arm", "schedule"} => entries = {} /\ running = 0

TimingInv == OneInv /\ RevokedInv /\ TimedInv

\* While one thread at most was in instance(), everything is about one object.
LEMMA OneTimed ==
  ASSUME OneInv, ~raced
  PROVE  /\ entries \subseteq {s_instance} /\ running \in {0, s_instance}
         /\ 0 \notin entries \cup isBlinking
         /\ pc["req"] \in {"stop", "revoke", "arm", "schedule"} =>
              got["req"] = s_instance /\ s_instance # 0 /\ pc["conf"] = "idle"
         /\ pc["conf"] \in {"stop", "revoke", "delete"} => pc["req"] = "idle"
<1>1. alive = {s_instance} \ {0} /\ entries \subseteq alive /\ running \in alive \cup {0}
  BY DEF OneInv, OnceInv, Inv, SafeInv
<1>2. 0 \notin entries \cup isBlinking
  BY DEF OneInv, Inv, ProcessTypeOK
<1>3. pc["req"] \in {"stop", "revoke", "arm", "schedule"} =>
        got["req"] \in alive /\ life = "up" /\ pc["conf"] = "idle"
  BY DEF OneInv, Inv, SafeInv, Placed, Calling, Body
<1>4. pc["conf"] \in {"stop", "revoke", "delete"} => pc["req"] = "idle"
  BY DEF OneInv, Inv, ProcessTypeOK, SafeInv, Placed, Body
<1> QED
  BY <1>1, <1>2, <1>3, <1>4

\* Revoke empties the timer.
LEMMA RevokeEmpties ==
  ASSUME OneInv, ~raced, RevokeWaits, NEW t \in {"conf", "req"}, NEW o, NEW label,
         o = Pointer(t), Revoke(t, o, label)
  PROVE  o = s_instance /\ entries' = {} /\ running = 0 /\ running' = 0
<1>1. pc[t] = "revoke" /\ running # o /\ entries' = entries \ {o} /\ running' = running
  BY DEF Revoke, RevokeEntries, At
<1>2. o = s_instance
  BY <1>1, OneTimed DEF Pointer
<1> QED
  BY <1>1, <1>2, OneTimed

\* The statements that have nothing to do with the timer.
LEMMA TimingInstance ==
  ASSUME OneInv, NEW t \in Threads, Instance(t), ~raced'
  PROVE  /\ ~raced /\ UNCHANGED <<isBlinking, entries, running, scheduling>>
         /\ s_instance' = s_instance \/ (s_instance = 0 /\ s_instance' \notin isBlinking)
         /\ pc'["req"] = pc["req"] \/ {pc["req"], pc'["req"]} \subseteq Calling \cup Body \cup {"stop"}
         /\ pc'["conf"] = pc["conf"]
              \/ {pc["conf"], pc'["conf"]} \cap {"revoke", "delete"} = {}
<1> USE DEF At, Goto, Finish, statics, objects, threads, notifying, blinkTimer, history
<1>0. /\ pc \in [Threads -> Labels] /\ {"conf", "note", "req"} = Threads
      /\ isBlinking \subseteq 1..made /\ made \in Nat
  BY DEF OneInv, Inv, ProcessTypeOK, Threads
<1>1. ~raced
  BY DEF Instance, Enter, Connect, Make, New, InitializeDs, ReadPower, SetPower, Done, Return
<1>2. UNCHANGED <<isBlinking, entries, running, scheduling>>
  BY DEF Instance, Enter, Connect, Make, New, InitializeDs, ReadPower, SetPower, Done, Return
<1>3. s_instance' = s_instance \/ (s_instance = 0 /\ s_instance' \notin isBlinking)
  <2>1. CASE New(t)
    <3>1. s_instance = 0 /\ s_instance' = made + 1
      BY <1>1, <2>1 DEF New, OneInv, OnceInv
    <3> QED
      BY <1>0, <3>1
  <2>2. CASE ~New(t)
    BY <2>2 DEF Instance, Enter, Connect, Make, InitializeDs, ReadPower, SetPower, Done, Return
  <2> QED
    BY <2>1, <2>2
<1>4. \A u \in Threads : u # t => pc'[u] = pc[u]
  BY <1>0 DEF Instance, Enter, Connect, Make, New, InitializeDs, ReadPower, SetPower, Done,
     Return
<1>5. /\ pc[t] \in Body \cup {"instance", "return"}
      /\ pc'[t] \in Body \cup {"return", "start", "stop", "setPowerStatus"}
      /\ t = "req" => pc'[t] \in Calling \cup Body \cup {"stop"}
  BY <1>0 DEF Instance, Enter, Connect, Make, New, InitializeDs, ReadPower, SetPower, Done,
     Return, Caller, Body, Calling
<1> QED
  BY <1>0, <1>1, <1>2, <1>3, <1>4, <1>5 DEF Body, Calling

\* Every step of the process keeps TimedInv.
LEMMA TimedStep ==
  ASSUME TimingInv, Waits, [SingletonNext]_processVars PROVE TimedInv'
<1> USE DEF At, Goto, Finish, TimingInv, statics, objects, threads, notifying, blinkTimer, history
<1>0. /\ pc \in [Threads -> Labels] /\ {"conf", "note", "req"} = Threads
      /\ 0 \notin isBlinking
  BY DEF OneInv, Inv, ProcessTypeOK, Threads
<1>1. ASSUME NEW t \in Threads, Instance(t) PROVE TimedInv'
  <2>1. /\ UNCHANGED <<isBlinking, entries, running, scheduling>> /\ (raced => raced')
        /\ pc'["conf"] = "delete" => pc["conf"] = "delete" /\ s_instance' = s_instance
    <3>0. UNCHANGED <<isBlinking, entries, running, scheduling>>
      BY <1>1 DEF Instance, Enter, Connect, Make, New, InitializeDs, ReadPower, SetPower, Done,
         Return
    <3>4. ASSUME ~raced' PROVE ~raced
      BY <1>1, <3>4 DEF Instance, Enter, Connect, Make, New, InitializeDs, ReadPower, SetPower,
         Done, Return
    <3>1. pc'["conf"] # "delete" \/ pc'["conf"] = pc["conf"]
      <4>1. t # "conf" => pc'["conf"] = pc["conf"]
        BY <1>0, <1>1 DEF Instance, Enter, Connect, Make, New, InitializeDs, ReadPower,
           SetPower, Done, Return
      <4>2. pc'[t] \in Body \cup {"return", "start", "stop", "setPowerStatus"}
        BY <1>0, <1>1 DEF Instance, Enter, Connect, Make, New, InitializeDs, ReadPower,
           SetPower, Done, Return, Caller, Body
      <4> QED
        BY <4>1, <4>2 DEF Body
    <3>2. ASSUME pc["conf"] = "delete" PROVE ~New(t)
      <4>1. pc["conf"] = "delete" /\ pc["req"] = "idle" /\ pc["note"] = "idle"
        BY <3>2 DEF OneInv, Inv, ProcessTypeOK, SafeInv, Placed, Body
      <4> QED
        BY <1>0, <4>1 DEF New
    <3>3. ~New(t) => s_instance' = s_instance
      BY <1>1 DEF Instance, Enter, Connect, Make, InitializeDs, ReadPower, SetPower, Done, Return
    <3> QED
      BY <3>0, <3>1, <3>2, <3>3, <3>4
  <2>2. pc'["req"] \in {"arm", "schedule"} => pc'["req"] = pc["req"]
    BY <1>0, <1>1 DEF Instance, Enter, Connect, Make, New, InitializeDs, ReadPower, SetPower,
       Done, Return, Caller
  <2> QED
    BY <2>1, <2>2 DEF TimedInv
<1>2. CASE Revoke("conf", s_instance, "delete")
  <2>1. ~raced => entries' = {} /\ running' = 0
    BY <1>2, RevokeEmpties DEF Waits, Pointer
  <2>2. s_instance \notin isBlinking /\ UNCHANGED <<s_instance, isBlinking, raced>>
    BY <1>2 DEF Revoke, RevokedInv, Pointer
  <2> QED
    BY <2>1, <2>2 DEF TimedInv
<1>3. CASE Revoke("req", got["req"], IF blinkWanted THEN "arm" ELSE "idle")
  <2>1. ~raced => entries' = {} /\ running' = 0
    BY <1>3, RevokeEmpties DEF Waits, Pointer
  <2>2. UNCHANGED <<s_instance, isBlinking, raced>> /\ pc'["conf"] = pc["conf"]
    BY <1>0, <1>3 DEF Revoke
  <2> QED
    BY <2>1, <2>2 DEF TimedInv
<1>4. CASE StopBlinkTimer("req", got["req"]) \/ Arm \/ Schedule
  <2>1. /\ UNCHANGED <<running, s_instance, raced>> /\ pc'["conf"] = "idle" /\ pc["req"] # "revoke"
        /\ entries' = entries \/ (pc'["req"] = "idle" /\ pc["req"] = "schedule")
        /\ pc'["req"] \in {"arm", "schedule"} => pc["req"] = "arm"
    BY <1>0, <1>4 DEF StopBlinkTimer, Arm, Schedule, OneInv, Inv, SafeInv, Placed
  <2> QED
    BY <2>1 DEF TimedInv
<1>5. CASE Fire
  <2>1. /\ running = 0 /\ running' \in entries /\ entries' = entries \ {running'}
        /\ UNCHANGED <<pc, s_instance, isBlinking, raced>>
    BY <1>5 DEF Fire
  <2>2. ~raced => entries' = {}
    BY <2>1, OneTimed
  <2> QED
    BY <2>1, <2>2 DEF TimedInv
<1>6. CASE Callback
  <2>1. /\ running # 0 /\ UNCHANGED <<pc, s_instance, isBlinking, raced>>
        /\ running' = 0 \/ (running' = running /\ entries' = entries)
    BY <1>6 DEF Callback, Tick, Reschedule
  <2> QED
    BY <2>1 DEF TimedInv
<1>7. CASE \/ Register \/ Start \/ AddEventObserver \/ Unregister \/ Delete \/ DeInitializeDs
           \/ StopBlinkTimer("conf", s_instance) \/ BeginConfigure \/ BeginDestroy
  <2>1. /\ UNCHANGED <<entries, running, raced>> /\ pc'["req"] = pc["req"]
        /\ pc'["conf"] # "delete"
    BY <1>0, <1>7 DEF Register, Start, AddEventObserver, Unregister, Delete, DeInitializeDs,
       StopBlinkTimer, BeginConfigure, BeginDestroy
  <2> QED
    BY <2>1 DEF TimedInv
<1>8. CASE SetPowerStatus \/ ChangeMode \/ Deliver \/ Request \/ UNCHANGED processVars
  <2>1. /\ UNCHANGED <<entries, running, raced, s_instance, isBlinking>>
        /\ pc'["req"] \notin {"arm", "schedule"} \/ pc'["req"] = pc["req"]
        /\ pc'["conf"] = pc["conf"]
    BY <1>0, <1>8 DEF SetPowerStatus, ChangeMode, Deliver, Request, processVars
  <2> QED
    BY <2>1 DEF TimedInv
<1> QED
  BY <1>1, <1>2, <1>3, <1>4, <1>5, <1>6, <1>7, <1>8
  DEF SingletonNext, Internal, Conf, Serve, World

\* What TimerUse does not see.
LEMMA TimingStutters ==
  ASSUME OneInv, ~raced, ~raced', UNCHANGED <<isBlinking, entries, running, scheduling>>,
         s_instance' = s_instance \/ (s_instance = 0 /\ s_instance' \notin isBlinking),
         \/ pc'["req"] = pc["req"]
         \/ {pc["req"], pc'["req"]} \subseteq Calling \cup Body \cup {"stop"},
         \/ pc'["conf"] = pc["conf"]
         \/ {pc["conf"], pc'["conf"]} \cap {"revoke", "delete"} = {}
  PROVE  UNCHANGED Timing!vars
<1>1. 0 \notin isBlinking
  BY OneTimed
<1>2. Stage' = Stage
  <2>1. \A label \in {"revoke", "arm", "schedule"} : pc'["req"] = label <=> pc["req"] = label
    BY DEF Calling, Body
  <2>2. \A label \in {"revoke", "delete"} : pc'["conf"] = label <=> pc["conf"] = label
    OBVIOUS
  <2> QED
    BY <2>1, <2>2 DEF Stage
<1>3. s_instance' \in isBlinking' <=> s_instance \in isBlinking
  BY <1>1
<1> QED
  BY <1>2, <1>3 DEF Timing!vars

\* The requests and the destructor, and the timer, step by step.
LEMMA TimingRequests ==
  ASSUME TimingInv, Waits, ~raced,
         \/ StopBlinkTimer("conf", s_instance) \/ Revoke("conf", s_instance, "delete")
         \/ Delete \/ Serve
  PROVE  ~raced' => [Timing!Next]_Timing!vars
<1> USE DEF At, Goto, Finish, TimingInv, statics, objects, threads, notifying, blinkTimer, history
<1> SUFFICES ASSUME ~raced' PROVE [Timing!Next]_Timing!vars
  OBVIOUS
<1>0. pc \in [Threads -> Labels] /\ {"conf", "note", "req"} = Threads
  BY DEF OneInv, Inv, ProcessTypeOK, Threads
<1>1. CASE StopBlinkTimer("conf", s_instance) \/ StopBlinkTimer("req", got["req"])
  <2>1. /\ isBlinking' = isBlinking \ {s_instance}
        /\ UNCHANGED <<entries, running, scheduling, s_instance>>
    BY <1>1, OneTimed DEF StopBlinkTimer
  <2>2. Stage = "none" /\ Stage' = "stopping"
    BY <1>0, <1>1, OneTimed DEF StopBlinkTimer, Stage
  <2> QED
    BY <2>1, <2>2 DEF Timing!Next, Timing!Stop
<1>2. CASE Revoke("conf", s_instance, "delete")
  <2>1. entries' = {} /\ running = 0 /\ running' = 0
    BY <1>2, RevokeEmpties DEF Waits, Pointer
  <2>2. UNCHANGED <<isBlinking, s_instance>>
    BY <1>2 DEF Revoke
  <2>3. Stage = "stopping" /\ Stage' = "quiet"
    BY <1>0, <1>2, OneTimed DEF Revoke, Stage
  <2> QED
    BY <2>1, <2>2, <2>3 DEF Timing!Next, Timing!Revoke
<1>3. CASE Revoke("req", got["req"], IF blinkWanted THEN "arm" ELSE "idle")
  <2>1. entries' = {} /\ running = 0 /\ running' = 0
    BY <1>3, RevokeEmpties DEF Waits, Pointer
  <2>2. UNCHANGED <<isBlinking, s_instance>>
    BY <1>3 DEF Revoke
  <2>3. Stage = "stopping" /\ Stage' \in {"quiet", "none"}
    BY <1>0, <1>3, OneTimed DEF Revoke, Stage
  <2> QED
    BY <2>1, <2>2, <2>3 DEF Timing!Next, Timing!Revoke
<1>4. CASE Delete
  <2>1. /\ s_instance \notin isBlinking /\ s_instance' \notin isBlinking
        /\ UNCHANGED <<isBlinking, entries, running, scheduling>>
    BY <1>4, OneTimed DEF Delete, TimedInv
  <2>2. Stage = "quiet" /\ Stage' = "none"
    BY <1>0, <1>4, OneTimed DEF Delete, Stage
  <2> QED
    BY <2>1, <2>2 DEF Timing!Next, Timing!Leave
<1>5. CASE Arm
  <2>1. entries = {} /\ running = 0
    BY <1>5 DEF Arm, TimedInv
  <2>2. s_instance' \in isBlinking' /\ UNCHANGED <<entries, running, scheduling>>
    BY <1>5, OneTimed DEF Arm
  <2>3. Stage = "quiet" /\ Stage' = "starting"
    BY <1>0, <1>5, OneTimed DEF Arm, Stage
  <2> QED
    BY <2>1, <2>2, <2>3 DEF Timing!Next, Timing!Arm
<1>6. CASE Schedule
  <2>1. entries = {} /\ running = 0
    BY <1>6 DEF Schedule, TimedInv
  <2>2. UNCHANGED <<isBlinking, running, scheduling, s_instance>>
    BY <1>6 DEF Schedule
  <2>3. Stage = "starting" /\ Stage' = "none"
    BY <1>0, <1>6, OneTimed DEF Schedule, Stage
  <2> QED
    BY <2>1, <2>2, <2>3 DEF Timing!Next, Timing!Schedule
<1> QED
  BY <1>1, <1>2, <1>3, <1>4, <1>5, <1>6 DEF Serve

LEMMA TimingCalls ==
  ASSUME TimingInv, ~raced, Fire \/ Callback PROVE [Timing!Next]_Timing!vars
<1> USE DEF TimingInv, statics, objects, threads, notifying, blinkTimer, history
<1>1. /\ UNCHANGED <<pc, s_instance, isBlinking, raced>> /\ Stage' = Stage
  BY DEF Fire, Callback, Tick, Reschedule, Stage
<1>2. CASE Fire
  <2>1. running = 0 /\ ~scheduling /\ ~scheduling' /\ entries # {} /\ entries' = {} /\ running' # 0
    BY <1>2, OneTimed DEF Fire, OneInv, Inv, SafeInv
  <2> QED
    BY <1>1, <2>1 DEF Timing!Next, Timing!Fire
<1>3. CASE Tick
  <2>1. running # 0 /\ ~scheduling /\ entries = {} /\ entries' = {} /\ running = s_instance
    BY <1>3, OneTimed DEF Tick, TimedInv
  <2>2. CASE running' = 0
    BY <1>1, <2>1, <2>2 DEF Timing!Next, Timing!Test
  <2>3. CASE running' # 0
    <3>1. s_instance \in isBlinking /\ scheduling' /\ running' = running
      BY <1>3, <2>1, <2>3 DEF Tick, StillBlinking
    <3> QED
      BY <1>1, <2>1, <3>1 DEF Timing!Next, Timing!Test
  <2> QED
    BY <2>2, <2>3
<1>4. CASE Reschedule
  <2>1. running # 0 /\ scheduling /\ entries = {} /\ running' = 0 /\ entries' # {}
    BY <1>4 DEF Reschedule, TimedInv
  <2> QED
    BY <1>1, <2>1 DEF Timing!Next, Timing!Reschedule
<1> QED
  BY <1>2, <1>3, <1>4 DEF Callback

\* Every step of the process is one of TimerUse, or a stutter; where two threads
\* meet in instance() the object is gone, for TimerUse.
LEMMA TimingGone == ASSUME raced' PROVE Timing!Gone
BY DEF Timing!Gone, Timing!Init, Stage

LEMMA TimingStep ==
  ASSUME TimingInv, Waits, [SingletonNext]_processVars
  PROVE  [Timing!Next \/ Timing!Gone]_Timing!vars
<1> USE DEF At, Goto, Finish, TimingInv, statics, objects, threads, notifying, blinkTimer, history
<1> SUFFICES ASSUME ~raced' PROVE [Timing!Next]_Timing!vars
  BY TimingGone
<1>0. pc \in [Threads -> Labels] /\ {"conf", "note", "req"} = Threads
  BY DEF OneInv, Inv, ProcessTypeOK, Threads
<1>1. ASSUME NEW t \in Threads, Instance(t) PROVE UNCHANGED Timing!vars
  BY <1>1, TimingInstance, TimingStutters
<1>2. CASE \/ StopBlinkTimer("conf", s_instance) \/ Revoke("conf", s_instance, "delete")
           \/ Delete \/ Serve
  <2>1. ~raced
    BY <1>2 DEF StopBlinkTimer, Revoke, Delete, Serve, Arm, Schedule
  <2> QED
    BY <1>2, <2>1, TimingRequests
<1>3. CASE Fire \/ Callback
  <2>1. ~raced
    BY <1>3 DEF Fire, Callback, Tick, Reschedule
  <2> QED
    BY <1>3, <2>1, TimingCalls
<1>4. CASE Register \/ Start \/ AddEventObserver \/ Unregister \/ DeInitializeDs
           \/ BeginConfigure \/ BeginDestroy
  <2>1. /\ UNCHANGED <<isBlinking, entries, running, scheduling, s_instance, raced>>
        /\ pc'["req"] = pc["req"]
        /\ {pc["conf"], pc'["conf"]} \cap {"revoke", "delete"} = {}
    BY <1>0, <1>4 DEF Register, Start, AddEventObserver, Unregister, DeInitializeDs,
       BeginConfigure, BeginDestroy, OneInv, Inv, SafeInv, Placed
  <2> QED
    BY <2>1, TimingStutters
<1>5. CASE SetPowerStatus \/ ChangeMode \/ Deliver \/ Request \/ UNCHANGED processVars
  <2>1. /\ UNCHANGED <<isBlinking, entries, running, scheduling, s_instance, raced>>
        /\ \/ pc'["req"] = pc["req"]
           \/ {pc["req"], pc'["req"]} \subseteq Calling
        /\ pc'["conf"] = pc["conf"]
    BY <1>0, <1>5 DEF SetPowerStatus, ChangeMode, Deliver, Request, processVars, Calling
  <2> QED
    BY <2>1, TimingStutters
<1> QED
  BY <1>1, <1>2, <1>3, <1>4, <1>5 DEF SingletonNext, Internal, Conf, World

LEMMA TimingInit == Init => TimedInv /\ Timing!Init
BY DEF Init, TimedInv, At, Threads, Timing!Init, Stage

\* The object uses its timer as TimerUse says, in and between its activations:
\* request and destructor both stop it by the flag and then the Revoke, only a
\* request starts it, behind its own Revoke, and there is one chain at most of
\* entries and callbacks that schedule themselves.
THEOREM ProcessUsesTimer == ASSUME Waits PROVE SingletonSpec => UsesTimer
<1>1. Init => OneInv /\ RevokedInv
  BY InvInit, WonInit DEF Init, RevokedInv, At, Threads, OneInv, OnceInv, Within, Body
<1>2. TimingInv /\ [SingletonNext]_processVars =>
        TimingInv' /\ [Timing!Next \/ Timing!Gone]_Timing!vars
  BY OneStep, RevokedStep, TimedStep, TimingStep DEF TimingInv, OneInv
<1>3. Init => TimingInv /\ Timing!Init
  BY <1>1, TimingInit DEF TimingInv
<1> QED
  BY <1>2, <1>3, PTL DEF SingletonSpec, UsesTimer, Timing!MortalSpec
=============================================================================
