---------------------------- MODULE ShellProofs ----------------------------
(***************************************************************************)
(* Proofs about Shell, on top of those about the implementation's process: *)
(* in and out of process, with crashes at any time, for queues of any      *)
(* length and any number of activations.                                   *)
(***************************************************************************)
EXTENDS Shell, SettleProofs

\* What an activation holds, and when requests are served.
PluginInv ==
  /\ {inProcess, frontPanel, methods, process} \subseteq BOOLEAN
  /\ shell \in {"deactivated", "root", "configure", "configuring", "activated",
                "deinitialize", "release", "releasing", "terminate", "reset"}
  /\ service = IF shell = "deactivated" THEN 0 ELSE 1
  /\ connectionId \in 0..1
  /\ shell # "activated" => pc["req"] = "idle"
  /\ shell = "activated" /\ process => life = "up"

ShellInv == Inv /\ PluginInv

\* A process that has not begun, or has ended, is as good as a new one.
LEMMA InvExit == ASSUME Inv, Exit PROVE Inv' /\ pc' = [t \in Threads |-> "idle"]
<1>1. ProcessTypeOK'
  <2>1. queue' \in Seq(Modes) /\ mode' \in Modes /\ told' \in Tellings
    BY DEF Exit, Inv, ProcessTypeOK, Tellings
  <2>2. activations' \in 0..MaxActivations /\ made' \in Nat /\ manager' \in Nat
    BY BoundsAssumption DEF Exit, BoundsAssumption
  <2>3. got' \in [Threads -> Pointers'] /\ {s_instance', running'} \subseteq Pointers'
    BY DEF Exit, Pointers
  <2> QED
    BY <2>1, <2>2, <2>3 DEF Exit, ProcessTypeOK, Labels
<1>2. Placed' /\ Made'
  BY DEF Exit, Placed, Made, Calling, Threads
<1> QED
  BY <1>1, <1>2 DEF Exit, Inv, SafeInv, NoDeadUse, Calling, Threads

\* At first the plugin is deactivated.
LEMMA ShellInvInit == ShellInit => ShellInv
<1> SUFFICES ASSUME ShellInit PROVE ShellInv
  OBVIOUS
<1>1. Inv
  BY InvInit DEF ShellInit
<1>2. pc["req"] = "idle"
  BY DEF ShellInit, Init, Threads
<1>3. {inProcess, frontPanel, methods, process} \subseteq BOOLEAN
  BY DEF ShellInit
<1> QED
  BY <1>1, <1>2, <1>3 DEF ShellInit, ShellInv, PluginInv

\* What the shell does itself keeps Inv: it begins an activation or a
\* destructor, with no request under way, or ends the process.
LEMMA PluginStep ==
  ASSUME ShellInv, Waits, Drains, Activate \/ Initialize \/ Deactivate \/ Deinitialize
  PROVE  ShellInv'
<1> USE DEF ShellInv, PluginInv
<1>1. CASE Configure
  <2>1. Inv' /\ pc'["req"] = pc["req"]
    <3>1. CASE process
      <4>1. BeginConfigure /\ Goto("conf", "register")
        BY <1>1, <3>1 DEF Configure, BeginConfigure
      <4>2. Inv'
        BY <4>1, InvBegin
      <4> QED
        BY <4>1, <4>2 DEF Goto, Inv, ProcessTypeOK, Threads
    <3>2. CASE ~process
      BY <1>1, <3>2, InvStutter DEF Configure, processVars, threads
    <3> QED
      BY <3>1, <3>2
  <2> QED
    BY <1>1, <2>1 DEF Configure
<1>2. CASE ReleaseFrontPanel
  <2>1. Inv' /\ pc'["req"] = pc["req"]
    <3>1. CASE process
      <4>1. BeginDestroy /\ Goto("conf", "unregister")
        BY <1>2, <3>1 DEF ReleaseFrontPanel, BeginDestroy
      <4>2. At("req", "idle")
        BY <1>2 DEF ReleaseFrontPanel, At
      <4>3. Inv'
        BY <4>1, <4>2, InvBegin
      <4> QED
        BY <4>1, <4>3 DEF Goto, Inv, ProcessTypeOK, Threads
    <3>2. CASE ~process
      BY <1>2, <3>2, InvStutter DEF ReleaseFrontPanel, processVars, threads
    <3> QED
      BY <3>1, <3>2
  <2> QED
    BY <1>2, <2>1 DEF ReleaseFrontPanel
<1>3. CASE Terminate
  <2>1. Inv' /\ pc'["req"] = "idle" /\ process' \in BOOLEAN
    <3>1. CASE connectionId # 0 /\ process
      BY <1>3, <3>1, InvExit DEF Terminate, TerminateConnection, Threads
    <3>2. CASE ~(connectionId # 0 /\ process)
      BY <1>3, <3>2, InvStutter DEF Terminate, TerminateConnection, processVars, threads
    <3> QED
      BY <3>1, <3>2
  <2> QED
    BY <1>3, <2>1 DEF Terminate
<1>4. CASE UNCHANGED processVars /\ (Activate \/ Root \/ RootFails \/ RegisterMethods
             \/ Deactivate \/ UnregisterMethods \/ Released \/ Reset)
  <2>1. Inv' /\ UNCHANGED <<pc, life>>
    BY <1>4, InvStutter DEF processVars, threads
  <2>2. CASE Activate
    BY <2>1, <2>2 DEF Activate
  <2>3. CASE Root
    <3>1. frontPanel' \in BOOLEAN /\ process' \in BOOLEAN
      BY <2>3 DEF Root
    <3>2. connectionId' \in 0..1
      BY <2>3 DEF Root
    <3> QED
      BY <2>1, <2>3, <3>1, <3>2 DEF Root
  <2>4. CASE RootFails
    BY <2>1, <2>4 DEF RootFails
  <2>5. CASE RegisterMethods
    <3>1. methods' \in BOOLEAN
      BY <2>5 DEF RegisterMethods
    <3> QED
      BY <2>1, <2>5, <3>1 DEF RegisterMethods
  <2>6. CASE Deactivate
    BY <2>1, <2>6, Drains DEF Deactivate, At
  <2>7. CASE UnregisterMethods
    <3>1. methods' \in BOOLEAN
      BY <2>7 DEF UnregisterMethods
    <3> QED
      BY <2>1, <2>7, <3>1 DEF UnregisterMethods
  <2>8. CASE Released
    <3>1. frontPanel' \in BOOLEAN
      BY <2>8 DEF Released
    <3> QED
      BY <2>1, <2>8, <3>1 DEF Released
  <2>9. CASE Reset
    BY <2>1, <2>9 DEF Reset, ServiceReleased
  <2> QED
    BY <1>4, <2>2, <2>3, <2>4, <2>5, <2>6, <2>7, <2>8, <2>9
<1> QED
  BY <1>1, <1>2, <1>3, <1>4
  DEF Initialize, Deinitialize, Activate, Root, RootFails, RegisterMethods,
      Deactivate, UnregisterMethods, Released, Reset

\* A step of the implementation's process is one of Singleton's, and serves a
\* request only while the plugin is activated.
LEMMA ProcessStep ==
  ASSUME ShellInv, Waits, Running, Internal \/ World \/ ServeMethod
  PROVE  ShellInv'
<1>1. Inv'
  BY InvStep DEF ShellInv, SingletonNext, ServeMethod
<1>2. UNCHANGED pluginVars
  BY DEF Running
<1>3. pc \in [Threads -> Labels] /\ {"conf", "note", "req"} = Threads
  BY DEF ShellInv, Inv, ProcessTypeOK, Threads
<1>4. ASSUME shell # "activated" PROVE pc'["req"] = "idle"
  <2>1. pc["req"] = "idle" /\ ~Serve /\ ~ServeMethod /\ ~Instance("req")
    BY <1>4 DEF ShellInv, PluginInv, Serve, StopBlinkTimer, Revoke, Arm, Schedule, ServeMethod,
       Instance, Enter, Connect, Make, New, InitializeDs, ReadPower, SetPower, Done, Return, At
  <2>2. CASE \E t \in Threads : Instance(t)
    <3>1. PICK t \in Threads : Instance(t) /\ t # "req"
      BY <2>1, <2>2
    <3>2. PICK label : Goto(t, label)
      BY <3>1 DEF Instance, Enter, Connect, Make, New, InitializeDs, ReadPower, SetPower,
         Done, Return
    <3> QED
      BY <2>1, <3>1, <3>2, <1>3 DEF Goto
  <2>3. CASE Conf \/ SetPowerStatus \/ Deliver
    <3>1. PICK t \in {"conf", "note"} : \E label \in Labels : Goto(t, label)
      BY <2>3 DEF Conf, Register, Start, AddEventObserver, Unregister, StopBlinkTimer, Revoke,
         Delete, DeInitializeDs, SetPowerStatus, Finish, Deliver, Labels
    <3> QED
      BY <2>1, <3>1, <1>3 DEF Goto
  <2>4. CASE Callback \/ ChangeMode \/ Fire
    BY <2>1, <2>4 DEF Callback, Tick, Reschedule, ChangeMode, Fire, threads
  <2> QED
    BY <2>1, <2>2, <2>3, <2>4 DEF Internal, World
<1>5. ASSUME shell = "activated" PROVE life' = "up"
  <2>1. life = "up" /\ pc["conf"] = "idle"
    BY <1>5 DEF ShellInv, PluginInv, Running, Inv, SafeInv, Placed
  <2>2. ~Conf
    BY <2>1 DEF Conf, Register, Start, AddEventObserver, Unregister, StopBlinkTimer, Revoke,
       Delete, DeInitializeDs, At
  <2>3. CASE \E t \in Threads : Instance(t)
    BY <2>1, <2>3 DEF Instance, Enter, Connect, Make, New, InitializeDs, ReadPower, SetPower,
       Done, Return
  <2>4. CASE SetPowerStatus \/ Serve \/ Callback \/ World \/ ServeMethod
    BY <2>1, <2>4 DEF SetPowerStatus, Serve, StopBlinkTimer, Revoke, Arm, Schedule,
       Callback, Tick, Reschedule, World, ChangeMode, Deliver, Fire, ServeMethod, Request,
       threads
  <2> QED
    BY <2>2, <2>3, <2>4 DEF Internal
<1> QED
  BY <1>1, <1>2, <1>4, <1>5 DEF ShellInv, PluginInv, pluginVars

\* A crash leaves nothing of the process.
LEMMA CrashStep == ASSUME ShellInv, Crash PROVE ShellInv'
<1>1. Inv' /\ pc'["req"] = "idle"
  BY InvExit DEF Crash, ShellInv, Threads
<1> QED
  BY <1>1 DEF Crash, ShellInv, PluginInv

\* ShellInv depends on the variables only.
LEMMA ShellStutter == ASSUME ShellInv, UNCHANGED vars PROVE ShellInv'
BY InvStutter DEF ShellInv, PluginInv, vars, pluginVars, processVars, threads

\* ShellInv is inductive.
LEMMA ShellAlways == ASSUME Waits, Drains PROVE Spec => []ShellInv
<1>1. ShellInv /\ [Next]_vars => ShellInv'
  BY ShellStutter, PluginStep, ProcessStep, CrashStep DEF Next
<1> QED
  BY <1>1, ShellInvInit, PTL DEF Spec

\* The variables of the plugin and of the process keep their types: one
\* reference to the service at most, and never less than none.
THEOREM ShellTypes == ASSUME Waits, Drains PROVE Spec => []TypeOK
<1>1. ShellInv => TypeOK
  BY DEF ShellInv, PluginInv, Inv, TypeOK
<1> QED
  BY <1>1, ShellAlways, PTL

\* Nobody uses a deleted object or the null pointer, in or out of process,
\* through any activations, deactivations and crashes.
THEOREM ShellSafe == ASSUME Waits, Drains PROVE Spec => []NoDeadUse
<1>1. ShellInv => NoDeadUse
  BY DEF ShellInv, Inv, SafeInv
<1> QED
  BY <1>1, ShellAlways, PTL

\* An activated plugin whose process runs has an instance behind every method,
\* and has called device settings' Initialize, with or without success.
THEOREM ShellWorks == ASSUME Waits, Drains PROVE Spec => []Working
<1>1. ShellInv => Working
  BY DEF ShellInv, PluginInv, Inv, SafeInv, Placed, Made, Working
<1> QED
  BY <1>1, ShellAlways, PTL

-----------------------------------------------------------------------------
(***************************************************************************)
(* What an activation leaves behind.                                       *)
(***************************************************************************)
\* Which of the things that Deinitialize gives back are held, where.
Ended == shell \in {"deactivated", "root", "reset"} \/ (shell = "deinitialize" /\ ~frontPanel)
HeldInv ==
  /\ shell \in {"configure", "configuring", "activated", "release", "releasing"} => frontPanel
  /\ frontPanel => shell \in {"configure", "configuring", "activated",
                              "deinitialize", "release", "releasing"}
  /\ methods => shell \in {"activated", "deinitialize"}
  /\ inProcess => process /\ connectionId = 0
  /\ ~inProcess /\ process => connectionId # 0
  /\ shell \in {"deactivated", "root"} => connectionId = 0
  /\ Ended => process = inProcess
  /\ ~process \/ Ended \/ shell \in {"configure", "terminate"} => life = "down"

LeftInv == ShellInv /\ OnceInv /\ HeldInv

\* A new process has made nothing.
LEMMA OnceExit == ASSUME Exit PROVE OnceInv' /\ life' = "down"
BY DEF Exit, OnceInv, Within, Body, Threads

\* At first nothing is held.
LEMMA LeftInit == ShellInit => LeftInv
<1> SUFFICES ASSUME ShellInit PROVE LeftInv
  OBVIOUS
<1>1. HeldInv
  BY DEF ShellInit, Init, HeldInv, Ended
<1> QED
  BY <1>1, ShellInvInit, OnceInit DEF ShellInit, LeftInv

\* Nothing but the shell brings an implementation to life.
LEMMA StaysDown ==
  ASSUME Inv, life = "down", Internal \/ World \/ ServeMethod PROVE life' = "down"
<1>1. pc["conf"] = "idle"
  BY DEF Inv, SafeInv, Placed
<1>2. ~Conf
  BY <1>1 DEF Conf, Register, Start, AddEventObserver, Unregister, StopBlinkTimer, Revoke,
     Delete, DeInitializeDs, At
<1>3. CASE \E t \in Threads : Instance(t)
  BY <1>3 DEF Instance, Enter, Connect, Make, New, InitializeDs, ReadPower, SetPower, Done, Return
<1>4. CASE SetPowerStatus \/ Serve \/ Callback \/ World \/ ServeMethod
  BY <1>4 DEF SetPowerStatus, Serve, StopBlinkTimer, Revoke, Arm, Schedule, Callback, Tick,
     Reschedule, World, ChangeMode, Deliver, Fire, ServeMethod, Request, threads
<1> QED
  BY <1>2, <1>3, <1>4 DEF Internal

\* Each of the shell's own steps takes or gives back one thing.
LEMMA LeftPlugin ==
  ASSUME LeftInv, Waits, Activate \/ Initialize \/ Deactivate \/ Deinitialize
  PROVE  OnceInv' /\ HeldInv'
<1> USE DEF LeftInv, HeldInv, Ended
<1>1. CASE Configure
  <2>1. CASE process
    <3>1. BeginConfigure /\ life' = "configuring"
      BY <1>1, <2>1 DEF Configure, BeginConfigure
    <3>2. OnceInv'
      BY <3>1, OnceOthers DEF ShellInv
    <3> QED
      BY <1>1, <2>1, <3>1, <3>2 DEF Configure
  <2>2. CASE ~process
    <3>1. UNCHANGED processVars
      BY <1>1, <2>2 DEF Configure
    <3>2. OnceInv' /\ life' = life
      BY <3>1, OnceStep DEF ShellInv, processVars, threads
    <3> QED
      BY <1>1, <2>2, <3>2 DEF Configure
  <2> QED
    BY <2>1, <2>2
<1>2. CASE ReleaseFrontPanel
  <2>1. CASE process
    <3>1. BeginDestroy
      BY <1>2, <2>1 DEF ReleaseFrontPanel
    <3>2. OnceInv'
      BY <3>1, OnceOthers DEF ShellInv
    <3> QED
      BY <1>2, <2>1, <3>2 DEF ReleaseFrontPanel
  <2>2. CASE ~process
    <3>1. UNCHANGED processVars
      BY <1>2, <2>2 DEF ReleaseFrontPanel
    <3>2. OnceInv' /\ life' = life
      BY <3>1, OnceStep DEF ShellInv, processVars, threads
    <3> QED
      BY <1>2, <2>2, <3>2 DEF ReleaseFrontPanel
  <2> QED
    BY <2>1, <2>2
<1>3. CASE Terminate
  <2>1. CASE connectionId # 0 /\ process
    <3>1. OnceInv' /\ life' = "down" /\ process' = FALSE
      BY <1>3, <2>1, OnceExit DEF Terminate, TerminateConnection
    <3> QED
      BY <1>3, <2>1, <3>1 DEF Terminate, ShellInv, PluginInv
  <2>2. CASE ~(connectionId # 0 /\ process)
    <3>1. UNCHANGED processVars /\ process' = process
      BY <1>3, <2>2 DEF Terminate, TerminateConnection
    <3>2. OnceInv' /\ life' = life
      BY <3>1, OnceStep DEF ShellInv, processVars, threads
    <3>3. process = inProcess
      BY <2>2 DEF ShellInv, PluginInv
    <3> QED
      BY <1>3, <2>2, <3>1, <3>2, <3>3 DEF Terminate
  <2> QED
    BY <2>1, <2>2
<1>4. CASE UNCHANGED processVars /\ (Activate \/ Root \/ RootFails \/ RegisterMethods
             \/ Deactivate \/ UnregisterMethods \/ Released \/ Reset)
  <2>1. OnceInv' /\ life' = life
    BY <1>4, OnceStep DEF ShellInv, processVars, threads
  <2>2. CASE Activate
    BY <2>1, <2>2 DEF Activate
  <2>3. CASE Root
    BY <2>1, <2>3 DEF Root, ShellInv, PluginInv
  <2>4. CASE RootFails
    BY <2>1, <2>4 DEF RootFails
  <2>5. CASE RegisterMethods
    BY <2>1, <2>5 DEF RegisterMethods
  <2>6. CASE Deactivate
    BY <2>1, <2>6 DEF Deactivate
  <2>7. CASE UnregisterMethods
    BY <2>1, <2>7 DEF UnregisterMethods
  <2>8. CASE Released
    BY <2>1, <2>8 DEF Released
  <2>9. CASE Reset
    BY <2>1, <2>9 DEF Reset, ShellInv, PluginInv
  <2> QED
    BY <1>4, <2>2, <2>3, <2>4, <2>5, <2>6, <2>7, <2>8, <2>9
<1> QED
  BY <1>1, <1>2, <1>3, <1>4
  DEF Initialize, Deinitialize, Activate, Root, RootFails, RegisterMethods,
      Deactivate, UnregisterMethods, Released, Reset

\* A step of the implementation's process holds and frees nothing of the shell's.
LEMMA LeftProcess ==
  ASSUME LeftInv, Waits, Running, Internal \/ World \/ ServeMethod
  PROVE  OnceInv' /\ HeldInv'
<1>1. OnceInv'
  BY OnceStep DEF LeftInv, ShellInv, SingletonNext, ServeMethod
<1>2. life = "down" => life' = "down"
  BY StaysDown DEF LeftInv, ShellInv
<1> QED
  BY <1>1, <1>2 DEF Running, pluginVars, LeftInv, HeldInv, Ended

\* LeftInv is inductive.
LEMMA LeftAlways == ASSUME Waits, Drains PROVE Spec => []LeftInv
<1>1. ASSUME LeftInv, [Next]_vars PROVE LeftInv'
  <2>1. ShellInv'
    BY <1>1, ShellStutter, PluginStep, ProcessStep, CrashStep DEF LeftInv, Next
  <2>2. OnceInv' /\ HeldInv'
    <3>1. CASE Crash
      BY <1>1, <3>1, OnceExit DEF Crash, LeftInv, HeldInv, Ended
    <3>2. CASE UNCHANGED vars
      BY <1>1, <3>2, OnceStep DEF LeftInv, HeldInv, Ended, ShellInv, vars, pluginVars,
         processVars, threads
    <3> QED
      BY <1>1, <3>1, <3>2, LeftPlugin, LeftProcess DEF Next
  <2> QED
    BY <2>1, <2>2 DEF LeftInv
<1> QED
  BY <1>1, LeftInit, PTL DEF Spec

\* Below the shell too, whatever is counted on is there, and instance() makes
\* one object and calls Initialize once, unless two threads meet.
THEOREM ShellMakesOnce == ASSUME Waits, Drains PROVE Spec => [](SafeInv /\ OnceInv)
<1>1. LeftInv => SafeInv /\ OnceInv
  BY DEF LeftInv, ShellInv, Inv
<1> QED
  BY <1>1, LeftAlways, PTL

\* A deactivation undoes its activation, for any number of them, whichever of
\* Root, the other process and the calls in instance() fails and when; of device
\* settings, that DeInitialize is called as often as Initialize was.
THEOREM ShellLeavesNothing == ASSUME Waits, Drains PROVE Spec => []NothingLeft
<1>1. ASSUME LeftInv, shell = "deactivated"
      PROVE  /\ service = 0 /\ ~frontPanel /\ connectionId = 0 /\ ~methods
             /\ process = inProcess /\ life = "down"
  BY <1>1 DEF LeftInv, ShellInv, PluginInv, HeldInv, Ended
<1>2. ASSUME LeftInv, life = "down"
      PROVE  ~registered /\ \A t \in Threads : pc[t] = "idle"
  BY <1>2 DEF LeftInv, ShellInv, Inv, SafeInv, Placed, Threads
<1>3. ASSUME LeftInv, life = "down", ~raced
      PROVE  /\ alive = {} /\ s_instance = 0 /\ manager = 0 /\ ~initDone
             /\ entries = {} /\ running = 0
  <2>1. s_instance = 0 /\ ~initDone /\ alive = {}
    BY <1>3 DEF LeftInv, OnceInv
  <2>2. manager = 0
    BY <1>2, <1>3, <2>1 DEF LeftInv, OnceInv
  <2> QED
    BY <1>3, <2>1, <2>2 DEF LeftInv, ShellInv, Inv, SafeInv
<1>4. LeftInv => NothingLeft
  BY <1>1, <1>2, <1>3 DEF NothingLeft
<1> QED
  BY <1>4, LeftAlways, PTL

-----------------------------------------------------------------------------
(***************************************************************************)
(* Below the shell a process runs that does what Singleton says until it   *)
(* ends, hence what is proved of Singleton alone holds here.               *)
(***************************************************************************)
LEMMA ProcessRuns ==
  ASSUME ShellInv, Drains, [Next]_vars PROVE [SingletonNext]_processVars \/ Exit
<1>1. CASE UNCHANGED vars
  BY <1>1 DEF vars
<1>2. CASE Crash
  BY <1>2 DEF Crash
<1>3. CASE Running /\ (Internal \/ World \/ ServeMethod)
  BY <1>3 DEF SingletonNext, ServeMethod
<1>4. CASE Configure
  BY <1>4 DEF Configure, SingletonNext
<1>5. CASE ReleaseFrontPanel
  BY <1>5 DEF ReleaseFrontPanel, ShellInv, PluginInv, At, SingletonNext
<1>6. CASE Terminate
  BY <1>6 DEF Terminate, TerminateConnection
<1>7. CASE Activate \/ Root \/ RootFails \/ RegisterMethods \/ Deactivate
           \/ UnregisterMethods \/ Released \/ Reset
  BY <1>7 DEF Activate, Root, RootFails, RegisterMethods, Deactivate, UnregisterMethods,
     Released, Reset
<1> QED
  BY <1>1, <1>2, <1>3, <1>4, <1>5, <1>6, <1>7 DEF Next, Initialize, Deinitialize

\* In and out of process, through all activations, deactivations and crashes,
\* the process does what Singleton says until it ends and starts afresh: the
\* shell never configures twice, never destroys what a request still uses, and
\* never serves a request of an implementation that is not up.
THEOREM ShellImplementsProcess ==
  ASSUME Waits, Drains PROVE Spec => Init /\ [][SingletonNext \/ Exit]_processVars
<1>1. ShellInv /\ [Next]_vars => [SingletonNext \/ Exit]_processVars
  BY ProcessRuns
<1>2. ShellInit => Init
  BY DEF ShellInit
<1> QED
  BY <1>1, <1>2, ShellAlways, PTL DEF Spec

\* Both arguments of SettleProofs start anew with a process.
LEMMA SettledExit == ASSUME Exit PROVE WonInv' /\ PowerInv'
BY DEF Exit, WonInv, PowerInv, Alone, Threads

LEMMA SettledAlways == ASSUME Waits, Drains PROVE Spec => [](WonInv /\ PowerInv)
<1>1. LeftInv /\ WonInv /\ PowerInv /\ [Next]_vars => WonInv' /\ PowerInv'
  <2> SUFFICES ASSUME LeftInv, WonInv, PowerInv, [Next]_vars PROVE WonInv' /\ PowerInv'
    OBVIOUS
  <2>1. OneInv /\ ShellInv
    BY DEF LeftInv, ShellInv, OneInv
  <2> QED
    BY <2>1, ProcessRuns, WonStep, PowerStep, SettledExit
<1>2. ShellInit => WonInv /\ PowerInv
  BY WonInit, PowerInit DEF ShellInit
<1> QED
  BY <1>1, <1>2, LeftAlways, PTL DEF Spec

\* After a request that wants no pattern nothing is in the timer.
THEOREM ShellStops == ASSUME Waits, Drains PROVE Spec => []LastRequestWins
<1>1. WonInv => LastRequestWins
  BY DEF WonInv, LastRequestWins, At
<1> QED
  BY <1>1, SettledAlways, PTL

\* Once the notifications are noted the power status is right, in a process's
\* first activation and in every one that has had a notification.
THEOREM ShellSettles == ASSUME Waits, Drains PROVE Spec => []PowerSettled
<1>1. LeftInv /\ PowerInv => PowerSettled
  BY PowerInvSettles DEF LeftInv, ShellInv, OneInv
<1> QED
  BY <1>1, LeftAlways, SettledAlways, PTL

\* No activation that was told of PowerManager's mode misses that it is ON,
\* whatever the activations, deactivations and crashes before it have left in the
\* process.
THEOREM ShellKnowsOn == ASSUME Waits, Drains PROVE Spec => []OnIsKnown
<1>1. LeftInv /\ PowerInv => OnIsKnown
  BY PowerInvSettles DEF LeftInv, ShellInv, OneInv
<1> QED
  BY <1>1, LeftAlways, SettledAlways, PTL

\* With the process everything that PowerFollow sees ends, except the mode.
LEMMA FollowingExit == ASSUME Exit PROVE [Follow!Next]_Follow!vars
<1>1. ~Following' /\ mode' = mode
  BY DEF Exit, Following
<1> QED
  BY <1>1, NotFollowing

\* Each activation follows PowerManager as PowerFollow does, with an answer of
\* GetPowerState or without one, until two threads
\* meet in instance(), the plugin is deactivated or the process crashes; the first
\* one in a process does so with nothing left from before.
THEOREM ShellFollows == ASSUME Waits, Drains PROVE Spec => FollowsPower
<1>1. LeftInv /\ PowerInv /\ [Next]_vars => [Follow!Next]_Follow!vars
  <2> SUFFICES ASSUME LeftInv, PowerInv, [Next]_vars PROVE [Follow!Next]_Follow!vars
    OBVIOUS
  <2>1. FollowingInv /\ ShellInv
    BY DEF LeftInv, ShellInv, OneInv, FollowingInv
  <2> QED
    BY <2>1, ProcessRuns, FollowingStep, FollowingExit
<1>2. ShellInit => Follow!Init
  BY FollowingInit DEF ShellInit
<1> QED
  BY <1>1, <1>2, LeftAlways, SettledAlways, PTL DEF Spec, FollowsPower, Follow!Spec

\* Revoke in a request and in the destructor comes to its turn: the deactivation
\* is kept waiting by nothing but what the timer already has of the object.
THEOREM ShellRevokes == ASSUME Waits, Drains PROVE Spec => RevokeNears
<1>1. ShellInv /\ RevokedInv /\ [Next]_vars => RevokedInv' /\ [Nears]_processVars
  <2> SUFFICES ASSUME ShellInv, RevokedInv, [Next]_vars
               PROVE  RevokedInv' /\ [Nears]_processVars
    OBVIOUS
  <2>1. CASE [SingletonNext]_processVars
    BY <2>1, RevokedStep, NearsStep DEF ShellInv
  <2>2. CASE Exit
    BY <2>2 DEF Exit, RevokedInv, Nears, At, Threads
  <2> QED
    BY <2>1, <2>2, ProcessRuns
<1>2. ShellInit => RevokedInv
  BY DEF ShellInit, Init, RevokedInv, At, Threads
<1> QED
  BY <1>1, <1>2, ShellAlways, PTL DEF Spec, RevokeNears, Nears

\* With the process its timer is gone.
LEMMA TimedExit == ASSUME Exit PROVE TimedInv' /\ RevokedInv' /\ Timing!Gone
BY DEF Exit, TimedInv, RevokedInv, At, Threads, Timing!Gone, Timing!Init, Stage

\* Each process uses its timer as TimerUse says, with the activations and the
\* deactivations that Thunder makes and wherever it crashes.
THEOREM ShellUsesTimer == ASSUME Waits, Drains PROVE Spec => UsesTimer
<1>1. LeftInv /\ RevokedInv /\ TimedInv /\ [Next]_vars =>
        RevokedInv' /\ TimedInv' /\ [Timing!Next \/ Timing!Gone]_Timing!vars
  <2> SUFFICES ASSUME LeftInv, RevokedInv, TimedInv, [Next]_vars
               PROVE  /\ RevokedInv' /\ TimedInv'
                      /\ [Timing!Next \/ Timing!Gone]_Timing!vars
    OBVIOUS
  <2>1. TimingInv /\ ShellInv /\ Inv
    BY DEF LeftInv, ShellInv, OneInv, TimingInv
  <2>2. CASE [SingletonNext]_processVars
    BY <2>1, <2>2, RevokedStep, TimedStep, TimingStep
  <2>3. CASE Exit
    BY <2>3, TimedExit
  <2> QED
    BY <2>1, <2>2, <2>3, ProcessRuns
<1>2. ShellInit => RevokedInv /\ TimedInv /\ Timing!Init
  BY TimingInit DEF ShellInit, Init, RevokedInv, At, Threads
<1> QED
  BY <1>1, <1>2, LeftAlways, PTL DEF Spec, UsesTimer, Timing!MortalSpec
=============================================================================
