----------------------------- MODULE Singleton -----------------------------
(***************************************************************************)
(* The life of CFrontPanel, the singleton in one process: instance(),      *)
(* deinitialize() and whoever runs into them.  Three threads do:           *)
(*    conf  the plugin shell's: Configure and the destructor,              *)
(*    note  PowerManager's notification,                                   *)
(*    req   a request,                                                     *)
(* and blinkTimer calls back the object that an entry belongs to.  None of *)
(* them takes a lock; an action is a statement that touches what another   *)
(* thread can see.  What the LEDs show is left to Panel, what a pattern    *)
(* shows to Blink.                                                         *)
(***************************************************************************)
EXTENDS Integers, Sequences, FiniteSets

CONSTANTS RevokeWaits,      \* TimerType::Revoke waits for a callback that runs
          UnregisterWaits,  \* so does PowerManager's Unregister for a notification
          MaxQueue,         \* bound: notifications on their way
          MaxActivations    \* bound: activations in one process

ASSUME WaitsAssumption == RevokeWaits \in BOOLEAN /\ UnregisterWaits \in BOOLEAN
ASSUME BoundsAssumption == MaxQueue \in Nat /\ MaxActivations \in Nat

VARIABLES
  initDone, powerStatus,
  s_instance,   \* the object, or 0 for the null pointer
  plugin,       \* the static _powerManagerPlugin is set
  manager,      \* calls of device::Manager's Initialize less those of its
                \* DeInitialize, of the calls that throw too
  alive, made,  \* the objects that exist; how many were ever made
  isBlinking,   \* the objects with m_isBlinking
  entries,      \* the objects with an entry in blinkTimer
  running,      \* the object whose callback runs, or 0
  scheduling,   \* that callback is past its test of m_isBlinking, and goes on
  pc, got,      \* where each thread is, and the pointer that it holds
  life,         \* what the conf thread is about
  registered,   \* for notifications: _registeredEventHandlers
  mode, queue,  \* PowerManager's mode, its notifications on their way
  told,         \* what PowerManager has told of its mode, until Unregister
  activations,  \* in this process
  blinkWanted,  \* the last request was for a pattern
  raced,        \* two threads have been in the body of instance() at a time
  faulted       \* a pointer was used that is null, or whose object is deleted

statics == <<initDone, powerStatus, s_instance, plugin, manager>>
objects == <<alive, made>>
blinkTimer == <<isBlinking, entries, running, scheduling>>
threads == <<pc, got, life>>
notifying == <<registered, mode, queue>>
history == <<told, activations, blinkWanted, raced, faulted>>
processVars == <<statics, objects, blinkTimer, threads, notifying, history>>

Threads == {"conf", "note", "req"}
Modes == {"ON", "STANDBY"}
Tellings == {"nothing", "unanswered", "answer", "notification"}
Body == {"connect", "make", "new", "ds", "read", "set", "done"}
Labels == Body \cup {"idle", "instance", "return", "setPowerStatus",
  "stop", "revoke", "arm", "schedule",
  "register", "start", "observe", "unregister", "delete", "release"}

Init ==
  /\ initDone = FALSE /\ powerStatus = FALSE /\ s_instance = 0
  /\ plugin = FALSE /\ manager = 0
  /\ alive = {} /\ made = 0 /\ isBlinking = {} /\ entries = {} /\ running = 0
  /\ scheduling = FALSE
  /\ pc = [t \in Threads |-> "idle"] /\ got = [t \in Threads |-> 0] /\ life = "down"
  /\ registered = FALSE /\ mode \in Modes /\ queue = <<>>
  /\ told = "nothing" /\ activations = 0 /\ blinkWanted = FALSE
  /\ raced = FALSE /\ faulted = FALSE

\* The process ends, by Terminate or by a crash; the next one starts afresh.
Exit ==
  /\ initDone' = FALSE /\ powerStatus' = FALSE /\ s_instance' = 0
  /\ plugin' = FALSE /\ manager' = 0
  /\ alive' = {} /\ made' = 0 /\ isBlinking' = {} /\ entries' = {} /\ running' = 0
  /\ scheduling' = FALSE
  /\ pc' = [t \in Threads |-> "idle"] /\ got' = [t \in Threads |-> 0] /\ life' = "down"
  /\ registered' = FALSE /\ queue' = <<>> /\ mode' = mode
  /\ told' = "nothing" /\ activations' = 0 /\ blinkWanted' = FALSE
  /\ raced' = FALSE /\ faulted' = FALSE

At(t, label) == pc[t] = label
Goto(t, label) == pc' = [pc EXCEPT ![t] = label]

\* The caller returns, and what it has got from instance() is gone with it.
Finish(t) == Goto(t, "idle") /\ got' = [got EXCEPT ![t] = 0]

\* told is not kept any longer when two threads have met in instance().
Tell(what) == told' = IF raced THEN told ELSE what

\* A member function is called, or a member touched.
Use(o) == faulted' = (faulted \/ o \notin alive)

(***************************************************************************)
(* CFrontPanel::instance.  Only conf brings the service along.  Reading    *)
(* the brightness and setting the LEDs is Panel's part of it.              *)
(***************************************************************************)
Enter(t) ==
  /\ At(t, "instance")
  /\ Goto(t, IF initDone THEN "return" ELSE IF t = "conf" THEN "connect" ELSE "make")
  /\ raced' = (raced \/ (~initDone /\ \E u \in Threads \ {t} : pc[u] \in Body))
  /\ UNCHANGED <<statics, objects, blinkTimer, got, life, notifying,
                 told, activations, blinkWanted, faulted>>

\* 25 tries to reach PowerManager, as many as InitializePowerManager had before
\* (Register), and no less or more likely to succeed
Connect(t) ==
  /\ At(t, "connect")
  /\ plugin' \in BOOLEAN
  /\ Goto(t, "make")
  /\ UNCHANGED <<initDone, powerStatus, s_instance, manager, objects, blinkTimer,
                 got, life, notifying, history>>

Make(t) ==
  /\ At(t, "make")
  /\ Goto(t, IF s_instance = 0 THEN "new" ELSE "ds")
  /\ UNCHANGED <<statics, objects, blinkTimer, got, life, notifying, history>>

New(t) ==
  /\ At(t, "new")
  /\ made' = made + 1 /\ alive' = alive \cup {made'} /\ s_instance' = made'
  /\ Goto(t, "ds")
  /\ UNCHANGED <<initDone, powerStatus, plugin, manager, blinkTimer, got, life,
                 notifying, history>>

\* Initialize or getIndicators throws: the handler is the end of what instance()
\* does, and initDone is set all the same
InitializeDs(t) ==
  /\ At(t, "ds")
  /\ manager' = manager + 1
  /\ \/ Goto(t, "read") /\ UNCHANGED told
     \/ Goto(t, "done") /\ Tell("unanswered")
  /\ UNCHANGED <<initDone, powerStatus, s_instance, plugin, objects, blinkTimer,
                 got, life, notifying, activations, blinkWanted, raced, faulted>>

PowerUnread == FALSE                                   \* mutant: the answer not looked at
PowerIsOn == mode = "ON"

\* The answer is in a local variable before powerStatus is set, and only ever
\* set to true.  There is none without the plugin, or with an error.
ReadPower(t) ==
  /\ At(t, "read")
  /\ \/ /\ plugin /\ Tell("answer")
        /\ Goto(t, IF PowerIsOn THEN "set" ELSE "done")
     \/ Goto(t, "done") /\ Tell("unanswered")
  /\ UNCHANGED <<statics, objects, blinkTimer, got, life, notifying,
                 activations, blinkWanted, raced, faulted>>

SetPower(t) ==
  /\ At(t, "set")
  /\ powerStatus' = TRUE
  /\ Goto(t, "done")
  /\ UNCHANGED <<initDone, s_instance, plugin, manager, objects, blinkTimer, got,
                 life, notifying, history>>

Done(t) ==
  /\ At(t, "done")
  /\ initDone' = TRUE
  /\ Goto(t, "return")
  /\ UNCHANGED <<powerStatus, s_instance, plugin, manager, objects, blinkTimer, got,
                 life, notifying, history>>

\* what the caller does with the pointer
Caller(t) ==
  CASE t = "conf" -> IF life = "configuring" THEN "start" ELSE "stop"
    [] t = "note" -> "setPowerStatus"
    [] t = "req"  -> "stop"

Return(t) ==
  /\ At(t, "return")
  /\ got' = [got EXCEPT ![t] = s_instance]
  /\ Goto(t, Caller(t))
  /\ UNCHANGED <<statics, objects, blinkTimer, life, notifying, history>>

Instance(t) ==
  \/ Enter(t) \/ Connect(t) \/ Make(t) \/ New(t) \/ InitializeDs(t)
  \/ ReadPower(t) \/ SetPower(t) \/ Done(t) \/ Return(t)

(***************************************************************************)
(* PowerManager                                                            *)
(***************************************************************************)
ChangeMode ==
  /\ Len(queue) < MaxQueue
  /\ mode' \in Modes \ {mode}
  /\ queue' = IF registered THEN Append(queue, mode') ELSE queue
  /\ UNCHANGED <<statics, objects, blinkTimer, threads, registered, history>>

\* OnPowerModeChanged begins; the mode stays at the head of the queue until it
\* is noted
Deliver ==
  /\ At("note", "idle") /\ registered /\ queue # <<>>
  /\ Goto("note", "instance")
  /\ UNCHANGED <<statics, objects, blinkTimer, got, life, notifying, history>>

TheOtherMode(m) == IF m = "ON" THEN "STANDBY" ELSE "ON"   \* mutant: currentState taken
NewState(m) == m

SetPowerStatus ==
  /\ At("note", "setPowerStatus")
  /\ Use(got["note"])
  /\ powerStatus' = (NewState(Head(queue)) = "ON")
  /\ queue' = Tail(queue) /\ Tell("notification")
  /\ Finish("note")
  /\ UNCHANGED <<initDone, s_instance, plugin, manager, objects, blinkTimer, life,
                 registered, mode, activations, blinkWanted, raced>>

(***************************************************************************)
(* stopBlinkTimer of the object that a thread has got, and the timer       *)
(***************************************************************************)
StopBlinkTimer(t, o) ==
  /\ At(t, "stop")
  /\ Use(o)
  /\ isBlinking' = isBlinking \ {o}
  /\ Goto(t, "revoke")
  /\ UNCHANGED <<statics, objects, entries, running, scheduling, got, life, notifying,
                 told, activations, blinkWanted, raced>>

RevokeNothing(o) == UNCHANGED entries                  \* mutant: no Revoke
\* entries are equal when their object is
RevokeEntries(o) == (RevokeWaits => running # o) /\ entries' = entries \ {o}

Revoke(t, o, label) ==
  /\ At(t, "revoke")
  /\ RevokeEntries(o)
  /\ IF label = "idle" THEN Finish(t) ELSE Goto(t, label) /\ UNCHANGED got
  /\ UNCHANGED <<statics, objects, isBlinking, running, scheduling, life, notifying,
                 history>>

Fire ==
  /\ running = 0 /\ running' \in entries
  /\ entries' = entries \ {running'}
  /\ UNCHANGED <<statics, objects, isBlinking, scheduling, threads, notifying, history>>

OnAndOn(o) == TRUE                                     \* mutant: m_isBlinking not asked
StillBlinking(o) == o \in isBlinking

\* onBlinkTimer up to its test of m_isBlinking, which ends the pattern
Tick ==
  /\ running # 0 /\ ~scheduling
  /\ Use(running)
  /\ \/ running' = 0 /\ UNCHANGED scheduling
     \/ StillBlinking(running) /\ scheduling' = TRUE /\ UNCHANGED running
  /\ UNCHANGED <<statics, objects, isBlinking, entries, threads, notifying,
                 told, activations, blinkWanted, raced>>

\* or has it schedule itself again, whatever has become of m_isBlinking since
Reschedule ==
  /\ running # 0 /\ scheduling
  /\ Use(running)
  /\ entries' = entries \cup {running}
  /\ running' = 0 /\ scheduling' = FALSE
  /\ UNCHANGED <<statics, objects, isBlinking, threads, notifying,
                 told, activations, blinkWanted, raced>>

Callback == Tick \/ Reschedule

(***************************************************************************)
(* A request: every one stops the blinking, setBlink starts it again.      *)
(***************************************************************************)
Request ==
  /\ life = "up" /\ At("req", "idle")
  /\ blinkWanted' \in BOOLEAN
  /\ Goto("req", "instance")
  /\ UNCHANGED <<statics, objects, blinkTimer, got, life, notifying,
                 told, activations, raced, faulted>>

Arm ==
  /\ At("req", "arm")
  /\ Use(got["req"])
  /\ isBlinking' = isBlinking \cup {got["req"]}
  /\ Goto("req", "schedule")
  /\ UNCHANGED <<statics, objects, entries, running, scheduling, got, life, notifying,
                 told, activations, blinkWanted, raced>>

\* shows the first element and schedules the callback, if there is an element
Schedule ==
  /\ At("req", "schedule")
  /\ entries' \in {entries, entries \cup {got["req"]}}
  /\ Finish("req")
  /\ UNCHANGED <<statics, objects, isBlinking, running, scheduling, life, notifying,
                 history>>

Serve ==
  \/ StopBlinkTimer("req", got["req"])
  \/ Revoke("req", got["req"], IF blinkWanted THEN "arm" ELSE "idle")
  \/ Arm \/ Schedule

(***************************************************************************)
(* Configure: InitializePowerManager, which may not reach PowerManager,     *)
(* then instance(service), and two more calls of instance() that find the  *)
(* work done.                                                              *)
(***************************************************************************)
BeginConfigure ==
  /\ life = "down" /\ activations < MaxActivations
  /\ life' = "configuring" /\ activations' = activations + 1
  /\ Goto("conf", "register")
  /\ UNCHANGED <<statics, objects, blinkTimer, got, notifying,
                 told, blinkWanted, raced, faulted>>

Register ==
  /\ At("conf", "register")
  /\ registered' \in BOOLEAN
  /\ Goto("conf", "instance")
  /\ UNCHANGED <<statics, objects, blinkTimer, got, life, mode, queue, history>>

Start ==
  /\ At("conf", "start")
  /\ Use(s_instance)
  /\ Goto("conf", "observe")
  /\ UNCHANGED <<statics, objects, blinkTimer, got, life, notifying,
                 told, activations, blinkWanted, raced>>

AddEventObserver ==
  /\ At("conf", "observe")
  /\ Use(s_instance)
  /\ Goto("conf", "idle")
  /\ life' = "up"
  /\ UNCHANGED <<statics, objects, blinkTimer, got, notifying,
                 told, activations, blinkWanted, raced>>

(***************************************************************************)
(* ~FrontPanelImplementation and deinitialize, which is static: stop() is  *)
(* called on whatever s_instance is.                                       *)
(***************************************************************************)
BeginDestroy ==
  /\ life = "up"
  /\ life' = "destroying"
  /\ Goto("conf", "unregister")
  /\ UNCHANGED <<statics, objects, blinkTimer, got, notifying, history>>

Unregister ==
  /\ At("conf", "unregister")
  /\ registered /\ UnregisterWaits => At("note", "idle")
  /\ registered' = FALSE /\ told' = "nothing"
  /\ queue' = IF At("note", "idle") THEN <<>> ELSE <<Head(queue)>>
  /\ Goto("conf", "instance")
  /\ UNCHANGED <<statics, objects, blinkTimer, got, life, mode,
                 activations, blinkWanted, raced, faulted>>

Delete ==
  /\ At("conf", "delete")
  /\ plugin' = FALSE
  /\ alive' = alive \ {s_instance} /\ s_instance' = 0
  /\ Goto("conf", "release")
  /\ UNCHANGED <<initDone, powerStatus, manager, made, blinkTimer, got, life,
                 notifying, history>>

InitStaysDone == initDone                              \* mutant: initDone = 0 left out
NotInit == FALSE

DeInitializeDs ==
  /\ At("conf", "release")
  /\ manager' = manager - 1
  /\ initDone' = NotInit
  /\ Goto("conf", "idle")
  /\ life' = "down" /\ blinkWanted' = FALSE
  /\ UNCHANGED <<powerStatus, s_instance, plugin, objects, blinkTimer, got, notifying,
                 told, activations, raced, faulted>>

Conf ==
  \/ Register \/ Start \/ AddEventObserver
  \/ Unregister
  \/ StopBlinkTimer("conf", s_instance) \/ Revoke("conf", s_instance, "delete")
  \/ Delete \/ DeInitializeDs

\* everything that goes on by itself, and what the world may do at any time
Internal == (\E t \in Threads : Instance(t)) \/ Conf \/ SetPowerStatus \/ Serve \/ Callback
World == ChangeMode \/ Deliver \/ Fire

(***************************************************************************)
(* One process on its own: it is configured and destroyed, and destroyed   *)
(* only when requests have returned.                                       *)
(***************************************************************************)
SingletonNext ==
  \/ Internal \/ World
  \/ Request \/ BeginConfigure \/ (At("req", "idle") /\ BeginDestroy)

SingletonSpec == Init /\ [][SingletonNext]_processVars

-----------------------------------------------------------------------------
(***************************************************************************)
(* Properties                                                              *)
(***************************************************************************)
Pointers == 0..made

\* The types of this module's variables.
ProcessTypeOK ==
  /\ {initDone, powerStatus, plugin, registered, scheduling,
      blinkWanted, raced, faulted} \subseteq BOOLEAN
  /\ made \in Nat /\ manager \in Nat /\ activations \in 0..MaxActivations
  /\ alive \cup isBlinking \cup entries \subseteq 1..made
  /\ {s_instance, running} \subseteq Pointers
  /\ pc \in [Threads -> Labels]
  /\ got \in [Threads -> Pointers]
  /\ life \in {"down", "configuring", "up", "destroying"}
  /\ mode \in Modes /\ queue \in Seq(Modes) /\ told \in Tellings

\* Nobody uses the null pointer or an object that deinitialize has deleted: not
\* a notification that got its pointer before, not a request, not a callback of
\* the timer.
NoDeadUse == ~faulted

\* Once PowerManager's notifications are noted, powerStatus is its mode: in any
\* activation as soon as there was one, and with GetPowerState's answer alone in
\* a process's first.  Two threads have not met in instance().
NotedAll == life = "up" /\ registered /\ queue = <<>> /\ At("note", "idle")
PowerSettled ==
  NotedAll /\ ~raced
      /\ (told = "notification" \/ (told # "unanswered" /\ activations = 1))
    => powerStatus = (mode = "ON")

\* In any activation of the process, which may find in powerStatus what the one
\* before has left, the ON of PowerManager is not missed, unless nothing has come
\* from it at all: instance() threw before GetPowerState or got no answer, and no
\* notification came since.
OnIsKnown ==
  NotedAll /\ ~raced /\ told # "unanswered" => (mode = "ON" => powerStatus)

\* How powerStatus follows PowerManager in each activation, until two threads
\* meet in instance(): as in PowerFollow, although between the answer of
\* GetPowerState and powerStatus = true (ReadPower, SetPower) modes change and
\* notifications come.  The answer counts from the moment it is given.
Following == ~raced /\ registered /\ life \in {"configuring", "up"}
Follow == INSTANCE PowerFollow WITH
  queue <- IF Following THEN queue ELSE <<>>,
  following <- Following,
  fresh <- Following /\ activations = 1,
  told <- IF Following THEN told ELSE "nothing",
  status <- Following /\ (powerStatus \/ At("conf", "set"))
FollowsPower == Follow!Spec

\* When the last request was not for a pattern and has returned, no pattern is
\* left: no entry of any object, no callback, unless two threads met in
\* instance() (an object that nobody has a pointer to any more may be blinking).
LastRequestWins ==
  At("req", "idle") /\ ~blinkWanted /\ ~raced => entries = {} /\ running = 0

\* Why a Revoke is not kept waiting: while a thread is in it, what the timer has
\* of its object never grows, and every call and return of its callback leaves
\* less of it, that of a callback included which was past its test of
\* m_isBlinking when the flag was cleared, and still schedules itself once more.
Pointer(t) == IF t = "conf" THEN s_instance ELSE got[t]
Left(o) ==
  (IF o \in entries THEN 2 ELSE 0)
    + (IF running # o THEN 0 ELSE IF scheduling THEN 3 ELSE 1)
RevokeNears ==
  [][\A t \in {"conf", "req"} :
       At(t, "revoke") /\ At(t, "revoke")' =>
         /\ Pointer(t)' = Pointer(t) /\ Left(Pointer(t))' <= Left(Pointer(t))
         /\ running' # running /\ Pointer(t) \in {running, running'}
              => Left(Pointer(t))' < Left(Pointer(t))]_processVars

\* How the object uses its timer, until two threads meet in instance(): as in
\* TimerUse.  Whichever of the request and the destructor stops it, there is one
\* chain of entries and callbacks at most, started behind a Revoke and none left
\* behind the next.
Stage ==
  CASE raced -> "none"
    [] ~raced /\ "revoke" \in {pc["conf"], pc["req"]} -> "stopping"
    [] ~raced /\ (pc["conf"] = "delete" \/ pc["req"] = "arm") -> "quiet"
    [] ~raced /\ pc["req"] = "schedule" -> "starting"
    [] OTHER -> "none"
Timing == INSTANCE TimerUse WITH
  request <- Stage,
  blinking <- ~raced /\ s_instance \in isBlinking,
  waiting <- ~raced /\ entries # {},
  callback <- IF raced \/ running = 0 THEN "none"
              ELSE IF scheduling THEN "schedules" ELSE "runs"
UsesTimer == Timing!MortalSpec

\* Why nobody uses a deleted object, as an inductive invariant.  Each thread has
\* labels of its own; a request runs only behind a Configure that has ended, and
\* a notification only while registered, hence neither during the second half of
\* the destructor:
Calling == {"idle", "instance", "return"}
Placed ==
  /\ pc["req"] \in Calling \cup {"stop", "revoke", "arm", "schedule"}
  /\ pc["note"] \in Calling \cup Body \cup {"setPowerStatus"}
  /\ life \in {"down", "up"} => pc["conf"] = "idle"
  /\ life = "configuring" =>
       pc["conf"] \in Body \cup {"register", "instance", "return", "start", "observe"}
  /\ life = "destroying" =>
       pc["conf"] \in {"unregister", "instance", "return", "stop", "revoke", "delete", "release"}
  /\ pc["req"] # "idle" => life = "up"
  /\ pc["note"] # "idle" => registered /\ queue # <<>>
  /\ registered => \/ life \in {"configuring", "up"} /\ pc["conf"] # "register"
                   \/ pc["conf"] = "unregister"

\* there is an object wherever one is counted on,
Made ==
  /\ s_instance \in alive \cup {0}
  /\ \A t \in Threads : pc[t] \in {"ds", "read", "set", "done", "return"} => s_instance # 0
  /\ \A t \in Threads : pc[t] \in {"read", "set", "done"} => manager > 0
  /\ initDone => manager > 0 /\ (s_instance # 0 \/ pc["conf"] = "release")
  /\ life \in {"up", "destroying"} \/ pc["conf"] \in {"return", "start", "observe"} => initDone
  /\ pc["conf"] = "delete" => s_instance # 0

\* and what is to be deleted is not in the timer any more.
SafeInv ==
  /\ Placed /\ Made
  /\ entries \subseteq alive /\ running \in alive \cup {0} /\ (scheduling => running # 0)
  /\ \A t \in {"note", "req"} : pc[t] \notin Calling \cup Body => got[t] \in alive
  /\ pc["conf"] = "delete" => s_instance \notin entries /\ running # s_instance
  /\ NoDeadUse

\* What deinitialize undoes is what instance() did, as long as only one thread
\* was in the body of instance() at a time: that thread made the one object, and
\* called Initialize once, which deinitialize answers with one DeInitialize (also
\* when Initialize has thrown).
Within(t) == pc[t] \in Body
OnceInv ==
  /\ life = "down" => s_instance = 0 /\ ~initDone
  /\ pc["conf"] = "release" => s_instance = 0
  /\ ~raced =>
       /\ \A t, u \in Threads : Within(t) /\ Within(u) => t = u
       /\ \A t \in Threads : Within(t) => ~initDone
       /\ \A t \in Threads : pc[t] = "new" => s_instance = 0
       /\ alive = {s_instance} \ {0}
       /\ manager = IF initDone \/ \E t \in Threads : pc[t] \in {"read", "set", "done"}
                    THEN 1 ELSE 0

\* CFrontPanel is a singleton: there is one object at most (ARCHITECTURE.md
\* promises a "Thread-safe singleton implementation").
OneObject == Cardinality(alive) <= 1
=============================================================================
