# Formal model of entservices-frontpanel

FrontPanel is a Thunder plugin that sets the LEDs of a set-top box: brightness,
colour, on and off, and blink patterns played by a timer.  This directory holds
TLA+ modules translated from its source, TLC configurations that check them on
small instances, and TLAPS proofs.  `PROJECT.json` maps every definition to the
lines it stands for.

## The system

| Component | State | Operations | Talks to |
|---|---|---|---|
| **Blink engine**, `helpers/frontpanel.cpp` 505-639 | `m_blinkList`, `m_isBlinking`, `m_numberOfBlinks`, `m_maxNumberOfBlinkRepeats`, `m_currentBlinkListIndex`, the entries of `blinkTimer` | `setBlink`, `startBlinkTimer`, `stopBlinkTimer`, `setBlinkLed`, `onBlinkTimer` | the timer's thread calls it back; every other request stops it first |
| **LED handlers**, `FrontPanelImplementation.cpp` 214-466, `frontpanel.cpp` 303-503 | `powerStatus`, `isMessageLedOn`, `isRecordLedOn`, `globalLedBrightness`, `fpIndicators` | `SetBrightness`, `GetBrightness`, `PowerLedOn`, `PowerLedOff`, `SetLED`, `SetBlink` | device settings, any call of which may throw |
| **Activation**, `FrontPanelImplementation.cpp` 146-212, `frontpanel.cpp` 127-301 | `s_instance`, `initDone`, `_registeredEventHandlers`, two references to PowerManager | `Configure`, `instance`, `start`, `deinitialize`, `onPowerModeChanged` | PowerManager notifies on a thread of its own, from the first statement of `Configure` on |
| **Inventory of the lights**, `FrontPanelImplementation.cpp` 62-134, 338-405 | none | `GetFrontPanelLights`, `svc2iarm`, `iarm2svc` | device settings |
| **Plugin shell**, `FrontPanel.cpp` | `_service`, `_frontPanel`, `_connectionId` | `Initialize`, `Deinitialize`, `Deactivated` | starts the implementation in this process or in another, as configured |
| Device settings, PowerManager, Thunder | LED registers; the power mode; timer and worker pool | | outside the repository |

Requests come in on the threads of Thunder's worker pool, callbacks on the
thread of `blinkTimer`, power notifications on a COM-RPC thread.  `CFrontPanel`
is a singleton of statics without any lock; only `TimerType` has one.

### What is hard in it

* *Concurrency*: a request and the timer's callback share the list, the index
  and the flag.  The only protection is the order of things in
  `stopBlinkTimer`: clear the flag, then `Revoke`, which waits for a callback
  that runs.
* *Ordering*: the mode may change, and its notification arrive, while
  `Configure` is between registering and reading the mode.
* *Failure*: device settings may throw at any call; every handler has its own
  idea of where a `try` block ends.
* *Lifetime*: `deinitialize` deletes the object that notifications, requests and
  the timer have pointers to, and `instance()` may run on two threads.
* *Repetition*: the statics survive a deactivation when the plugin runs in
  process.
* *Crashes*: configured to run out of process, the implementation may go at any
  moment of an activation or a deactivation.

### What makes each part correct

* Blink engine: the elements of the pattern asked for last, in order, the right
  number of rounds, the LED left on the last element, nothing shown after a
  stop, one chain of callbacks, no read outside the list, every request returns.
* LED handlers: an answer of success is true; of the brightness only what
  `setBrightness` asked for is kept over a reboot, of the colour only the red,
  green and blue of `setLED`; what the plugin remembers of an LED is what it
  shows; standby lights nothing.
* Activation: `powerStatus` is PowerManager's mode once all notifications are in,
  if PowerManager has told anything of it; one object, each call of device
  settings' `Initialize` answered by one of `DeInitialize`; nobody uses a deleted
  object; a destructor that returns.
* Inventory: each supported light is described, by its own data, under the name
  that requests use.
* Plugin shell: an activated plugin has a working implementation behind its
  methods; a deactivation undoes the activation whatever failed in between; both
  come to their end; the loss of the other process is noticed.

## Modules

| Module | What it is |
|---|---|
| `BlinkShow` | What the blink engine promises, seen from the LED: start, next element, next round, end, and taken over only when another request has come |
| `Blink`, `MCBlink` | The engine: requests and callback cut into the steps between which the other thread can change what they do |
| `Panel`, `MCPanel` | Handlers, activation and notifications, one handler per action: what they do to the LEDs, with calls that throw |
| `Singleton` | The life of `CFrontPanel` in one process, statement by statement: `Configure`, `instance`, the destructor, notifications, requests, the timer |
| `Shell` | The plugin's `Initialize` and `Deinitialize`, which run `Singleton` in this process or in one that may crash (`EXTENDS Singleton`) |
| `PowerFollow` | How the plugin is to follow PowerManager: one fetch of the mode, each notification in its order, nothing else; implemented by `Panel` and by `Singleton` |
| `TimerUse` | How one `CFrontPanel` is to use `blinkTimer`: stop (flag, then `Revoke`), start behind a stop, callbacks that schedule themselves; implemented by `Blink` and by `Singleton` |
| `Lights`, `MCLights` | `GetFrontPanelLights` |
| `BlinkShowProofs` | `Blink` implements the safety part of `BlinkShow` |
| `PowerFollowProofs` | What follows from `PowerFollow` alone |
| `BlinkProofs`, `PanelProofs`, `LightsProofs` | Theorems on `Blink`, `Panel`, `Lights`; `Blink` implements `TimerUse`, `Panel` implements `PowerFollow` |
| `SingletonProofs`, `SettleProofs` | Theorems on one process: lifetime of the object; power status and timer, and `Singleton` implements `PowerFollow` and `TimerUse` |
| `ShellProofs` | The same theorems below the shell, and those of the shell |

### Blink

`Clients` are the threads that may serve a request at the same time.  `pc[c]`
says which statement a request is at, `tick` the same for `onBlinkTimer`.

| Code | Action |
|---|---|
| `stopBlinkTimer`: `m_isBlinking = false` | `LedRequest`, `SetBlink`, `Restop` |
| `blinkTimer.Revoke` | `Revoke` (waits while `tick` is not idle, if `RevokeWaits`) |
| `m_blinkList.clear`, `push_back` | `Clear`, `Push` |
| `startBlinkTimer` after its stop | `Arm`, `First`, `Check`, `Schedule` |
| `onBlinkTimer` | `Fire`, `Advance`, `Show`, `Recheck`, `Reschedule` |
| `setBrightness`, `powerOnLed`, `powerOffLed`, `setLED` | `LedRequest`, `Revoke`, `Write` |

A *shade* is all an LED shows.  The shades of patterns differ from the steady
ones, so that a late callback can be seen.  `setBlinkLed` may leave any shade when
device settings throws (`DsFaults`).  The counters are ints: `Inc` wraps at
`IntMax`, as the build does; in C++ the overflow is undefined.  An exception out
of `at()` in the callback ends the process (`terminated`).  The same exception in
`First` is caught in `SetBlink`.

Abstracted: durations (an entry may fall due at any time), the name of the LED,
parsing of the pattern.  Two stretches of several accesses are one step each:
`Arm`, the four assignments and the test of the size in `startBlinkTimer`
(558-562), and `Advance`, the index, the counter and their tests in `onBlinkTimer`
(608-622).  For one request at a time this loses nothing (`ChainInv`: nobody else
touches what they do); for two, the orders of statements within these stretches
are not explored.  A race on the vector itself is taken as some order of its
operations; in C++ it is undefined, so that finding 1 below is its mildest
outcome.

### Panel

One action is one whole handler.  `Throws(l, bad)` says that the calls for LED `l`
throw in this handler, because the fault set says so or because the box does not
have it.  `Reached` gives the LEDs of a loop that come before the first call that
throws, so each `try` block is cut where the code cuts it.  `lit`, `bright` and
`colour` are the registers of device settings, `saved` and `savedColour` what it
keeps over a reboot: calls with `toPersist` false leave those alone,
`setBrightness` for a request and `setColor` for `setLED`'s red, green and blue do
not (`kept`).  `queue` holds notifications on their way.  `Configure` is two
actions, `Register` and `Configure`, and a notification may come between them: it
then makes the instance itself, without the service.  `InProcess` says whether the
statics survive `Deactivate`.

`told` is no variable of the code.  It says what PowerManager has told of its mode
since `Register`: nothing yet, an answer, a notification, or that the question
stayed unanswered.  The last happens in three ways (`Answers`): `Manager` throws
before `GetPowerState` (145-148, caught at 203), PowerManager cannot be reached, or
it answers with an error (169).  In all of them `initDone` is set and `powerStatus`
left as it was.

`blinking` is no more than "a pattern of this LED is being played"; its ticks
may write the LED at any time.  `Blink` says when they really do.  Reading one
LED's brightness changes no state and is left out.

### Singleton

Three threads: `conf` (`Configure` and the destructor, which Thunder calls one
after the other), `note` (a notification), `req` (a request).  `pc[t]` is the next
statement of thread `t`, `got[t]` the pointer `instance()` returned to it.
Objects are numbers, in the order they are made, 0 is the null pointer.

| Code | Actions |
|---|---|
| `instance`: test of `initDone`, PowerManager's interface, `s_instance`, `new`, `Manager::Initialize`, `GetPowerState`, `powerStatus = true`, `initDone = 1`, `return` | `Enter`, `Connect`, `Make`, `New`, `InitializeDs`, `ReadPower`, `SetPower`, `Done`, `Return` |
| `Configure` | `BeginConfigure`, `Register`, `Instance("conf")`, `Start`, `AddEventObserver` |
| destructor, `deinitialize` | `BeginDestroy`, `Unregister`, `Instance("conf")`, `StopBlinkTimer`, `Revoke`, `Delete`, `DeInitializeDs` |
| `OnPowerModeChanged` | `Deliver`, `Instance("note")`, `SetPowerStatus` |
| requests | `Request`, `Instance("req")`, `StopBlinkTimer`, `Revoke`, `Arm`, `Schedule` |
| `BlinkInfo::Timed`, `onBlinkTimer` up to its test of `m_isBlinking`, its `Schedule` | `Fire`, `Tick`, `Reschedule` |

`faulted` notes the use of a null or deleted object, `raced` that two threads
were in the body of `instance()` at a time.  A callback is two steps here behind
its `Fire`, so that a stop can come between its test of `m_isBlinking` and its
`Schedule` (`scheduling`); what it shows is left out, and `Blink` has both.  That
the two modules mean the same timer is what `TimerUse` says.  `manager` is the
number of calls of `Initialize` less that of `DeInitialize` of device settings,
those that throw included: `deinitialize` calls `DeInitialize` (230) whether or not
`Initialize` had come to its end, and the properties are about the calls.

`InitializeDs` has the two ways out of `Initialize` and `getIndicators`: on to
`GetPowerState`, or through the handler (203) to `initDone = 1` (207).
`ReadPower` may be left without an answer, for want of the interface or for an error
(169).  `Connect` and `Register` are separate attempts to reach PowerManager, each
of which may fail.  `told` is as in `Panel`, until two threads have met in
`instance()`.

### Shell

`shell` is the next statement of `Initialize` or `Deinitialize`, `service` the
references to `_service`, and `process` says that the implementation's process
runs.  `inProcess` is chosen once, by the configuration.  `Configure` and
`ReleaseFrontPanel` start `Singleton`'s `BeginConfigure` and `BeginDestroy`;
`RegisterMethods` and `Released` wait for their end, or for the end of the
process: a COM-RPC call into a crashed process comes back with an error, and
`FrontPanel.cpp` looks at none.  `Crash` and `TerminateConnection` end the
process (`Exit`), whose statics start anew in the next.  `Deactivated` is no
action, since nothing registers it.

### PowerFollow

Six variables and no threads: PowerManager's `mode`, the notifications in `queue`,
whether the plugin is `following`, whether it began with a status that is off
(`fresh`), what it was `told`, and the `status`.  `Fetch` only turns the
status on (`GetPowerState` sets `powerStatus` to true or leaves it,
frontpanel.cpp:171), `Leave` leaves the mode unanswered, `Note` takes the oldest
notification.  Behind a `Leave` the status is known to be right only from the next
notification on (`Followed`).  `FollowsPower` is the specification under a
refinement mapping.

* `Panel` follows from `Register` on, until the process or the registration ends.
  `Register` is `Begin`, the handler that runs `instance()` is `Fetch` (with the
  service and an answer), `Leave` (without an answer) or part of `Note` (a
  notification that comes before `Configure` makes the instance without a
  service).
* `Singleton` follows while it is registered, until two threads meet in
  `instance()`.  The answer of `GetPowerState` counts as noted when it is given
  (`ReadPower`), although `powerStatus = true` comes a statement later
  (`SetPower`): what may come in between is what the mapping has to survive.
  `InitializeDs` that throws and `ReadPower` without an answer are `Leave`,
  `SetPowerStatus` is `Note`, each of the other statements a stutter, the
  destructor's begin `End`.

A first activation is `fresh`; a later one in the same process begins with the
status that the one before has left, and then only an ON is sure not to be missed
(finding 3).

### TimerUse

Four variables, one object: how far its `request` is (`stopping` once the flag is
cleared, `quiet` behind the `Revoke`, `starting` once it is set again), the flag
`blinking`, whether an entry is `waiting`, and the `callback`.  `Revoke` needs that
no callback runs and leaves no entry; `Arm` and `Schedule` need that there is
neither; a callback goes on only if it has found the flag set, and then whatever
has become of it since.  `UsesTimer` is the specification under a refinement
mapping.

* `Blink`, with one client: `Stage` is read off the client's label, `waiting` is
  `pending # 0`, and a callback `schedules` behind `Recheck`.  A second stop
  in `startBlinkTimer` (`Restop`) is a `Stop` like the first.
* `Singleton`: the request and the destructor both stop, only the request starts,
  and `Delete` is `Leave`.  The mapping ends where two threads meet in
  `instance()`, since there may be two objects behind it (`Gone`, which is also the
  end of a process).

### Lights

`Describe` is one round of each of the two loops, with the `indicatorInfo`
object that is reused from round to round.

## Runs

| Run | Result | Question |
|---|---|---|
| `blink_one` | passes, 75 346 states | one request at a time: all safety properties, refinement of `BlinkShow`, requests return, and each step in a `Revoke` brings its end nearer; refinement of `TimerUse` |
| `blink_two` | passes, 952 274 states | two requests at a time, device settings throws anywhere: what still holds, and how finite patterns run out |
| `blink_race` | violated: `NoOutOfRange` | two requests at a time: what does not |
| `panel_power` | passes, 189 440 states | device settings does not fail, PowerManager may be out of reach: LED flags and what is kept over a reboot, a box with three LEDs and two colours; refinement of `PowerFollow` |
| `panel_faults` | passes, 361 688 states | exceptions halfway through handlers, at the start of device settings included, PowerManager out of reach: answers, power status, what is kept |
| `panel_colour` | violated: `ColourHonest` | an answer that is not true |
| `panel_again` | violated: `PowerKnown` | activations in one process |
| `lights` | passes, 6 753 states | lists, names and ranges belong together |
| `lights_colours` | violated: `OwnColours` | colours of another light |
| `shell` | passes, 476 217 states | the plugin's life in and out of process, with crashes, `instance()` that throws and `GetPowerState` unanswered, against notifications, a request and the timer; refinement of `PowerFollow`, in every activation, and of `TimerUse` |
| `singleton_race` | violated: `OneObject` | two threads in `instance()` |
| `shell_crash` | violated: `CrashNoticed` | who hears of a crash |

### Bounds

* `blink_one`: patterns of 0, 1, 2 and 3 elements, one of which shows the same
  shade twice; repeat counts below zero, 0, 1, 2 and the largest int.  With
  `IntMax = 5` the counter wraps within a run.  Every branch of `onBlinkTimer`
  (inside a round, at its end, counted out, for ever) is taken, and the state is
  finite without further bounds.
* `blink_two`: two clients are what every race found needs; the shorter
  patterns and repeat counts still wrap the index and end a pattern.
* `Panel`: `MaxQueue` bounds the notifications on their way, two to let a change
  and its reversal overtake a handler, one elsewhere.  Two levels tell a
  brightness from another, two colours a colour; the box of two LEDs has one that
  it lacks (Record).  The calls that fail in a handler are chosen anew for each:
  `PowerFaults` lets PowerManager be out of reach, `SomeFaults` also a call for the
  Power LED or the start of device settings (`Manager`) fail, one per handler.
* `Lights`: all boxes of up to three of four indicators, one with a name that is
  not mapped, in every order, with and without colours.
* `shell`: `MaxActivations = 2` in one process, so that the second finds what the
  first left behind; out of process a crash or a `Terminate` starts the count
  anew, so that activations go on without bound.  `MaxQueue = 2` as above.  One
  request at a time: two of them are `blink_two`'s subject.
* Deadlock is checked in all runs but those with two clients, where the process
  may end (`terminated`), and those of `Lights`, where the loops end.

### Fairness

`Blink!Spec` has weak fairness for each request that has begun and for the
timer's thread: threads of a pool are scheduled, and `TimerType` runs an entry
that falls due.  No request ever has to come.  Weak fairness suffices for
`Revoke`, although a callback disables it: `m_isBlinking` is false by then, so
the callback that runs is the last.  `BlinkShow` has weak fairness for the
advance of a pattern, and no step of a client is fair in it.

`Shell!Fairness` has weak fairness for the statements of each thread once it has
begun, for `Initialize`, `Deinitialize` and a callback that runs.  `Unregister`
needs strong fairness: it waits for the lock that PowerManager holds while it
notifies, each notification gives it back, and others may come in between; a
lock that starves a waiter for ever is the only thing excluded.  Nothing makes an
operator activate or deactivate, a client ask, PowerManager change its mode, an
entry of the timer fall due, or a process crash.  `Panel` and `Lights` have
safety properties only.

## Findings

1. `blink_race`: with two requests at a time, one clears `m_blinkList` between
   the callback's test of the size and `at()` (frontpanel.cpp:508, 612, 624);
   the exception ends the process.  ARCHITECTURE.md:74 promises mutexes.
2. `panel_colour`: `setLED` answers success when the colour failed
   (frontpanel.cpp:496).
3. `panel_again`: `powerStatus` survives `deinitialize` and `instance()` never
   clears it (frontpanel.cpp:171): an in-process plugin that is activated in
   standby takes the system to be on.
4. `lights_colours`: a light without colours is described with those of an
   earlier indicator (FrontPanelImplementation.cpp:369).
5. `singleton_race`: `Configure` registers for notifications before it calls
   `instance()`; a notification that comes in time makes an object of its own
   (frontpanel.cpp:139).  One of the two is never deleted, device settings is
   initialised twice and released once, and `powerStatus = true` (line 172) may
   overwrite a newer STANDBY.  ARCHITECTURE.md:75 promises a thread-safe
   singleton.
6. `shell_crash`: `FrontPanel` never registers for the end of the connection, so
   that `Deactivated` (FrontPanel.cpp:124) is never called.

Some things seen that no document of the repository contradicts clearly enough
to be listed:

* a global `setBrightness` answers success when device settings threw
  (frontpanel.cpp:321; test_FrontPanel.cpp:759 expects failure in its comment,
  success in its assertion);
* an activation with the power on shows the Power LED's brightness on every LED
  (frontpanel.cpp:189);
* where `Initialize` or `getIndicators` throws, `GetPowerState` is skipped, the
  activation succeeds all the same, and `powerStatus` stays off until the next
  notification, whatever the mode (frontpanel.cpp:145-207);
* `DeInitialize` is called even if `Initialize` threw (frontpanel.cpp:230), and
  what device settings makes of that is not in the repository;
* `setLED` keeps a colour given by red, green and blue over a reboot, one given by
  its name not (frontpanel.cpp:461, 480).

The properties of the passing runs say what remains beside these: those of
`Singleton` exclude `raced` where the race breaks them, and those on the power
status exclude that PowerManager has told nothing of its mode (`told` is
"unanswered").  `PowerKnown` is checked and proved with handlers that are whole, and
`PowerSettled` says the same of single statements: behind a notification in every
activation, behind an answer in a process's first.  `OnIsKnown` is what a later
activation keeps of the answer: the status left behind may be a stale on, never an
ON that is missed.

## Proofs

Each theorem holds for every value of the constants, within what it assumes.
Every invariant and action property of a passing run is proved, and the
refinements: `Blink` and `Singleton` (also below the shell) implement `TimerUse`,
`Panel` and `Singleton` `PowerFollow`, `Blink` implements `BlinkShow` without its
fairness.

| Theorem | Assumes | Says |
|---|---|---|
| `TypeCorrect` | | `Blink!TypeOK`: in particular the index into the list is never negative |
| `TicksStayBounded` | `RevokeWaits` | timer entries, the callback and the requests that may add an entry are together at most the clients |
| `InRange` | one client, `RevokeWaits` | `NoOutOfRange` |
| `Stopped`, `BlinksOn` | one client, `RevokeWaits` | `StoppedIsStopped`, `NeverStalls`, whatever device settings throws |
| `ChainAlways` | one client, `RevokeWaits` | `ChainInv` |
| `LedAlways`, `LastElement`, `SteadyKept` | also no exceptions | `LedInv`, `StaysOnLast`, `SteadyStays` |
| `ShowsPromised` | one client, `RevokeWaits` | whatever device settings throws: `Promise!Init /\ [][Promise!Next]_Promise!vars`: `KeepsPromise` without its fairness |
| `RevokesCome` | one client, `RevokeWaits` | `RevokeComes`, and a `Revoke` waits for six steps of the timer's thread at most |
| `PatternsRunOut` | | `RunsOut`, and that what falls are natural numbers; any number of clients, whatever device settings throws |
| `EngineUsesTimer` | one client, `RevokeWaits` | `UsesTimer`: the engine implements `TimerUse`, every pattern, whatever device settings throws |
| `FollowsRight` | | what implements `PowerFollow` has the right status when nothing is on its way (`Followed`) |
| `NoUseAfterDelete`, `StaysSafe` | `RevokeWaits`, `UnregisterWaits` | `NoDeadUse`, `SafeInv`, in one process |
| `MadeOnce` | the same | `OnceInv`, also where `instance()` throws |
| `StoppedForGood`, `PowerIsSettled`, `OnIsNotMissed` | the same | `LastRequestWins`, `PowerSettled`, `OnIsKnown`, also where `instance()` throws before `GetPowerState` or gets no answer |
| `ProcessFollows` | the same | `FollowsPower`: one process implements `PowerFollow`, in each activation, with the same faults |
| `RevokesNear` | the same | `RevokeNears` |
| `ProcessUsesTimer` | the same | `UsesTimer`: one process implements `TimerUse`, in and between its activations |
| `ShellImplementsProcess` | also `Drains` | below the shell the process is `Singleton` until it ends and starts anew |
| `ShellFollows`, `ShellKnowsOn`, `ShellRevokes`, `ShellUsesTimer` | also `Drains` | `FollowsPower`, `OnIsKnown`, `RevokeNears`, `UsesTimer`, with crashes and the faults of `instance()` |
| `ShellTypes`, `ShellSafe`, `ShellWorks`, `ShellLeavesNothing`, `ShellMakesOnce`, `ShellStops`, `ShellSettles` | also `Drains` | `Shell!TypeOK`, `NoDeadUse`, `Working`, `NothingLeft`, `SafeInv`, `OnceInv`, `LastRequestWins`, `PowerSettled`, with crashes and the faults of `instance()` |
| `PanelTypes`, `AnswersAreHonest`, `OnlyRequestsSave` | | `Panel!TypeOK`, `HonestAnswers`, `SavedByRequest`, whichever calls throw, in and out of process |
| `StandbyIsDark` | out of process | `LightsNeedPower`, whichever calls throw |
| `PowerIsKnown` | out of process | `PowerKnown`, queues of any length, whichever calls throw |
| `PanelFollows` | | `FollowsPower`: the handlers implement `PowerFollow`, in and out of process, whichever calls throw, PowerManager within reach or not |
| `FlagsAgreeAlways` | out of process, no TV, a Power LED, no call to device settings that throws (`AllWell`) | `FlagsAgree`, PowerManager within reach or not |
| `NamedAreSupported`, `SupportedReachable`, `EachItsRange` | | `AllNamedAreSupported`, `SupportedAreDescribed`, `OwnRange`, any box |

*Blink.*  `TicksStayBounded` counts tokens.  A request becomes a holder by a
`Revoke`, which leaves the timer without an entry and, as it waits, without a
callback.  At that point only holders are left, and they are clients.  From there
a holder becomes an entry (`Schedule`), an entry a callback (`Fire`), a callback
an entry (`Reschedule`): the sum never grows otherwise.  `NoOutOfRange` is not
inductive: a callback that has advanced relies on nobody changing the list until
it shows.  `ChainInv` says why, for one client: as long as an entry or a callback
exists, the request is at a label before its next `Revoke`, hence touches neither
list nor index, and while the request is at a label that touches them the timer
has nothing.  `LedInv` adds that between callbacks the LED shows the element the
index names.  Both are checked by TLC in `blink_one`.

*Refinement.*  `ShowsPromised` needs two more facts: what a request carries
reaches the list and the counter as it was asked for (`Asked`), and while a
pattern with a finite repeat count plays, the rounds played are not more than
those asked for, so that `Inc` does not wrap (`Counted`).  A request that comes
is `Stop`, a `Revoke` `Cancel`, `Write` `Set`, `First` `Start`, a callback's
`Show` `Step` or `Repeat`, its `Advance` at the very end `End`; every other
statement stutters.  Where device settings throws, what the LED shows is left open
in both.

*What liveness rests on.* The provers cannot do fairness, but the measures behind
the liveness properties are proved, as action properties that TLC checks too.
`RunsOut` (for `FiniteBlinkEnds`): each step of the timer's thread in a finite
pattern makes the triple of the chains and rounds to come, the elements to come in
this round and the steps to come in this callback smaller, in the order of the
dictionary; a chain that ends makes its first part smaller, which is why it holds
for any number of clients and without `RevokeWaits`.  It says nothing of a counter
at `IntMax`, where the int wraps.  `RevokeComes` (for `RequestReturns`): `Ahead`,
at most six, falls with every step of the timer's thread that is taken while a
client is in `Revoke`; this needs `ChainInv` (one chain) and that `m_isBlinking`
is false by then.  `RevokeNears` (for `SettlesDown`) says it of the entries and
callbacks of each object: `RevokedInv` (no object in a `Revoke` blinks) and
`SafeInv`, by which nobody else touches the object or the pointer to it meanwhile.
A callback that was past its test of `m_isBlinking` when the flag was cleared
schedules itself once more; `Left` counts 3 for it, 2 for the entry that it
becomes and 1 for a callback that has still to test.

*Using the timer.*  In `Blink` the steps of `TimerUse` follow from `ChainInv`: where
the client arms or schedules there is neither entry nor callback, and where a
callback runs there is no entry.  `Singleton` needs `TimedInv` for the same: until
two threads meet in `instance()` everything in the timer is of the one object
(`OneTimed`), hence a `Revoke` that has waited leaves nothing at all
(`RevokeEmpties`), and the object does not blink where it is deleted (`RevokedInv`
carries that over from the stop).

*Singleton.* `SafeInv` has three parts.  `Placed`: which threads can be where
together; a request runs only behind a `Configure` that has ended, a notification
only while registered, so that neither runs in the second half of the destructor.
`Made`: there is an object, and `Initialize` of device settings has been called
(it may have thrown), wherever the code counts on it.  And whatever is about to be
deleted is out of the timer, because `Revoke` waits.  `OnceInv` builds on it:
unless two threads met in the body of `instance()`, the one that is in it is alone
and finds `initDone` unset, so it makes the only object.  `WonInv` (in
`SettleProofs`) follows a request from its `Revoke` to its return; `PowerInv` says
that the mode last read or noted is followed only by modes queued behind it, in
every activation, whoever is first in `instance()`.  It needs to know where
nothing is left from before: `_powerManagerPlugin` is unset and no notification is
queued when an activation begins, since the destructor undoes both, while
`powerStatus` is known only in the first one.

*Following.* A step of the process is matched to `PowerFollow`'s by
`FollowingInv`, which is `PowerInv` and `OneInv`.  Behind `ReadPower` of `conf`
nobody else can be in `instance()` without `raced`, so that between the answer and
`powerStatus = true` no notification is noted.

*Shell.*  `ShellInv` ties the shell to the process: what `shell` is at says
whether the implementation is there and what `life` its process is in.  A step of
the shell is a step of `Singleton`, a stutter, or `Exit`, which leads back to its
initial state; the invariants of `Singleton` therefore carry over, and
`HeldInv` and `LeftInv` collect what a deactivation has to give back.

*Panel.*  `PanelInv` adds to the types that no pattern plays behind an answer
which says what the LED shows.  `DarkInv`, `KnownInv` and `FlagsInv` are about
what holds until `instance()` has run in a process and what from then on.

*Lights.*  `LightsInv` relates the lists after each round of the loops to the
indicators gone through; `RangeInv` adds one object for each of them, with its
own range.

Only model-checked, since the installed provers cannot do liveness under
fairness: `FiniteBlinkEnds`, `RequestReturns`, `SettlesDown`, and the fairness
that `KeepsPromise` promises.  What they rest on is proved (above).

### Assumptions on what is outside the repository

* `RevokeWaits`: Thunder's `TimerType::Revoke`, called from another thread,
  waits until the callback that runs has finished, and then takes every entry
  that equals its argument.  `BlinkInfo` compares by its `CFrontPanel`.  Without
  it `LastRequestWins` and `NothingLeft` are violated.
* `UnregisterWaits`: PowerManager holds its lock while it notifies, so that
  `Unregister` returns behind a notification.  Without it `NoDeadUse` and
  `NothingLeft` are violated.
* `Drains`: Thunder lets the requests that are under way return before it calls
  `Deinitialize`.  This is not known to hold; without it `NoDeadUse` and
  `NothingLeft` are violated.
* Thunder calls `Deinitialize` after an `Initialize` that failed, and the plugin
  holds the last reference to the implementation.  A `Root` that fails leaves no
  process.
* The worker pool may run two requests at the same time.
* PowerManager delivers its notifications in the order of the changes.
* Device settings does one call for one LED entirely or throws, and throws for
  an LED or a level it does not have.  No two indicators share a name, and none
  has a name of the API (`power_led`).
* `USE_DS` and `HAS_API_POWERSTATE` are defined, as in the build for a device.

## Not modelled

* `observers_`, `lastError_`, `m_lights` and the text-pattern timer, which no
  operation uses; the `Remote`, `RfByPass` and `ALL` cases of `powerOnLed` and
  `powerOffLed` that no method of the interface reaches; reading one LED's
  brightness, which changes no state.
* JSON parsing, logging, the JSON-RPC wrapping, durations.  With durations of
  zero a pattern keeps the timer's thread busy; `Blink` lets entries fall due at
  once, but says nothing about load.
* `FrontPanel::Deactivated`, which nothing calls.
* A client that holds the implementation over COM-RPC, so that it outlives a
  deactivation.
* Build files, configuration and tests.

## Plan

Done, in this order: `BlinkShow` and `Blink` (the part with the most concurrency),
`Panel`, `Lights`, `Singleton`, `Shell`, `PowerFollow`, `TimerUse`, and the proofs
on each.

What is left needs knowledge from outside the repository rather than more
modules: whether Thunder drains requests before `Deinitialize` (`Drains`), who
else may hold the implementation, and which brightnesses device settings
accepts.
