------------------------------- MODULE Blink -------------------------------
(***************************************************************************)
(* The blink engine of CFrontPanel (helpers/frontpanel.cpp): m_blinkList,  *)
(* the counters, m_isBlinking, and the entries that wait in blinkTimer.    *)
(* Requests run on the threads of a worker pool (Clients), ticks on the    *)
(* thread of blinkTimer.  CFrontPanel has no lock, so the steps of all     *)
(* these threads interleave.  An action is one call or one access to what  *)
(* they share, but for Arm (startBlinkTimer's assignments and its test of  *)
(* the size) and Advance (onBlinkTimer up to at()), which are one step     *)
(* each: with several requests at a time the code has more interleavings.  *)
(*                                                                         *)
(* A shade is all that an LED shows (colour and brightness together).  The *)
(* Shades are those that elements of patterns show, the Steady ones those  *)
(* that the other requests write, so that the two can be told apart.       *)
(***************************************************************************)
EXTENDS Integers, Sequences, FiniteSets

CONSTANTS Clients,     \* the threads that serve requests
          Shades,
          Steady,
          Patterns,    \* the patterns that requests may carry
          Iterations,  \* the repeat counts that requests may carry
          IntMax,      \* INT_MAX: the counters are ints
          RevokeWaits, \* TimerType::Revoke waits for a callback that runs
          DsFaults     \* calls to device settings may throw

ASSUME ShadesAssumption == Shades \cap Steady = {}
ASSUME PatternsAssumption == Patterns \subseteq Seq(Shades)
ASSUME IntAssumption == IntMax \in Nat /\ Iterations \subseteq (-IntMax - 1)..IntMax
ASSUME FlagsAssumption == RevokeWaits \in BOOLEAN /\ DsFaults \in BOOLEAN
ASSUME ClientsAssumption == IsFiniteSet(Clients)

VARIABLES
  blinkList,                \* m_blinkList
  isBlinking,               \* m_isBlinking
  numberOfBlinks,           \* m_numberOfBlinks
  maxNumberOfBlinkRepeats,  \* m_maxNumberOfBlinkRepeats
  currentBlinkListIndex,    \* m_currentBlinkListIndex, from 0 as in the code
  pending,     \* how many entries for this panel wait in blinkTimer
  tick,        \* where the timer's thread is in onBlinkTimer
  pc,          \* where each client is in its request
  todo,        \* the part of the requested pattern still to be pushed
  iterations,  \* the requested repeat count
  led,         \* what the LED shows
  terminated   \* an exception left the timer's callback: std::terminate

counters == <<numberOfBlinks, maxNumberOfBlinkRepeats, currentBlinkListIndex>>
request == <<todo, iterations>>
vars == <<blinkList, isBlinking, counters, pending, tick, pc, request, led, terminated>>

TickLabels == {"idle", "advance", "show", "check", "schedule"}

\* where a request goes on from each of its calls of Revoke
Returns == [revokeAndWrite |-> "write", revokeAndClear |-> "clear", revokeAndArm |-> "arm"]
Labels == DOMAIN Returns \cup
  {"idle", "write", "clear", "push", "arm", "first", "check", "schedule"}

Init ==
  /\ blinkList = <<>> /\ isBlinking = FALSE
  /\ numberOfBlinks = 0 /\ maxNumberOfBlinkRepeats = 0 /\ currentBlinkListIndex = 0
  /\ pending = 0 /\ tick = "idle"
  /\ pc = [c \in Clients |-> "idle"]
  /\ todo = [c \in Clients |-> <<>>]
  /\ iterations = [c \in Clients |-> 0]
  /\ led \in Steady
  /\ terminated = FALSE

\* m_numberOfBlinks++.  The overflow of an int is undefined in C++; wrapping
\* round is what the compiled code does.
Inc(n) == IF n = IntMax THEN -IntMax - 1 ELSE n + 1

Goto(c, label) == pc' = [pc EXCEPT ![c] = label]

(***************************************************************************)
(* setBlinkLed: writes the colour, then the brightness, each in a try      *)
(* block of its own.  When one of them throws, the LED keeps that half of  *)
(* what it showed, which may look like any shade.                          *)
(***************************************************************************)
SetBlinkLed(shade) ==
  IF DsFaults THEN led' \in Shades \cup {led} ELSE led' = shade

(***************************************************************************)
(* stopBlinkTimer, the first thing that every request does: clear the flag,*)
(* then Revoke every entry of this panel.                                  *)
(***************************************************************************)
StopBlinkTimer(c, label) ==
  /\ isBlinking' = FALSE
  /\ Goto(c, label)

RevokeNothing == UNCHANGED pending                     \* mutant: no Revoke
RevokeAtOnce == pending' = 0                           \* mutant: no waiting
RevokeEntries == (RevokeWaits => tick = "idle") /\ pending' = 0

Revoke(c) ==
  /\ pc[c] \in DOMAIN Returns
  /\ RevokeEntries
  /\ Goto(c, Returns[pc[c]])
  /\ UNCHANGED <<blinkList, isBlinking, counters, tick, request, led, terminated>>

(***************************************************************************)
(* Every request but setBlink: stop the blinking, then write the LED, or   *)
(* leave it (a request that is refused, has nothing to do, or that device  *)
(* settings fails).  setBrightness, which stops and writes more than once,  *)
(* is as many of these in a row.                                           *)
(***************************************************************************)
LedRequest(c) ==
  /\ pc[c] = "idle"
  /\ StopBlinkTimer(c, "revokeAndWrite")
  /\ UNCHANGED <<blinkList, counters, pending, tick, request, led, terminated>>

Write(c) ==
  /\ pc[c] = "write"
  /\ led' \in Steady \cup {led}
  /\ Goto(c, "idle")
  /\ UNCHANGED <<blinkList, isBlinking, counters, pending, tick, request, terminated>>

(***************************************************************************)
(* setBlink                                                                *)
(***************************************************************************)
SetBlink(c, p, n) ==
  /\ pc[c] = "idle"
  /\ StopBlinkTimer(c, "revokeAndClear")
  /\ todo' = [todo EXCEPT ![c] = p]
  /\ iterations' = [iterations EXCEPT ![c] = n]
  /\ UNCHANGED <<blinkList, counters, pending, tick, led, terminated>>

Clear(c) ==
  /\ pc[c] = "clear"
  /\ blinkList' = <<>>
  /\ Goto(c, "push")
  /\ UNCHANGED <<isBlinking, counters, pending, tick, request, led, terminated>>

Push(c) ==
  /\ pc[c] = "push" /\ todo[c] # <<>>
  /\ blinkList' = Append(blinkList, Head(todo[c]))
  /\ todo' = [todo EXCEPT ![c] = Tail(@)]
  /\ UNCHANGED <<isBlinking, counters, pending, tick, pc, iterations, led, terminated>>

(***************************************************************************)
(* startBlinkTimer, which stops the timer once more                        *)
(***************************************************************************)
Restop(c) ==
  /\ pc[c] = "push" /\ todo[c] = <<>>
  /\ StopBlinkTimer(c, "revokeAndArm")
  /\ UNCHANGED <<blinkList, counters, pending, tick, request, led, terminated>>

Arm(c) ==
  /\ pc[c] = "arm"
  /\ numberOfBlinks' = 0
  /\ isBlinking' = TRUE
  /\ maxNumberOfBlinkRepeats' = iterations[c]
  /\ iterations' = [iterations EXCEPT ![c] = 0]   \* a local, gone from here on
  /\ currentBlinkListIndex' = 0
  /\ Goto(c, IF Len(blinkList) > 0 THEN "first" ELSE "idle")
  /\ UNCHANGED <<blinkList, pending, tick, todo, led, terminated>>

\* at(0) is inside the try block of SetBlink: when the list is empty by now
\* the request fails and nothing else happens
First(c) ==
  /\ pc[c] = "first"
  /\ \/ /\ Len(blinkList) > 0
        /\ SetBlinkLed(blinkList[1])
        /\ Goto(c, "check")
     \/ /\ Len(blinkList) = 0
        /\ Goto(c, "idle")
        /\ UNCHANGED led
  /\ UNCHANGED <<blinkList, isBlinking, counters, pending, tick, request, terminated>>

OnAndOn == TRUE                                        \* mutant: m_isBlinking not asked
StillBlinking == isBlinking

Check(c) ==
  /\ pc[c] = "check"
  /\ Goto(c, IF StillBlinking THEN "schedule" ELSE "idle")
  /\ UNCHANGED <<blinkList, isBlinking, counters, pending, tick, request, led, terminated>>

\* Schedule adds an entry, whether or not an equal one waits already
Schedule(c) ==
  /\ pc[c] = "schedule"
  /\ pending' = pending + 1
  /\ Goto(c, "idle")
  /\ UNCHANGED <<blinkList, isBlinking, counters, tick, request, led, terminated>>

(***************************************************************************)
(* The timer's thread: an entry falls due, onBlinkTimer runs.  Durations   *)
(* are left out: they are what the requests ask for, zero included.        *)
(***************************************************************************)
Fire ==
  /\ tick = "idle" /\ pending > 0
  /\ pending' = pending - 1
  /\ tick' = "advance"
  /\ UNCHANGED <<blinkList, isBlinking, counters, pc, request, led, terminated>>

Wraps == currentBlinkListIndex + 1 >= Len(blinkList)

NotCounted == numberOfBlinks                           \* mutant: no m_numberOfBlinks++
Rounds == IF Wraps THEN Inc(numberOfBlinks) ELSE numberOfBlinks

OneRoundLess == ~Wraps \/ Rounds < maxNumberOfBlinkRepeats   \* mutant: < for <=, no test for < 0
AnywhereInRound == maxNumberOfBlinkRepeats < 0         \* mutant: asked before every element
                     \/ Rounds < maxNumberOfBlinkRepeats
BlinkAgain ==
  ~Wraps \/ maxNumberOfBlinkRepeats < 0 \/ Rounds <= maxNumberOfBlinkRepeats

\* mutant: reset to where the next ++ leads to the first element, before at()
BeforeFirst == IF Wraps THEN -1 ELSE currentBlinkListIndex + 1
NextIndex == IF Wraps THEN 0 ELSE currentBlinkListIndex + 1

Advance ==
  /\ tick = "advance"
  /\ currentBlinkListIndex' = NextIndex
  /\ numberOfBlinks' = Rounds
  /\ tick' = IF BlinkAgain THEN "show" ELSE "idle"
  /\ UNCHANGED <<blinkList, isBlinking, maxNumberOfBlinkRepeats, pending, pc,
                 request, led, terminated>>

\* nothing catches what at() throws here
Show ==
  /\ tick = "show"
  /\ \/ /\ currentBlinkListIndex < Len(blinkList)
        /\ SetBlinkLed(blinkList[currentBlinkListIndex + 1])
        /\ tick' = "check"
        /\ UNCHANGED terminated
     \/ /\ currentBlinkListIndex >= Len(blinkList)
        /\ terminated' = TRUE
        /\ UNCHANGED <<led, tick>>
  /\ UNCHANGED <<blinkList, isBlinking, counters, pending, pc, request>>

Recheck ==
  /\ tick = "check"
  /\ tick' = IF StillBlinking THEN "schedule" ELSE "idle"
  /\ UNCHANGED <<blinkList, isBlinking, counters, pending, pc, request, led, terminated>>

Reschedule ==
  /\ tick = "schedule"
  /\ pending' = pending + 1
  /\ tick' = "idle"
  /\ UNCHANGED <<blinkList, isBlinking, counters, pc, request, led, terminated>>

-----------------------------------------------------------------------------
NewRequest(c) ==
  \/ LedRequest(c)
  \/ \E p \in Patterns, n \in Iterations : SetBlink(c, p, n)

Serve(c) ==
  \/ Revoke(c) \/ Write(c)
  \/ Clear(c) \/ Push(c) \/ Restop(c)
  \/ Arm(c) \/ First(c) \/ Check(c) \/ Schedule(c)

Timer == Fire \/ Advance \/ Show \/ Recheck \/ Reschedule

Next ==
  /\ ~terminated
  /\ \/ \E c \in Clients : NewRequest(c) \/ Serve(c)
     \/ Timer

\* A thread that serves a request and the timer's thread are scheduled; no
\* one has to make another request.
Fairness ==
  /\ \A c \in Clients : WF_vars(~terminated /\ Serve(c))
  /\ WF_vars(~terminated /\ Timer)

Spec == Init /\ [][Next]_vars /\ Fairness
-----------------------------------------------------------------------------
(***************************************************************************)
(* Properties                                                              *)
(***************************************************************************)
Int32 == (-IntMax - 1)..IntMax

\* The type invariant: the index that at() is called with is never negative.
TypeOK ==
  /\ blinkList \in Seq(Shades)
  /\ isBlinking \in BOOLEAN
  /\ numberOfBlinks \in Int32
  /\ maxNumberOfBlinkRepeats \in Int32
  /\ currentBlinkListIndex \in Nat
  /\ pending \in Nat
  /\ tick \in TickLabels
  /\ pc \in [Clients -> Labels]
  /\ todo \in [Clients -> Seq(Shades)]
  /\ iterations \in [Clients -> Int32]
  /\ led \in Shades \cup Steady
  /\ terminated \in BOOLEAN

\* The requests that are past a Revoke and may still schedule an entry.
Holders == {c \in Clients : pc[c] \in {"arm", "first", "check", "schedule"}}

Ticks == pending + (IF tick = "idle" THEN 0 ELSE 1)

\* The entries of the timer and the requests that may add one are never more
\* than the clients: each request replaces the blinking of the one before it,
\* so that a single client's pattern is played by one chain of callbacks, at
\* the speed that was asked for.  (Schedule adds equal entries blindly: only
\* the Revoke before it keeps the count down.)
TicksBounded == Ticks + Cardinality(Holders) <= Cardinality(Clients)

\* The timer's callback never reads past the end of m_blinkList: at() would
\* throw in a thread that catches nothing, and end the process.
NoOutOfRange == ~terminated

\* While the LED shows a steady value, only a request changes what it shows:
\* no callback that was already due when the blinking was stopped comes late
\* and writes an element of the old pattern over the new value.
RequestWrites == \E c \in Clients : pc[c] \in {"write", "first"}
SteadyStays == [][(led \in Steady /\ led' # led) => RequestWrites]_vars

AllIdle == \A c \in Clients : pc[c] = "idle"

\* When the last round of a pattern is over, the LED stays on the last element
\* ("if not blink again then the led color should stay on the LAST element in
\* the array", frontpanel.cpp:630); m_isBlinking is never cleared by then.
StaysOnLast ==
  AllIdle /\ Ticks = 0 /\ isBlinking /\ blinkList # <<>>
    => led = blinkList[Len(blinkList)]

\* When the requests have returned and the last one was not setBlink, nothing
\* is left in the timer that could still write the LED: no entry waits and no
\* callback runs, whatever device settings threw on the way.
StoppedIsStopped == AllIdle /\ ~isBlinking => Ticks = 0

\* A repeat count below zero means for ever, and so does INT_MAX: no int is
\* greater, so that m_numberOfBlinks <= m_maxNumberOfBlinkRepeats cannot fail.
Endless(n) == n < 0 \/ n = IntMax

\* A pattern with a finite repeat count comes to its end, whatever other
\* requests do in between and whatever device settings throw: the timer runs
\* out of entries.
FiniteBlinkEnds ==
  (isBlinking /\ ~Endless(maxNumberOfBlinkRepeats))
    ~> (Ticks = 0 \/ Endless(maxNumberOfBlinkRepeats) \/ terminated)

\* A pattern that is to blink for ever does, while no request comes in: there
\* is always exactly one entry waiting or callback running, even when device
\* settings throws at every call.
NeverStalls ==
  AllIdle /\ isBlinking /\ Endless(maxNumberOfBlinkRepeats) /\ blinkList # <<>>
    => Ticks = 1

\* Every request returns: stopBlinkTimer waits for a callback that runs, the
\* callback never waits for the request, and it cannot keep itself alive once
\* m_isBlinking is cleared.
RequestReturns == \A c \in Clients : pc[c] # "idle" ~> (pc[c] = "idle" \/ terminated)

\* Why a Revoke is not kept waiting, nor overtaken by the chain that it is to
\* end: each step that is taken while the client waits in it brings it nearer,
\* Ahead being the most steps that the timer's thread still has in it.
StepsAhead == [idle |-> 0, advance |-> 4, show |-> 3, check |-> 2, schedule |-> 6]
Ahead == 5 * pending + StepsAhead[tick]
RevokeComes ==
  [][\A c \in Clients :
       pc[c] \in DOMAIN Returns /\ pc'[c] = pc[c] => Ahead' < Ahead]_vars

\* How the engine uses its timer, with one client: as in TimerUse, which the
\* statements of onBlinkTimer before its test of m_isBlinking and those of a
\* request between its calls on the timer leave as it is.
Anywhere(labels) == \E c \in Clients : pc[c] \in labels
Stage ==
  IF Anywhere(DOMAIN Returns) THEN "stopping"
  ELSE IF Anywhere({"write", "clear", "push", "arm"}) THEN "quiet"
  ELSE IF Anywhere({"first", "check", "schedule"}) THEN "starting" ELSE "none"
Timing == INSTANCE TimerUse WITH
  request <- Stage,
  blinking <- isBlinking,
  waiting <- pending > 0,
  callback <- IF tick = "idle" THEN "none"
              ELSE IF tick = "schedule" THEN "schedules" ELSE "runs"
UsesTimer == Timing!Spec

\* Why a finite pattern ends, for any number of clients: with each step of the
\* timer's thread there are fewer chains and rounds to come, or as many and fewer
\* elements of the round, or as many and fewer steps to the next element.  (An
\* int that overflows would start the rounds again.)
RoundsToCome == IF numberOfBlinks < maxNumberOfBlinkRepeats
               THEN maxNumberOfBlinkRepeats - numberOfBlinks ELSE 0
ChainsAndRounds == Ticks + RoundsToCome
Elements == IF currentBlinkListIndex < Len(blinkList)
            THEN Len(blinkList) - currentBlinkListIndex ELSE 0
StepsToAdvance == [idle |-> 0, advance |-> 0, show |-> 4, check |-> 3, schedule |-> 2]
Steps == pending + StepsToAdvance[tick]
Nearer ==
  \/ ChainsAndRounds' < ChainsAndRounds
  \/ ChainsAndRounds' = ChainsAndRounds /\ Elements' < Elements
  \/ ChainsAndRounds' = ChainsAndRounds /\ Elements' = Elements /\ Steps' < Steps
RunsOut ==
  [][Timer /\ 0 <= maxNumberOfBlinkRepeats /\ numberOfBlinks < IntMax
       => Nearer \/ terminated']_vars

\* Why one client at a time is safe, as an inductive invariant.  The request is
\* past a Revoke wherever it touches what a callback reads, so that a chain of
\* callbacks and such a request exclude each other:
ChainInv ==
  /\ ~terminated
  /\ Ticks <= 1
  /\ \A c \in Clients : Ticks > 0 => pc[c] \in {"idle", "revokeAndWrite", "revokeAndClear"}
  /\ \A c \in Clients : Ticks > 0 /\ pc[c] = "idle" => isBlinking
  /\ \A c \in Clients :
       pc[c] \in {"first", "check", "schedule"}
         => isBlinking /\ blinkList # <<>> /\ currentBlinkListIndex = 0
  /\ \A c \in Clients :
       pc[c] \notin {"idle", "first", "check", "schedule"} => ~isBlinking
  /\ Ticks > 0 => blinkList # <<>>
  /\ tick = "show" => currentBlinkListIndex < Len(blinkList)

\* and between two callbacks the LED shows the element that the index names,
\* which is the last one when the chain has come to its end.
OnElement ==
  currentBlinkListIndex < Len(blinkList) /\ led = blinkList[currentBlinkListIndex + 1]

LedInv ==
  /\ pending > 0 \/ tick \in {"advance", "check", "schedule"} => OnElement
  /\ \A c \in Clients : pc[c] \in {"check", "schedule"} => OnElement
  /\ tick = "show" => led \in Shades
  /\ StaysOnLast

\* What a pattern being played looks like from outside: the request is past
\* its first element, or an entry waits, or a callback runs.  A callback that
\* has advanced but not yet shown still stands on the element before.
Playing == Ticks > 0 \/ \E c \in Clients : pc[c] \in {"check", "schedule"}
Position ==
  IF tick # "show" THEN currentBlinkListIndex + 1
  ELSE IF currentBlinkListIndex = 0 THEN Len(blinkList) ELSE currentBlinkListIndex
RoundsLeft ==
  IF Endless(maxNumberOfBlinkRepeats) THEN -1
  ELSE maxNumberOfBlinkRepeats - numberOfBlinks
         + (IF tick = "show" /\ currentBlinkListIndex = 0 THEN 1 ELSE 0)

Promise == INSTANCE BlinkShow WITH
  Iterations <- {IF Endless(n) THEN -1 ELSE n : n \in Iterations},
  playing <- Playing,
  pattern <- IF Playing THEN blinkList ELSE <<>>,
  pos <- IF Playing THEN Position ELSE 0,
  left <- IF Playing THEN RoundsLeft ELSE 0,
  stopped <- Playing /\ ~isBlinking

\* The engine keeps the promise of BlinkShow: the elements in their order, the
\* right number of rounds, nothing shown once another request has taken over,
\* and no pattern that stops halfway, whatever device settings throws.
KeepsPromise == Promise!Spec
=============================================================================
