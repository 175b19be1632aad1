------------------------------- MODULE Panel -------------------------------
(***************************************************************************)
(* The handlers of FrontPanelImplementation and the CFrontPanel functions  *)
(* they call, on top of the LEDs of device settings and of the modes of    *)
(* PowerManager.  One action is one whole handler (Blink has the           *)
(* interleavings inside them); what comes between handlers is modelled:    *)
(* notifications that arrive late, or while Configure still runs,          *)
(* activations that follow each other in one process or in several, and    *)
(* calls to device settings that throw halfway through a handler.          *)
(***************************************************************************)
EXTENDS Integers, Sequences

CONSTANTS Indicators,  \* the LEDs this box has, in the order of getIndicators()
          Levels,      \* brightnesses that device settings accepts
          Colours,
          InProcess,   \* activations share the process, hence the statics
          IsTV,        \* searchRdkProfile() = TV
          Faults,      \* the sets of calls that may fail in one handler
          MaxQueue     \* bound: notifications under way at the same time

Leds == {"Power", "Message", "Record"}    \* the names the code spells out
Flagged == {"Message", "Record"}
Calls == Leds \cup {"Manager", "PowerManager"}

ASSUME IndicatorsAssumption == Indicators \in Seq(Leds)
ASSUME LevelsAssumption == Levels \subseteq 0..100 /\ Levels # {} /\ Colours # {}
ASSUME FaultsAssumption == Faults \subseteq SUBSET Calls

VARIABLES
  phase,       \* "down", "registered" (inside Configure), "up"
  registered,  \* _registeredEventHandlers
  initDone,
  powerStatus,
  isOn,        \* isMessageLedOn and isRecordLedOn
  globalLedBrightness,
  fpIndicators,
  blinking,    \* the LED whose pattern is being played, or "none"
  lit, bright, colour,   \* device settings: what each LED shows, and the
  saved, savedColour,    \* brightness and the colour it keeps over a reboot
  mode,        \* PowerManager's mode
  queue,       \* its notifications that are still to be delivered
  told,        \* what this activation has been told of the mode, and how
  reply        \* the last answer: its method, LED, value and success

life == <<phase, registered, initDone>>
statics == <<powerStatus, isOn, globalLedBrightness, fpIndicators>>
leds == <<lit, bright, colour, saved, savedColour>>
power == <<mode, queue, told>>
vars == <<life, statics, blinking, leds, power, reply>>

Modes == {"ON", "STANDBY"}
Tellings == {"nothing", "unanswered", "answer", "notification"}

Present == {Indicators[i] : i \in DOMAIN Indicators}

\* getInstance throws for a LED that the box does not have
Throws(l, bad) == l \in bad \cup (Leds \ Present)

\* The LEDs of a sequence that are reached before a call throws.
Reached(seq, bad) ==
  {seq[i] : i \in {j \in DOMAIN seq : \A k \in 1..j : ~Throws(seq[k], bad)}}

With(f, S, v) == [x \in DOMAIN f |-> IF x \in S THEN v ELSE f[x]]

Answer(method, led, value, ok) ==
  reply' = [method |-> method, led |-> led, value |-> value, ok |-> ok]

NoReply == [method |-> "none", led |-> "", value |-> 0, ok |-> TRUE]

FreshStatics ==
  /\ powerStatus' = FALSE /\ isOn' = [l \in Flagged |-> FALSE]
  /\ globalLedBrightness' = 100 /\ fpIndicators' = <<>>

Init ==
  /\ phase = "down" /\ registered = FALSE /\ initDone = FALSE
  /\ powerStatus = FALSE /\ isOn = [l \in Flagged |-> FALSE]
  /\ globalLedBrightness = 100 /\ fpIndicators = <<>>
  /\ blinking = "none"
  /\ lit = [l \in Leds |-> FALSE]
  /\ \E b \in Levels, c \in Colours :
       /\ bright = [l \in Leds |-> b] /\ saved = bright
       /\ colour = [l \in Leds |-> c] /\ savedColour = colour
  /\ mode \in Modes /\ queue = <<>> /\ told = "nothing"
  /\ reply = NoReply

(***************************************************************************)
(* PowerManager, and the life of the implementation                        *)
(***************************************************************************)
ChangeMode ==
  /\ Len(queue) < MaxQueue
  /\ mode' \in Modes \ {mode}
  /\ queue' = IF registered THEN Append(queue, mode') ELSE queue
  /\ UNCHANGED <<life, statics, blinking, leds, told, reply>>

\* InitializePowerManager, the first thing in Configure: notifications come
\* from here on, unless PowerManager could not be reached in time
Register(bad) ==
  /\ phase = "down"
  /\ phase' = "registered"
  /\ registered' = ("PowerManager" \notin bad)
  /\ reply' = NoReply
  /\ UNCHANGED <<initDone, statics, blinking, leds, power>>

(***************************************************************************)
(* CFrontPanel::instance, with the service that gives access to            *)
(* PowerManager or without.  While initDone is not set it makes one long   *)
(* try block: the first call that throws ends it, and initDone is set all  *)
(* the same.  The mode is asked for in that block: it stays unknown when   *)
(* device settings ("Manager") throws before, when PowerManager cannot be  *)
(* reached or when it answers with an error.                               *)
(***************************************************************************)
Answers(bad) == {"Manager", "PowerManager"} \cap bad = {}

PowerUnread(service, bad) == powerStatus                \* mutant: the answer not looked at
PowerRead(service, bad) ==
  powerStatus \/ (~initDone /\ service /\ Answers(bad) /\ mode = "ON")

BrightnessRead(bad) == ~initDone /\ "Manager" \notin bad /\ ~Throws("Power", bad)

LeftAsTheyAre(bad) == {}                               \* mutant: no setState(false)
Darkened(bad) ==
  IF BrightnessRead(bad) /\ ~IsTV THEN Reached(Indicators, bad) ELSE {}

Completes(bad) == BrightnessRead(bad) /\ (IsTV \/ Darkened(bad) = Present)

InstanceLit(on, bad) ==
  With(With(lit, Darkened(bad), FALSE),
       IF Completes(bad) /\ on THEN {"Power"} ELSE {}, TRUE)

Instance(on, bad) ==
  /\ initDone' = TRUE
  /\ fpIndicators' = IF initDone \/ "Manager" \in bad THEN fpIndicators ELSE Indicators
  /\ globalLedBrightness' = IF BrightnessRead(bad) THEN bright["Power"] ELSE globalLedBrightness
  /\ bright' = IF on THEN With(bright, Darkened(bad), bright["Power"]) ELSE bright

\* the rest of Configure: instance(service), and start(), which lights the
\* Power LED (again) when powerStatus is set
Configure(bad) ==
  LET on == PowerRead(TRUE, bad)
      started == IF on /\ ~Throws("Power", bad) THEN {"Power"} ELSE {}
  IN /\ phase = "registered"
     /\ phase' = "up"
     /\ powerStatus' = on
     /\ Instance(on, bad)
     /\ lit' = With(InstanceLit(on, bad), started, TRUE)
     /\ told' = IF initDone THEN told ELSE IF Answers(bad) THEN "answer" ELSE "unanswered"
     /\ UNCHANGED <<registered, isOn, blinking, colour, saved, savedColour, mode, queue, reply>>

TheOtherMode(m) == IF m = "ON" THEN "STANDBY" ELSE "ON"   \* mutant: currentState taken
NewState(m) == m

\* The handler only notes the mode.  When it comes before Configure gets to
\* instance(service), it makes the instance itself, without the service.
OnPowerModeChanged(bad) ==
  /\ queue # <<>>
  /\ queue' = Tail(queue)
  /\ powerStatus' = (NewState(Head(queue)) = "ON") /\ told' = "notification"
  /\ Instance(powerStatus, bad)
  /\ lit' = InstanceLit(powerStatus, bad)
  /\ UNCHANGED <<phase, registered, isOn, blinking, colour, saved, savedColour, mode, reply>>

\* ~FrontPanelImplementation and deinitialize.  Out of process the statics go
\* with the process; in process the next activation finds them as they are.
Deactivate ==
  /\ phase = "up"
  /\ phase' = "down" /\ registered' = FALSE /\ initDone' = FALSE
  /\ queue' = <<>> /\ told' = "nothing" /\ blinking' = "none"
  /\ IF InProcess THEN UNCHANGED statics ELSE FreshStatics
  /\ UNCHANGED <<leds, mode, reply>>

(***************************************************************************)
(* Requests.  Each but the reads stops the blinking first.                 *)
(***************************************************************************)
Request == phase = "up" /\ UNCHANGED <<life, power>>
BlinkingGoesOn == UNCHANGED blinking                   \* mutant: no stopBlinkTimer
StopBlinking == blinking' = "none"

\* powerOnLed(ALL), at the end of a global setBrightness: these LEDs in this
\* order, until a call throws
AllLeds == <<"Message", "Record", "Power">>
IsRelit(l) == l = "Power" \/ isOn[l]
ReachedOfAll(bad) ==
  {AllLeds[i] : i \in {j \in DOMAIN AllLeds :
     /\ IsRelit(AllLeds[j])
     /\ \A k \in 1..j : IsRelit(AllLeds[k]) => ~Throws(AllLeds[k], bad)}}
RelitInStandby(bad) == ReachedOfAll(bad)               \* mutant: no test of powerStatus
Relit(bad) == IF powerStatus THEN ReachedOfAll(bad) ELSE {}

\* CFrontPanel::setBrightness: the loop ends at the first call that throws,
\* the rest goes on, and the answer is true
SetBrightnessOfAll(b, bad) ==
  LET loop == Reached(fpIndicators, bad)
  IN /\ Request /\ StopBlinking
     /\ globalLedBrightness' = b
     /\ bright' = With(bright, loop, b) /\ saved' = With(saved, loop, b)
     /\ lit' = With(lit, Relit(bad), TRUE)
     /\ Answer("setBrightness", "all", b, TRUE)
     /\ UNCHANGED <<powerStatus, isOn, fpIndicators, colour, savedColour>>

SetBrightnessOf(l, b, bad) ==
  LET done == IF Throws(l, bad) THEN {} ELSE {l}
  IN /\ Request /\ StopBlinking
     /\ bright' = With(bright, done, b) /\ saved' = With(saved, done, b)
     /\ Answer("setBrightness", l, b, done # {})
     /\ UNCHANGED <<statics, lit, colour, savedColour>>

\* no LED named and more than 100 asked for: refused, but the blinking stops
RefuseBrightness ==
  /\ Request /\ StopBlinking
  /\ Answer("setBrightness", "all", 101, FALSE)
  /\ UNCHANGED <<statics, leds>>

\* GetBrightness without a LED: refreshes the cached value if it can
GetBrightnessOfAll(bad) ==
  /\ Request
  /\ globalLedBrightness' = IF Throws("Power", bad) THEN globalLedBrightness ELSE bright["Power"]
  /\ Answer("getBrightness", "all", 0, TRUE)
  /\ UNCHANGED <<powerStatus, isOn, fpIndicators, blinking, leds>>

\* powerOnLed: the flag is set before the call that may throw; in standby
\* nothing happens and the answer is true
PowerLedOn(l, bad) ==
  /\ Request /\ StopBlinking
  /\ isOn' = IF powerStatus THEN With(isOn, {l}, TRUE) ELSE isOn
  /\ lit' = IF powerStatus /\ ~Throws(l, bad) THEN With(lit, {l}, TRUE) ELSE lit
  /\ Answer("powerLedOn", l, 0, powerStatus => ~Throws(l, bad))
  /\ UNCHANGED <<powerStatus, globalLedBrightness, fpIndicators>>
  /\ UNCHANGED <<bright, colour, saved, savedColour>>

PowerLedOff(l, bad) ==
  /\ Request /\ StopBlinking
  /\ isOn' = With(isOn, {l}, FALSE)
  /\ lit' = IF Throws(l, bad) THEN lit ELSE With(lit, {l}, FALSE)
  /\ Answer("powerLedOff", l, 0, ~Throws(l, bad))
  /\ UNCHANGED <<powerStatus, globalLedBrightness, fpIndicators>>
  /\ UNCHANGED <<bright, colour, saved, savedColour>>

\* The brightness that an element of a pattern or a setLED shows; -1 stands
\* for the one that is saved.
AsAsked(l, b) == b                                     \* mutant: -1 passed on
Wanted(l, b) == IF b = -1 THEN saved[l] ELSE b

\* Colour (the one it has when none is asked for), then brightness, in a try
\* block each.  The brightness is not kept over a reboot, the colour only where
\* setColor is called with its default.
\* mutant: every call with toPersist left at its default
Persisted(l, c, kept, b, noColour, noBrightness) ==
  /\ colour' = IF noColour THEN colour ELSE [colour EXCEPT ![l] = c]
  /\ bright' = IF noBrightness THEN bright ELSE [bright EXCEPT ![l] = Wanted(l, b)]
  /\ saved' = bright' /\ savedColour' = colour' /\ UNCHANGED lit
SetColourAndBrightness(l, c, kept, b, noColour, noBrightness) ==
  /\ colour' = IF noColour THEN colour ELSE [colour EXCEPT ![l] = c]
  /\ savedColour' = IF kept /\ ~noColour THEN [savedColour EXCEPT ![l] = c] ELSE savedColour
  /\ bright' = IF noBrightness THEN bright ELSE [bright EXCEPT ![l] = Wanted(l, b)]
  /\ UNCHANGED <<lit, saved>>

\* rgb: the colour is given by its red, green and blue, and kept, or by its name
SetLED(l, c, rgb, b, noColour, noBrightness) ==
  /\ Request /\ StopBlinking
  /\ SetColourAndBrightness(l, c, rgb, b, noColour, noBrightness)
  /\ Answer("setLED", l, c, ~noBrightness)
  /\ UNCHANGED statics

\* setBlink shows the first element, ticks of the timer the following ones
SetBlink(l, c, b, noColour, noBrightness) ==
  /\ Request
  /\ blinking' = l
  /\ SetColourAndBrightness(l, c, FALSE, b, noColour, noBrightness)
  /\ Answer("setBlink", l, 0, TRUE)
  /\ UNCHANGED statics

\* a pattern without elements
SetEmptyBlink(l) ==
  /\ Request /\ StopBlinking
  /\ Answer("setBlink", l, 0, TRUE)
  /\ UNCHANGED <<statics, leds>>

Tick(l, c, b, noColour, noBrightness) ==
  /\ phase = "up" /\ blinking = l
  /\ SetColourAndBrightness(l, c, FALSE, b, noColour, noBrightness)
  /\ UNCHANGED <<life, power, statics, blinking, reply>>

EndOfBlink ==
  /\ phase = "up" /\ blinking # "none"
  /\ StopBlinking
  /\ UNCHANGED <<life, power, statics, leds, reply>>

-----------------------------------------------------------------------------
\* a request calls nothing but LEDs
LedFaults == {bad \cap Leds : bad \in Faults}

ServeBrightness(bad) ==
  \/ \E b \in Levels : SetBrightnessOfAll(b, bad)
  \/ \E l \in Leds, b \in Levels : SetBrightnessOf(l, b, bad)
  \/ RefuseBrightness
  \/ GetBrightnessOfAll(bad)

ServePower(bad) == \E l \in Leds : PowerLedOn(l, bad) \/ PowerLedOff(l, bad)

Show ==
  \E l \in Leds, c \in Colours, b \in Levels \cup {-1} :
  \E noColour, noBrightness \in {Throws(l, bad) : bad \in LedFaults} :
    \/ \E rgb \in BOOLEAN : SetLED(l, c, rgb, b, noColour, noBrightness)
    \/ SetBlink(l, c, b, noColour, noBrightness)
    \/ Tick(l, c, b, noColour, noBrightness)

Next ==
  \/ ChangeMode
  \/ \E bad \in Faults :
       Register(bad) \/ Configure(bad) \/ OnPowerModeChanged(bad)
  \/ \E bad \in LedFaults : ServeBrightness(bad) \/ ServePower(bad)
  \/ Show
  \/ \E l \in Leds : SetEmptyBlink(l)
  \/ Deactivate
  \/ EndOfBlink

Spec == Init /\ [][Next]_vars

-----------------------------------------------------------------------------
(***************************************************************************)
(* Properties                                                              *)
(***************************************************************************)
\* The type invariant.
TypeOK ==
  /\ phase \in {"down", "registered", "up"}
  /\ {registered, initDone, powerStatus} \subseteq BOOLEAN
  /\ isOn \in [Flagged -> BOOLEAN] /\ lit \in [Leds -> BOOLEAN]
  /\ globalLedBrightness \in Levels \cup {100}
  /\ fpIndicators \in {<<>>, Indicators}
  /\ blinking \in Leds \cup {"none"}
  /\ {bright, saved} \subseteq [Leds -> Levels]
  /\ {colour, savedColour} \subseteq [Leds -> Colours]
  /\ mode \in Modes /\ queue \in Seq(Modes) /\ told \in Tellings

\* Once every notification is delivered, powerStatus is PowerManager's mode,
\* unless PowerManager has told nothing of it: no change of mode falls between
\* registering for notifications and reading the mode, whichever of the
\* notification and Configure comes first, with each handler whole
\* (PowerSettled in Singleton says the same statement by statement).
PowerKnown ==
  phase = "up" /\ registered /\ queue = <<>> /\ told # "unanswered" =>
    powerStatus = (mode = "ON")

\* How powerStatus follows PowerManager between Register and Deactivate: the
\* mode is asked for once at most, before anything is noted, and each
\* notification is noted in its turn; no request, no instance() that comes late
\* touches it.  In process it begins as what the activation before has left.
Follow == INSTANCE PowerFollow WITH
  following <- registered,
  fresh <- registered /\ ~InProcess,
  told <- IF registered THEN told ELSE "nothing",
  status <- registered /\ powerStatus
FollowsPower == Follow!Spec

\* What the plugin remembers of the Message and Record LEDs, and lights again
\* with a global setBrightness, is what they show: switching them on and off,
\* the darkening at an activation and the relighting keep the two together, as
\* long as device settings does not fail.
FlagsAgree == \A l \in Flagged \cap Present : phase = "up" => isOn[l] = lit[l]

\* In standby, as far as the plugin knows, nothing lights a dark LED: not an
\* activation, nor a request, nor the relighting that a request brings along.
LightsNeedPower == [][\A l \in Leds : ~lit[l] /\ lit'[l] => powerStatus']_vars

\* What is kept over a reboot is what clients asked for, LED by LED: the
\* brightness of a setBrightness, the colour of a setLED.  Patterns and
\* activations leave no trace in it, even when a handler is cut short.
SavedByRequest ==
  [][\A l \in Leds :
       /\ saved'[l] # saved[l] =>
            /\ reply'.method = "setBrightness" /\ reply'.ok /\ blinking' = "none"
            /\ reply'.led \in {l, "all"} /\ reply'.value = saved'[l]
       /\ savedColour'[l] # savedColour[l] =>
            /\ reply'.method = "setLED" /\ blinking' = "none"
            /\ reply'.led = l /\ reply'.value = savedColour'[l]]_vars

\* An answer of success to setBrightness or powerLedOff for one LED is true,
\* and stays true until another request comes: no pattern goes on behind it.
HonestAnswers ==
  phase = "up" /\ reply.ok /\ reply.led \in Leds =>
    /\ reply.method = "setBrightness" =>
         bright[reply.led] = reply.value /\ saved[reply.led] = reply.value
    /\ reply.method = "powerLedOff" => ~lit[reply.led]

\* An answer of success to setLED means that the LED has the colour: the
\* handler "returns false in case of failure".
ColourHonest ==
  phase = "up" /\ reply.method = "setLED" /\ reply.ok => colour[reply.led] = reply.value
=============================================================================
