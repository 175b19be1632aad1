---------------------------- MODULE PanelProofs ----------------------------
(***************************************************************************)
(* Proofs about Panel, for any box, any brightnesses and colours, any set  *)
(* of calls that may fail and queues of any length.                        *)
(***************************************************************************)
EXTENDS Panel, TLAPS

\* Setting some of the LEDs on or off leaves them on or off.
LEMMA WithTypes ==
  ASSUME NEW S, NEW f \in [Leds -> BOOLEAN], NEW v \in BOOLEAN
  PROVE  With(f, S, v) \in [Leds -> BOOLEAN]
BY DEF With

\* What shows a colour and a brightness asks for ones that there are.
LEMMA ShownTypes ==
  ASSUME TypeOK, NEW l \in Leds, NEW c \in Colours, NEW kept, NEW b \in Levels \cup {-1},
         NEW noColour, NEW noBrightness,
         SetColourAndBrightness(l, c, kept, b, noColour, noBrightness)
  PROVE  /\ bright' \in [Leds -> Levels]
         /\ colour' \in [Leds -> Colours] /\ savedColour' \in [Leds -> Colours]
         /\ \A k \in Leds : savedColour'[k] # savedColour[k] => kept /\ k = l /\ savedColour'[k] = c
         /\ UNCHANGED <<lit, saved>>
<1>1. Wanted(l, b) \in Levels
  BY LevelsAssumption DEF Wanted, TypeOK
<1> QED
  BY <1>1 DEF SetColourAndBrightness, TypeOK

\* instance() leaves what it sets within its type.
LEMMA InstanceTypes ==
  ASSUME TypeOK, NEW on \in BOOLEAN, NEW bad, Instance(on, bad)
  PROVE  /\ initDone' = TRUE /\ fpIndicators' \in {<<>>, Indicators}
         /\ globalLedBrightness' \in Levels \cup {100}
         /\ bright' \in [Leds -> Levels]
         /\ InstanceLit(on, bad) \in [Leds -> BOOLEAN]
<1>1. bright \in [Leds -> Levels] /\ lit \in [Leds -> BOOLEAN] /\ "Power" \in Leds
  BY DEF TypeOK, Leds
<1>2. With(bright, Darkened(bad), bright["Power"]) \in [Leds -> Levels]
  BY <1>1 DEF With
<1>3. With(lit, Darkened(bad), FALSE) \in [Leds -> BOOLEAN]
  BY <1>1 DEF With
<1>4. InstanceLit(on, bad) \in [Leds -> BOOLEAN]
  BY <1>3 DEF With, InstanceLit
<1> QED
  BY <1>1, <1>2, <1>4 DEF Instance, TypeOK

\* A second call of instance() does nothing.
LEMMA InstanceTwice ==
  ASSUME TypeOK, initDone, NEW on, NEW bad, Instance(on, bad)
  PROVE  UNCHANGED <<globalLedBrightness, fpIndicators, bright>> /\ InstanceLit(on, bad) = lit
<1>1. ~BrightnessRead(bad)
  BY DEF BrightnessRead
<1>2. Darkened(bad) = {} /\ ~Completes(bad)
  BY <1>1 DEF Darkened, Completes
<1>3. \A f \in [Leds -> Levels] : With(f, {}, f["Power"]) = f
  BY DEF With
<1>4. \A f \in [Leds -> BOOLEAN] : With(f, {}, FALSE) = f /\ With(f, {}, TRUE) = f
  BY DEF With
<1> QED
  BY <1>1, <1>2, <1>3, <1>4 DEF Instance, InstanceLit, TypeOK

-----------------------------------------------------------------------------
(***************************************************************************)
(* Types, honest answers, and what is kept over a reboot.                  *)
(***************************************************************************)
\* No pattern goes on behind an answer that says what the LED shows, and an
\* activation begins and ends without an answer.
PanelInv ==
  /\ TypeOK
  /\ phase = "up" => initDone
  /\ phase = "registered" => reply = NoReply
  /\ phase = "up" /\ reply.method \in {"setBrightness", "powerLedOff"} => blinking = "none"
  /\ HonestAnswers

Saved ==
  \A l \in Leds :
    /\ saved'[l] # saved[l] =>
         /\ reply'.method = "setBrightness" /\ reply'.ok /\ blinking' = "none"
         /\ reply'.led \in {l, "all"} /\ reply'.value = saved'[l]
    /\ savedColour'[l] # savedColour[l] =>
         /\ reply'.method = "setLED" /\ blinking' = "none"
         /\ reply'.led = l /\ reply'.value = savedColour'[l]

\* At first nobody has asked.
LEMMA PanelInit == Init => PanelInv
<1> SUFFICES ASSUME Init PROVE PanelInv
  OBVIOUS
<1>1. TypeOK
  <2>1. /\ bright \in [Leds -> Levels] /\ saved \in [Leds -> Levels]
        /\ colour \in [Leds -> Colours] /\ savedColour \in [Leds -> Colours]
    BY DEF Init
  <2>2. isOn \in [Flagged -> BOOLEAN] /\ lit \in [Leds -> BOOLEAN]
    BY DEF Init
  <2>3. queue \in Seq(Modes) /\ mode \in Modes /\ told \in Tellings
    BY DEF Init, Tellings
  <2> QED
    BY <2>1, <2>2, <2>3 DEF Init, TypeOK
<1> QED
  BY <1>1 DEF Init, PanelInv, HonestAnswers, NoReply

\* PowerManager and activations.
LEMMA PanelLife ==
  ASSUME PanelInv, NEW bad,
         ChangeMode \/ Register(bad) \/ Configure(bad) \/ OnPowerModeChanged(bad) \/ Deactivate
  PROVE  PanelInv' /\ UNCHANGED <<saved, savedColour>>
<1> USE DEF PanelInv, life, statics, leds, power
<1>1. CASE ChangeMode
  <2>1. queue' \in Seq(Modes) /\ mode' \in Modes
    BY <1>1 DEF ChangeMode, TypeOK
  <2> QED
    BY <1>1, <2>1 DEF ChangeMode, TypeOK, HonestAnswers
<1>2. CASE Register(bad)
  BY <1>2 DEF Register, TypeOK, HonestAnswers, NoReply
<1>3. CASE Configure(bad)
  <2> DEFINE on == PowerRead(TRUE, bad)
             started == IF on /\ ~Throws("Power", bad) THEN {"Power"} ELSE {}
  <2>1. on \in BOOLEAN
    BY DEF PowerRead, TypeOK
  <2>2. /\ Instance(on, bad) /\ powerStatus' = on /\ phase' = "up" /\ reply' = reply
        /\ lit' = With(InstanceLit(on, bad), started, TRUE)
        /\ told' \in Tellings /\ phase = "registered"
        /\ UNCHANGED <<registered, isOn, blinking, colour, saved, savedColour, mode, queue>>
    BY <1>3 DEF Configure, TypeOK, Tellings
  <2>3. /\ initDone' = TRUE /\ fpIndicators' \in {<<>>, Indicators}
        /\ globalLedBrightness' \in Levels \cup {100}
        /\ bright' \in [Leds -> Levels]
        /\ InstanceLit(on, bad) \in [Leds -> BOOLEAN]
    BY <2>1, <2>2, InstanceTypes
  <2> HIDE DEF on, started
  <2>4. lit' \in [Leds -> BOOLEAN]
    <3>1. lit' = With(InstanceLit(on, bad), started, TRUE)
      BY <2>2
    <3> QED
      BY <2>3, <3>1, WithTypes
  <2>5. TypeOK'
    <3>1. {registered', initDone', powerStatus'} \subseteq BOOLEAN
      BY <2>1, <2>2, <2>3 DEF TypeOK
    <3>2. /\ UNCHANGED <<isOn, blinking, colour, saved, savedColour, mode, queue>>
          /\ phase' = "up" /\ told' \in Tellings
      BY <2>2
    <3> QED
      BY <2>3, <2>4, <3>1, <3>2 DEF TypeOK
  <2>6. reply' = NoReply /\ NoReply.method = "none" /\ NoReply.led \notin Leds
    BY <2>2 DEF NoReply, Leds
  <2> QED
    BY <2>2, <2>3, <2>5, <2>6 DEF HonestAnswers
<1>4. CASE OnPowerModeChanged(bad)
  <2>1. /\ Instance(powerStatus, bad) /\ lit' = InstanceLit(powerStatus, bad)
        /\ queue' = Tail(queue) /\ queue # <<>> /\ powerStatus' \in BOOLEAN
        /\ UNCHANGED <<phase, registered, isOn, blinking, colour, saved, savedColour, mode, reply>>
        /\ told' \in Tellings
    BY <1>4 DEF OnPowerModeChanged, Tellings
  <2>2. /\ initDone' = TRUE /\ fpIndicators' \in {<<>>, Indicators}
        /\ globalLedBrightness' \in Levels \cup {100}
        /\ bright' \in [Leds -> Levels] /\ lit' \in [Leds -> BOOLEAN]
    <3>1. powerStatus \in BOOLEAN
      BY DEF TypeOK
    <3> QED
      BY <2>1, <3>1, InstanceTypes
  <2>3. queue' \in Seq(Modes)
    BY <2>1 DEF TypeOK
  <2>4. TypeOK'
    BY <2>1, <2>2, <2>3 DEF TypeOK
  <2>5. phase = "up" => UNCHANGED <<bright, lit>>
    BY <2>1, InstanceTwice
  <2> QED
    BY <2>1, <2>2, <2>4, <2>5 DEF HonestAnswers
<1>5. CASE Deactivate
  <2>1. TypeOK'
    <3>1. /\ powerStatus' \in BOOLEAN /\ isOn' \in [Flagged -> BOOLEAN]
          /\ globalLedBrightness' \in Levels \cup {100} /\ fpIndicators' \in {<<>>, Indicators}
      <4>1. CASE InProcess
        BY <1>5, <4>1 DEF Deactivate, TypeOK
      <4>2. CASE ~InProcess
        <5>1. FreshStatics
          BY <1>5, <4>2 DEF Deactivate
        <5> QED
          BY <5>1 DEF FreshStatics
      <4> QED
        BY <4>1, <4>2
    <3>2. queue' \in Seq(Modes)
      BY <1>5 DEF Deactivate
    <3> QED
      BY <1>5, <3>1, <3>2 DEF Deactivate, TypeOK, Tellings
  <2> QED
    BY <1>5, <2>1 DEF Deactivate, HonestAnswers
<1> QED
  BY <1>1, <1>2, <1>3, <1>4, <1>5

\* Requests about brightness: what is saved is what was asked for.
LEMMA PanelBrightness ==
  ASSUME PanelInv, NEW bad, ServeBrightness(bad) PROVE PanelInv' /\ Saved
<1> USE DEF PanelInv, Request, StopBlinking, Answer, life, statics, leds, power
<1>0. /\ lit \in [Leds -> BOOLEAN] /\ bright \in [Leds -> Levels] /\ saved \in [Leds -> Levels]
      /\ "all" \notin Leds /\ "Power" \in Leds
  BY DEF TypeOK, Leds
<1>1. ASSUME NEW b \in Levels, SetBrightnessOfAll(b, bad) PROVE PanelInv' /\ Saved
  <2>1. PICK loop, on : /\ bright' = With(bright, loop, b) /\ saved' = With(saved, loop, b)
                        /\ lit' = With(lit, on, TRUE)
    BY <1>1 DEF SetBrightnessOfAll
  <2>2. /\ bright' \in [Leds -> Levels] /\ saved' \in [Leds -> Levels]
        /\ lit' \in [Leds -> BOOLEAN]
        /\ \A l \in Leds : saved'[l] # saved[l] => saved'[l] = b
    BY <1>0, <1>1, <2>1 DEF With
  <2>3. /\ UNCHANGED <<phase, registered, initDone, mode, queue, told, powerStatus, isOn,
                      fpIndicators, colour, savedColour>>
        /\ blinking' = "none" /\ globalLedBrightness' = b /\ phase = "up"
        /\ reply' = [method |-> "setBrightness", led |-> "all", value |-> b, ok |-> TRUE]
    BY <1>1 DEF SetBrightnessOfAll
  <2>4. TypeOK'
    BY <2>2, <2>3 DEF TypeOK
  <2> QED
    BY <1>0, <2>2, <2>3, <2>4 DEF HonestAnswers, Saved
<1>2. ASSUME NEW l \in Leds, NEW b \in Levels, SetBrightnessOf(l, b, bad)
      PROVE  PanelInv' /\ Saved
  <2>1. PICK done \in {{}, {l}} :
          /\ bright' = With(bright, done, b) /\ saved' = With(saved, done, b)
          /\ reply' = [method |-> "setBrightness", led |-> l, value |-> b, ok |-> done # {}]
    BY <1>2 DEF SetBrightnessOf
  <2>2. /\ bright' \in [Leds -> Levels] /\ saved' \in [Leds -> Levels]
        /\ reply'.ok => bright'[l] = b /\ saved'[l] = b
        /\ \A k \in Leds : saved'[k] # saved[k] => k = l /\ saved'[k] = b /\ reply'.ok
    BY <1>0, <2>1 DEF With
  <2>3. /\ UNCHANGED <<phase, registered, initDone, mode, queue, told, powerStatus, isOn,
                      globalLedBrightness, fpIndicators, lit, colour, savedColour>>
        /\ blinking' = "none" /\ phase = "up"
    BY <1>2 DEF SetBrightnessOf
  <2>4. TypeOK'
    BY <2>2, <2>3 DEF TypeOK
  <2> QED
    BY <2>1, <2>2, <2>3, <2>4 DEF HonestAnswers, Saved
<1>3. CASE RefuseBrightness
  BY <1>0, <1>3 DEF RefuseBrightness, TypeOK, HonestAnswers, Saved
<1>4. CASE GetBrightnessOfAll(bad)
  <2>1. /\ UNCHANGED <<phase, registered, initDone, mode, queue, told, powerStatus, isOn,
                      fpIndicators, blinking, lit, bright, saved, colour, savedColour>>
        /\ globalLedBrightness' \in {globalLedBrightness, bright["Power"]} /\ phase = "up"
        /\ reply' = [method |-> "getBrightness", led |-> "all", value |-> 0, ok |-> TRUE]
    BY <1>4 DEF GetBrightnessOfAll
  <2>2. TypeOK'
    BY <1>0, <2>1 DEF TypeOK
  <2> QED
    BY <1>0, <2>1, <2>2 DEF HonestAnswers, Saved
<1> QED
  BY <1>1, <1>2, <1>3, <1>4 DEF ServeBrightness

\* Switching an LED on or off.
LEMMA PanelPower ==
  ASSUME PanelInv, NEW bad, ServePower(bad) PROVE PanelInv' /\ Saved
<1> USE DEF PanelInv, Request, StopBlinking, Answer, life, statics, leds, power
<1>0. lit \in [Leds -> BOOLEAN] /\ isOn \in [Flagged -> BOOLEAN]
  BY DEF TypeOK
<1>1. ASSUME NEW l \in Leds, PowerLedOn(l, bad) PROVE PanelInv' /\ Saved
  <2>1. isOn' \in [Flagged -> BOOLEAN] /\ lit' \in [Leds -> BOOLEAN]
    BY <1>0, <1>1 DEF PowerLedOn, With
  <2>2. /\ UNCHANGED <<phase, registered, initDone, mode, queue, told, powerStatus,
                      globalLedBrightness, fpIndicators, bright, saved, colour, savedColour>>
        /\ blinking' = "none" /\ phase = "up" /\ reply'.method = "powerLedOn"
    BY <1>1 DEF PowerLedOn
  <2>3. TypeOK'
    BY <2>1, <2>2 DEF TypeOK
  <2> QED
    BY <2>2, <2>3 DEF HonestAnswers, Saved
<1>2. ASSUME NEW l \in Leds, PowerLedOff(l, bad) PROVE PanelInv' /\ Saved
  <2>1. isOn' \in [Flagged -> BOOLEAN] /\ lit' \in [Leds -> BOOLEAN]
    BY <1>0, <1>2 DEF PowerLedOff, With
  <2>2. /\ UNCHANGED <<phase, registered, initDone, mode, queue, told, powerStatus,
                      globalLedBrightness, fpIndicators, bright, saved, colour, savedColour>>
        /\ blinking' = "none" /\ phase = "up"
        /\ reply' = [method |-> "powerLedOff", led |-> l, value |-> 0, ok |-> ~Throws(l, bad)]
    BY <1>2 DEF PowerLedOff
  <2>3. reply'.ok => ~lit'[l]
    <3>1. reply'.ok = ~Throws(l, bad)
      BY <2>2
    <3>2. CASE Throws(l, bad)
      BY <3>1, <3>2
    <3>3. CASE ~Throws(l, bad)
      <4>1. lit' = [x \in Leds |-> IF x \in {l} THEN FALSE ELSE lit[x]]
        BY <1>0, <1>2, <3>3 DEF PowerLedOff, With
      <4> QED
        BY <4>1
    <3> QED
      BY <3>2, <3>3
  <2>4. TypeOK'
    BY <2>1, <2>2 DEF TypeOK
  <2> QED
    BY <2>2, <2>3, <2>4 DEF HonestAnswers, Saved
<1> QED
  BY <1>1, <1>2 DEF ServePower

\* Colours and patterns leave what is saved alone, and write no LED behind an
\* answer, since the request has ended the pattern.
LEMMA PanelShow ==
  ASSUME PanelInv, Show \/ EndOfBlink \/ \E l \in Leds : SetEmptyBlink(l)
  PROVE  PanelInv' /\ Saved
<1> USE DEF PanelInv, Request, StopBlinking, Answer, life, statics, leds, power
<1>1. CASE EndOfBlink
  BY <1>1 DEF EndOfBlink, TypeOK, HonestAnswers, Saved
<1>2. ASSUME NEW l \in Leds, SetEmptyBlink(l) PROVE PanelInv' /\ Saved
  BY <1>2 DEF SetEmptyBlink, TypeOK, HonestAnswers, Saved
<1>3. ASSUME NEW l \in Leds, NEW c \in Colours, NEW b \in Levels \cup {-1},
             NEW rgb, NEW noColour, NEW noBrightness,
             \/ SetLED(l, c, rgb, b, noColour, noBrightness)
             \/ SetBlink(l, c, b, noColour, noBrightness)
             \/ Tick(l, c, b, noColour, noBrightness)
      PROVE  PanelInv' /\ Saved
  <2>1. PICK kept \in {FALSE, rgb} :
          /\ SetColourAndBrightness(l, c, kept, b, noColour, noBrightness)
          /\ kept => SetLED(l, c, rgb, b, noColour, noBrightness)
    BY <1>3 DEF SetLED, SetBlink, Tick
  <2>2. /\ bright' \in [Leds -> Levels]
        /\ colour' \in [Leds -> Colours] /\ savedColour' \in [Leds -> Colours]
        /\ \A k \in Leds : savedColour'[k] # savedColour[k] => kept /\ k = l /\ savedColour'[k] = c
        /\ UNCHANGED <<lit, saved>>
    BY <2>1, ShownTypes
  <2>3. /\ UNCHANGED <<phase, registered, initDone, mode, queue, told, powerStatus, isOn,
                      globalLedBrightness, fpIndicators>>
        /\ blinking' \in Leds \cup {"none"} /\ phase = "up"
        /\ \/ reply'.method \in {"setLED", "setBlink"}
           \/ reply' = reply /\ blinking' = blinking /\ blinking # "none"
    <3>1. CASE SetLED(l, c, rgb, b, noColour, noBrightness)
      BY <3>1 DEF SetLED
    <3>2. CASE SetBlink(l, c, b, noColour, noBrightness)
      BY <3>2 DEF SetBlink
    <3>3. CASE Tick(l, c, b, noColour, noBrightness)
      <4>1. "none" \notin Leds
        BY DEF Leds
      <4> QED
        BY <3>3, <4>1 DEF Tick
    <3> QED
      BY <1>3, <3>1, <3>2, <3>3
  <2>4. kept => reply'.method = "setLED" /\ reply'.led = l /\ reply'.value = c /\ blinking' = "none"
    BY <2>1 DEF SetLED
  <2>5. TypeOK'
    BY <2>2, <2>3 DEF TypeOK
  <2>6. Saved
    BY <2>2, <2>4 DEF Saved
  <2> QED
    BY <2>2, <2>3, <2>5, <2>6 DEF HonestAnswers
<1> QED
  BY <1>1, <1>2, <1>3 DEF Show

\* Every step keeps PanelInv and saves only what was asked for.
LEMMA PanelStep == ASSUME PanelInv, [Next]_vars PROVE PanelInv' /\ Saved
<1>1. CASE UNCHANGED vars
  BY <1>1 DEF vars, life, statics, leds, power, PanelInv, TypeOK, HonestAnswers, Saved
<1> QED
  BY <1>1, PanelLife, PanelBrightness, PanelPower, PanelShow DEF Next, Saved

\* The state keeps its types, whatever fails.
THEOREM PanelTypes == Spec => []TypeOK
<1>1. PanelInv => TypeOK
  BY DEF PanelInv
<1> QED
  BY <1>1, PanelInit, PanelStep, PTL DEF Spec

\* An answer of success to setBrightness or powerLedOff for one LED is true and
\* stays true, whichever calls fail, in and out of process.
THEOREM AnswersAreHonest == Spec => []HonestAnswers
<1>1. PanelInv => HonestAnswers
  BY DEF PanelInv
<1> QED
  BY <1>1, PanelInit, PanelStep, PTL DEF Spec

\* The brightness kept over a reboot changes only by setBrightness and the
\* colour only by setLED, to what was asked for, whichever calls fail.
THEOREM OnlyRequestsSave == Spec => SavedByRequest
<1>1. PanelInv /\ [Next]_vars => [Saved]_vars
  BY PanelStep
<1>2. Spec => [][Saved]_vars
  BY <1>1, PanelInit, PanelStep, PTL DEF Spec
<1> QED
  BY <1>2 DEF SavedByRequest, Saved

-----------------------------------------------------------------------------
(***************************************************************************)
(* The power status, when each activation has a process of its own.        *)
(***************************************************************************)
\* Requests, ticks and the end of a pattern do not touch the power status, and
\* light nothing without it.
LightsStep == \A l \in Leds : ~lit[l] /\ lit'[l] => powerStatus'

LEMMA QuietStep ==
  ASSUME TypeOK, NEW bad,
         \/ ServeBrightness(bad) \/ ServePower(bad) \/ Show \/ EndOfBlink
         \/ (\E l \in Leds : SetEmptyBlink(l)) \/ UNCHANGED vars
  PROVE  UNCHANGED <<life, power, powerStatus>> /\ LightsStep
<1> USE DEF Request, StopBlinking, Answer, life, statics, leds, power
<1>0. lit \in [Leds -> BOOLEAN]
  BY DEF TypeOK
<1>1. ASSUME NEW b \in Levels, SetBrightnessOfAll(b, bad)
      PROVE  UNCHANGED <<life, power, powerStatus>> /\ LightsStep
  <2>1. UNCHANGED <<life, power, powerStatus>> /\ lit' = With(lit, Relit(bad), TRUE)
    BY <1>1 DEF SetBrightnessOfAll
  <2>2. ~powerStatus => Relit(bad) = {}
    BY DEF Relit
  <2> QED
    BY <1>0, <2>1, <2>2 DEF With, LightsStep
<1>2. ASSUME NEW l \in Leds, PowerLedOn(l, bad)
      PROVE  UNCHANGED <<life, power, powerStatus>> /\ LightsStep
  <2>1. UNCHANGED <<life, power, powerStatus>> /\ (powerStatus \/ lit' = lit)
    BY <1>2 DEF PowerLedOn
  <2> QED
    BY <2>1 DEF LightsStep
<1>3. ASSUME NEW l \in Leds, PowerLedOff(l, bad)
      PROVE  UNCHANGED <<life, power, powerStatus>> /\ LightsStep
  <2>1. UNCHANGED <<life, power, powerStatus>> /\ lit' \in {lit, With(lit, {l}, FALSE)}
    BY <1>3 DEF PowerLedOff
  <2> QED
    BY <1>0, <2>1 DEF With, LightsStep
<1>4. CASE \/ (\E l \in Leds, b \in Levels : SetBrightnessOf(l, b, bad))
           \/ RefuseBrightness \/ GetBrightnessOfAll(bad)
           \/ EndOfBlink \/ (\E l \in Leds : SetEmptyBlink(l)) \/ UNCHANGED vars
  <2>1. UNCHANGED <<life, power, powerStatus, lit>>
    BY <1>4 DEF SetBrightnessOf, RefuseBrightness, GetBrightnessOfAll, EndOfBlink, SetEmptyBlink,
       vars
  <2> QED
    BY <2>1 DEF LightsStep
<1>5. CASE Show
  <2>1. UNCHANGED <<life, power, powerStatus, lit>>
    BY <1>5 DEF Show, SetLED, SetBlink, Tick, SetColourAndBrightness
  <2> QED
    BY <2>1 DEF LightsStep
<1> QED
  BY <1>1, <1>2, <1>3, <1>4, <1>5 DEF ServeBrightness, ServePower

\* Until instance() has run in a process nothing says that the power is on.
DarkInv == TypeOK /\ (~initDone => ~powerStatus)

LEMMA DarkStep ==
  ASSUME ~InProcess, DarkInv, PanelInv, [Next]_vars PROVE DarkInv' /\ LightsStep
<1> USE DEF DarkInv, life, statics, leds, power
<1>1. TypeOK' /\ lit \in [Leds -> BOOLEAN]
  BY PanelStep DEF PanelInv, TypeOK
<1>2. CASE ChangeMode
  BY <1>1, <1>2 DEF ChangeMode, LightsStep
<1>3. ASSUME NEW bad, Register(bad) PROVE DarkInv' /\ LightsStep
  BY <1>1, <1>3 DEF Register, LightsStep
<1>4. ASSUME NEW bad, Configure(bad) PROVE DarkInv' /\ LightsStep
  <2>1. initDone' = TRUE /\ powerStatus' = PowerRead(TRUE, bad)
    BY <1>4 DEF Configure, Instance
  <2>2. ASSUME ~PowerRead(TRUE, bad) PROVE lit' = With(With(With(lit, Darkened(bad), FALSE), {}, TRUE), {}, TRUE)
    BY <1>4, <2>2 DEF Configure, InstanceLit
  <2>3. ASSUME ~PowerRead(TRUE, bad) PROVE \A l \in Leds : lit'[l] => lit[l]
    BY <1>1, <2>2, <2>3 DEF With
  <2> QED
    BY <1>1, <2>1, <2>3 DEF LightsStep
<1>5. ASSUME NEW bad, OnPowerModeChanged(bad) PROVE DarkInv' /\ LightsStep
  <2>1. Instance(powerStatus, bad) /\ initDone' = TRUE /\ lit' = InstanceLit(powerStatus, bad)
    BY <1>5 DEF OnPowerModeChanged, Instance
  <2>2. CASE initDone
    <3>1. lit' = lit
      BY <2>1, <2>2, InstanceTwice
    <3> QED
      BY <1>1, <2>1, <3>1 DEF LightsStep
  <2>3. CASE ~initDone
    <3>1. lit' = With(With(lit, Darkened(bad), FALSE), {}, TRUE)
      BY <2>1, <2>3 DEF InstanceLit
    <3>2. \A l \in Leds : lit'[l] => lit[l]
      BY <1>1, <3>1 DEF With
    <3> QED
      BY <1>1, <2>1, <3>2 DEF LightsStep
  <2> QED
    BY <2>2, <2>3
<1>6. CASE Deactivate
  <2>1. powerStatus' = FALSE /\ lit' = lit
    BY <1>6 DEF Deactivate, FreshStatics
  <2> QED
    BY <1>1, <2>1 DEF LightsStep
<1>7. ASSUME UNCHANGED <<life, power, powerStatus>>, LightsStep PROVE DarkInv' /\ LightsStep
  BY <1>1, <1>7
<1> QED
  BY <1>2, <1>3, <1>4, <1>5, <1>6, <1>7, QuietStep DEF Next

\* Nothing lights a dark LED in standby, whichever calls fail.
THEOREM StandbyIsDark == ASSUME ~InProcess PROVE Spec => LightsNeedPower
<1>1. Init => PanelInv /\ DarkInv
  BY PanelInit DEF PanelInv, DarkInv, Init
<1>2. PanelInv /\ DarkInv /\ [Next]_vars => PanelInv' /\ DarkInv' /\ [LightsStep]_vars
  BY PanelStep, DarkStep
<1>3. Spec => [][LightsStep]_vars
  BY <1>1, <1>2, PTL DEF Spec
<1> QED
  BY <1>3 DEF LightsNeedPower, LightsStep

-----------------------------------------------------------------------------
(***************************************************************************)
(* What is on its way from PowerManager, whether it is reached or not.     *)
(***************************************************************************)
\* Whoever is first in instance(), Configure or a notification, the mode it
\* reads or notes is followed only by modes that are queued behind it.  In
\* process, what it reads may leave the static on that an activation before set;
\* where nothing is told the status stays as it began.
KnownInv ==
  /\ TypeOK
  /\ phase = "down" => ~registered /\ ~initDone
  /\ ~registered => queue = <<>>
  /\ phase = "up" => initDone
  /\ initDone <=> told # "nothing"
  /\ ~InProcess /\ told \in {"nothing", "unanswered"} => ~powerStatus
  /\ queue # <<>> => queue[Len(queue)] = mode
  /\ registered /\ queue = <<>> =>
       /\ told \in {"answer", "notification"} /\ mode = "ON" => powerStatus
       /\ ~InProcess /\ told \in {"answer", "notification"} => (powerStatus <=> mode = "ON")

\* The last notification that is taken off the queue tells the mode.
LEMMA LastOfQueue ==
  ASSUME NEW q \in Seq(Modes), q # <<>>, NEW m, q[Len(q)] = m
  PROVE  /\ Tail(q) # <<>> => Tail(q)[Len(Tail(q))] = m
         /\ Tail(q) = <<>> => Head(q) = m
<1>1. /\ Len(Tail(q)) = Len(q) - 1 /\ Len(q) \in Nat /\ Tail(q) \in Seq(Modes)
      /\ Len(<<>>) = 0 /\ Head(q) = q[1]
  OBVIOUS
<1>2. ASSUME Tail(q) # <<>> PROVE Tail(q)[Len(Tail(q))] = m
  <2>1. Len(Tail(q)) \in 1..Len(Tail(q))
    BY <1>1, <1>2
  <2> QED
    BY <1>1, <2>1
<1>3. ASSUME Tail(q) = <<>> PROVE Head(q) = m
  <2>1. Len(Tail(q)) = 0
    BY <1>1, <1>3
  <2>2. \A n \in Nat : n - 1 = 0 => n = 1
    OBVIOUS
  <2>3. Len(q) = 1
    BY <1>1, <2>1, <2>2
  <2> QED
    BY <1>1, <2>3
<1> QED
  BY <1>2, <1>3

LEMMA KnownStep ==
  ASSUME KnownInv, PanelInv, [Next]_vars PROVE KnownInv'
<1> USE DEF KnownInv, life, statics, leds, power
<1>1. TypeOK'
  BY PanelStep DEF PanelInv
<1>2. CASE ChangeMode
  <2>1. mode' \in Modes /\ UNCHANGED <<phase, registered, initDone, told, powerStatus>>
    BY <1>2 DEF ChangeMode
  <2>2. CASE registered
    <3>1. queue' = Append(queue, mode') /\ queue \in Seq(Modes)
      BY <1>2, <2>2 DEF ChangeMode, TypeOK
    <3>2. queue' # <<>> /\ queue'[Len(queue')] = mode'
      BY <2>1, <3>1
    <3> QED
      BY <1>1, <2>1, <2>2, <3>2
  <2>3. CASE ~registered
    BY <1>1, <1>2, <2>1, <2>3 DEF ChangeMode
  <2> QED
    BY <2>2, <2>3
<1>3. ASSUME NEW bad \in Faults, Register(bad) PROVE KnownInv'
  <2>1. /\ phase = "down" /\ phase' = "registered" /\ queue = <<>> /\ told = "nothing"
        /\ UNCHANGED <<mode, queue, told, initDone, powerStatus>>
    BY <1>3 DEF Register
  <2> QED
    BY <1>1, <2>1
<1>4. ASSUME NEW bad \in Faults, Configure(bad) PROVE KnownInv'
  <2>1. /\ initDone' = TRUE /\ phase' = "up" /\ UNCHANGED <<registered, mode, queue>>
        /\ powerStatus' = PowerRead(TRUE, bad)
        /\ told' = IF initDone THEN told ELSE IF Answers(bad) THEN "answer" ELSE "unanswered"
    BY <1>4 DEF Configure, Instance
  <2>2. CASE initDone
    <3>1. /\ (powerStatus' <=> powerStatus) /\ told' = told /\ told' # "nothing"
          /\ {powerStatus, powerStatus'} \subseteq BOOLEAN
      BY <1>1, <2>1, <2>2 DEF PowerRead, TypeOK
    <3>2. queue' # <<>> => queue'[Len(queue')] = mode'
      BY <2>1
    <3>3. powerStatus' = powerStatus
      BY <3>1
    <3> QED
      BY <1>1, <2>1, <2>2, <3>1, <3>2, <3>3
  <2>3. CASE ~initDone /\ Answers(bad)
    <3>1. told' = "answer" /\ powerStatus' = (powerStatus \/ mode = "ON") /\ told = "nothing"
      BY <2>1, <2>3 DEF PowerRead, TypeOK
    <3> QED
      BY <1>1, <2>1, <2>3, <3>1
  <2>4. CASE ~initDone /\ ~Answers(bad)
    <3>1. told' = "unanswered" /\ (powerStatus' <=> powerStatus) /\ told = "nothing"
      BY <2>1, <2>4 DEF PowerRead, TypeOK
    <3>2. queue' # <<>> => queue'[Len(queue')] = mode'
      BY <2>1
    <3> QED
      BY <1>1, <2>1, <3>1, <3>2
  <2> QED
    BY <2>2, <2>3, <2>4
<1>5. ASSUME NEW bad \in Faults, OnPowerModeChanged(bad) PROVE KnownInv'
  <2>1. /\ initDone' = TRUE /\ queue # <<>> /\ queue' = Tail(queue) /\ told' = "notification"
        /\ powerStatus' = (Head(queue) = "ON") /\ UNCHANGED <<phase, registered, mode>>
    BY <1>5 DEF OnPowerModeChanged, NewState, Instance
  <2>2. queue \in Seq(Modes) /\ queue[Len(queue)] = mode /\ registered /\ phase # "down"
    BY <2>1 DEF TypeOK
  <2>3. /\ queue' # <<>> => queue'[Len(queue')] = mode'
        /\ queue' = <<>> => powerStatus' = (mode' = "ON")
    BY <2>1, <2>2, LastOfQueue
  <2> QED
    BY <1>1, <2>1, <2>2, <2>3
<1>6. CASE Deactivate
  BY <1>1, <1>6 DEF Deactivate, FreshStatics
<1>7. ASSUME UNCHANGED <<life, power, powerStatus>> PROVE KnownInv'
  BY <1>1, <1>7
<1> QED
  BY <1>2, <1>3, <1>4, <1>5, <1>6, <1>7, QuietStep DEF Next

\* The power status is PowerManager's mode once all notifications are noted and
\* PowerManager has told anything of it, for queues of any length and whichever
\* calls fail.
THEOREM PowerIsKnown == ASSUME ~InProcess PROVE Spec => []PowerKnown
<1>1. Init => PanelInv /\ KnownInv
  BY PanelInit DEF PanelInv, KnownInv, Init
<1>2. KnownInv => PowerKnown
  <2> SUFFICES ASSUME KnownInv, phase = "up", registered, queue = <<>>, told # "unanswered"
               PROVE  powerStatus = (mode = "ON")
    BY DEF PowerKnown
  <2>1. told \in {"answer", "notification"} /\ powerStatus \in BOOLEAN
    BY DEF KnownInv, TypeOK, Tellings
  <2> QED
    BY <2>1 DEF KnownInv
<1>3. PanelInv /\ KnownInv /\ [Next]_vars => PanelInv' /\ KnownInv'
  BY PanelStep, KnownStep
<1> QED
  BY <1>1, <1>2, <1>3, PTL DEF Spec

(***************************************************************************)
(* The same as a refinement: Panel follows PowerManager as PowerFollow     *)
(* says.                                                                   *)
(***************************************************************************)
\* What the mapping sees is left alone.
LEMMA FollowQuiet ==
  ASSUME UNCHANGED <<mode, queue, registered>>,
         registered => UNCHANGED <<told, powerStatus>>
  PROVE  UNCHANGED Follow!vars
<1>1. CASE registered
  BY <1>1 DEF Follow!vars
<1>2. CASE ~registered
  BY <1>2 DEF Follow!vars
<1> QED
  BY <1>1, <1>2

\* Register begins if it registers, Configure fetches, finds that a
\* notification came first or is left without an answer, a notification is
\* noted, Deactivate ends; nothing else is seen.
LEMMA PanelFollowStep ==
  ASSUME KnownInv, PanelInv, [Next]_vars
  PROVE  [Follow!Next]_Follow!vars
<1> USE DEF KnownInv, life, statics, leds, power
<1>0. {registered, initDone, powerStatus} \subseteq BOOLEAN
  BY DEF TypeOK
<1>1. CASE ChangeMode
  <2>1. Follow!Change
    BY <1>1 DEF ChangeMode, Follow!Change
  <2> QED
    BY <2>1 DEF Follow!Next
<1>2. ASSUME NEW bad \in Faults, Register(bad) PROVE Follow!Next \/ UNCHANGED Follow!vars
  <2>1. /\ ~registered /\ told = "nothing" /\ registered' \in BOOLEAN
        /\ UNCHANGED <<mode, queue, told, powerStatus>> /\ (~InProcess => ~powerStatus)
    BY <1>2 DEF Register
  <2>2. CASE registered'
    <3>1. Follow!Begin
      BY <1>0, <2>1, <2>2 DEF Follow!Begin
    <3> QED
      BY <3>1 DEF Follow!Next
  <2>3. CASE ~registered'
    BY <1>0, <2>1, <2>3, FollowQuiet
  <2> QED
    BY <2>2, <2>3
<1>3. ASSUME NEW bad \in Faults, Configure(bad) PROVE Follow!Next \/ UNCHANGED Follow!vars
  <2>1. /\ powerStatus' = PowerRead(TRUE, bad) /\ UNCHANGED <<registered, mode, queue>>
        /\ told' = IF initDone THEN told ELSE IF Answers(bad) THEN "answer" ELSE "unanswered"
    BY <1>3 DEF Configure
  <2>2. CASE initDone \/ ~registered
    <3>1. registered => powerStatus' = powerStatus /\ told' = told
      BY <1>0, <2>1, <2>2 DEF PowerRead
    <3> QED
      BY <2>1, <3>1, FollowQuiet
  <2>3. CASE ~initDone /\ registered /\ Answers(bad)
    <3>1. told = "nothing" /\ told' = "answer" /\ powerStatus' = (powerStatus \/ mode = "ON")
      BY <1>0, <2>1, <2>3 DEF PowerRead
    <3>2. Follow!Fetch
      BY <2>1, <2>3, <3>1 DEF Follow!Fetch
    <3> QED
      BY <3>2 DEF Follow!Next
  <2>4. CASE ~initDone /\ registered /\ ~Answers(bad)
    <3>1. told = "nothing" /\ told' = "unanswered" /\ powerStatus' = powerStatus
      BY <1>0, <2>1, <2>4 DEF PowerRead
    <3>2. registered' = registered /\ mode' = mode /\ queue' = queue
      BY <2>1
    <3>3. (registered' /\ powerStatus') = (registered /\ powerStatus)
      BY <3>1, <3>2
    <3>4. (registered' /\ ~InProcess) = (registered /\ ~InProcess)
      BY <3>2
    <3>5. Follow!Leave
      BY <2>4, <3>1, <3>2, <3>3, <3>4 DEF Follow!Leave
    <3> QED
      BY <3>5 DEF Follow!Next
  <2> QED
    BY <2>2, <2>3, <2>4
<1>4. ASSUME NEW bad \in Faults, OnPowerModeChanged(bad) PROVE Follow!Next
  <2>1. /\ queue # <<>> /\ queue' = Tail(queue) /\ registered /\ told' = "notification"
        /\ powerStatus' = (Head(queue) = "ON") /\ UNCHANGED <<registered, mode>>
    BY <1>4 DEF OnPowerModeChanged, NewState
  <2>2. Follow!Note
    BY <2>1 DEF Follow!Note
  <2> QED
    BY <2>2 DEF Follow!Next
<1>5. CASE Deactivate
  <2>1. ~registered' /\ queue' = <<>> /\ mode' = mode
    BY <1>5 DEF Deactivate
  <2>2. CASE registered
    <3>1. Follow!End
      BY <2>1, <2>2 DEF Follow!End, Follow!Off
    <3> QED
      BY <3>1 DEF Follow!Next
  <2>3. CASE ~registered
    <3>1. UNCHANGED <<mode, queue, registered>>
      BY <1>0, <1>1, <1>5, <2>1, <2>3 DEF Deactivate
    <3> QED
      BY <2>3, <3>1, FollowQuiet
  <2> QED
    BY <2>2, <2>3
<1>6. ASSUME UNCHANGED <<life, power, powerStatus>> PROVE UNCHANGED Follow!vars
  BY <1>6, FollowQuiet
<1> QED
  BY <1>1, <1>2, <1>3, <1>4, <1>5, <1>6, QuietStep DEF Next

\* The status changes by one fetch at most per activation and by the
\* notifications in their order, and by nothing else, for any queue and
\* whichever calls throw, PowerManager's among them, also when activations share
\* a process.
THEOREM PanelFollows == Spec => FollowsPower
<1>1. Init => PanelInv /\ KnownInv /\ Follow!Init
  BY PanelInit DEF PanelInv, KnownInv, Init, Follow!Init, Follow!Off
<1>2. PanelInv /\ KnownInv /\ [Next]_vars => PanelInv' /\ KnownInv' /\ [Follow!Next]_Follow!vars
  BY PanelStep, KnownStep, PanelFollowStep
<1> QED
  BY <1>1, <1>2, PTL DEF Spec, FollowsPower, Follow!Spec

-----------------------------------------------------------------------------
(***************************************************************************)
(* Where device settings does not fail: what the plugin remembers of the   *)
(* LEDs.                                                                   *)
(***************************************************************************)
\* a set-top box with a Power LED, and no call to device settings that throws
\* for an LED it has; PowerManager may be out of reach
AllWell == ~IsTV /\ "Power" \in Present /\ \A bad \in Faults : bad \subseteq {"PowerManager"}

\* From the moment instance() has darkened the LEDs the flags agree with them.
FlagsInv ==
  /\ TypeOK
  /\ phase = "up" => initDone
  /\ ~initDone => \A l \in Flagged : ~isOn[l]
  /\ initDone => \A l \in Flagged \cap Present : isOn[l] = lit[l]

\* Without failures the loop of instance() reaches every LED.
LEMMA AllReached ==
  ASSUME NEW bad \in SUBSET {"PowerManager"} PROVE Reached(Indicators, bad) = Present
<1>1. \A k \in DOMAIN Indicators : ~Throws(Indicators[k], bad)
  <2>1. Indicators \in Seq(Leds) /\ \A l \in Leds : l \notin bad
    BY IndicatorsAssumption DEF Leds
  <2> QED
    BY <2>1 DEF Throws, Present
<1>2. Indicators \in Seq(Leds) /\ DOMAIN Indicators = 1..Len(Indicators) /\ Len(Indicators) \in Nat
  BY IndicatorsAssumption
<1>3. \A j \in DOMAIN Indicators : \A k \in 1..j : k \in DOMAIN Indicators
  BY <1>2
<1>4. {j \in DOMAIN Indicators : \A k \in 1..j : ~Throws(Indicators[k], bad)} = DOMAIN Indicators
  BY <1>1, <1>3
<1> QED
  BY <1>4 DEF Reached, Present

\* The first instance() of a process darkens every LED but, at most, Power.
LEMMA InstanceDarkens ==
  ASSUME FlagsInv, AllWell, NEW bad \in SUBSET {"PowerManager"},
         NEW on, NEW f, f = InstanceLit(on, bad)
  PROVE  /\ f \in [Leds -> BOOLEAN]
         /\ \A l \in Flagged \cap Present : isOn[l] = f[l]
<1>0. lit \in [Leds -> BOOLEAN] /\ Flagged \subseteq Leds /\ "Power" \notin Flagged
  BY DEF FlagsInv, TypeOK, Flagged, Leds
<1>1. Darkened(bad) = IF initDone THEN {} ELSE Present
  <2>1. ~Throws("Power", bad) /\ "Manager" \notin bad
    BY DEF AllWell, Throws
  <2> QED
    BY <2>1, AllReached DEF AllWell, Darkened, BrightnessRead
<1>2. PICK S \in {{}, {"Power"}} : f = With(With(lit, Darkened(bad), FALSE), S, TRUE)
  BY DEF InstanceLit
<1>3. f \in [Leds -> BOOLEAN]
  BY <1>0, <1>2 DEF With
<1>4. \A l \in Flagged : f[l] = IF l \in Darkened(bad) THEN FALSE ELSE lit[l]
  BY <1>0, <1>2 DEF With
<1>5. isOn \in [Flagged -> BOOLEAN]
  BY DEF FlagsInv, TypeOK
<1>6. CASE initDone
  BY <1>1, <1>3, <1>4, <1>6 DEF FlagsInv
<1>7. CASE ~initDone
  BY <1>1, <1>3, <1>4, <1>5, <1>7 DEF FlagsInv
<1> QED
  BY <1>6, <1>7

\* Requests leave the flags and the LEDs together.
LEMMA FlagsServed ==
  ASSUME AllWell, FlagsInv, phase = "up",
         \/ ServeBrightness({}) \/ ServePower({}) \/ Show \/ EndOfBlink
         \/ \E l \in Leds : SetEmptyBlink(l)
  PROVE  \A l \in Flagged \cap Present : isOn'[l] = lit'[l]
<1> USE DEF Request, StopBlinking, Answer, life, statics, leds, power
<1>0. /\ lit \in [Leds -> BOOLEAN] /\ isOn \in [Flagged -> BOOLEAN]
      /\ Flagged \subseteq Leds /\ "Power" \notin Flagged
      /\ \A l \in Flagged \cap Present : isOn[l] = lit[l]
  BY DEF FlagsInv, TypeOK, Flagged, Leds
<1>1. ASSUME NEW b \in Levels, SetBrightnessOfAll(b, {})
      PROVE  \A l \in Flagged \cap Present : isOn'[l] = lit'[l]
  <2>1. isOn' = isOn /\ lit' = With(lit, Relit({}), TRUE)
    BY <1>1 DEF SetBrightnessOfAll
  <2>2. \A l \in Relit({}) : l = "Power" \/ isOn[l]
    BY DEF Relit, ReachedOfAll, IsRelit
  <2>3. \A l \in Leds : lit'[l] = IF l \in Relit({}) THEN TRUE ELSE lit[l]
    BY <1>0, <2>1 DEF With
  <2> QED
    BY <1>0, <2>1, <2>2, <2>3
<1>2. ASSUME NEW l \in Leds, PowerLedOn(l, {})
      PROVE  \A k \in Flagged \cap Present : isOn'[k] = lit'[k]
  <2>1. CASE powerStatus
    <3>1. \A k \in Flagged : isOn'[k] = IF k = l THEN TRUE ELSE isOn[k]
      BY <1>0, <1>2, <2>1 DEF PowerLedOn, With
    <3>2. \A k \in Flagged \cap Present : lit'[k] = IF k = l THEN TRUE ELSE lit[k]
      BY <1>0, <1>2, <2>1 DEF PowerLedOn, With, Throws
    <3> QED
      BY <1>0, <3>1, <3>2
  <2>2. CASE ~powerStatus
    BY <1>0, <1>2, <2>2 DEF PowerLedOn
  <2> QED
    BY <2>1, <2>2
<1>3. ASSUME NEW l \in Leds, PowerLedOff(l, {})
      PROVE  \A k \in Flagged \cap Present : isOn'[k] = lit'[k]
  <2>1. \A k \in Flagged : isOn'[k] = IF k = l THEN FALSE ELSE isOn[k]
    BY <1>0, <1>3 DEF PowerLedOff, With
  <2>2. \A k \in Flagged \cap Present : lit'[k] = IF k = l THEN FALSE ELSE lit[k]
    BY <1>0, <1>3 DEF PowerLedOff, With, Throws
  <2> QED
    BY <1>0, <2>1, <2>2
<1>4. CASE \/ (\E l \in Leds, b \in Levels : SetBrightnessOf(l, b, {}))
           \/ RefuseBrightness \/ GetBrightnessOfAll({})
           \/ EndOfBlink \/ (\E l \in Leds : SetEmptyBlink(l))
  <2>1. isOn' = isOn /\ lit' = lit
    BY <1>4 DEF SetBrightnessOf, RefuseBrightness, GetBrightnessOfAll, EndOfBlink, SetEmptyBlink
  <2> QED
    BY <1>0, <2>1
<1>5. CASE Show
  <2>1. isOn' = isOn /\ lit' = lit
    BY <1>5 DEF Show, SetLED, SetBlink, Tick, SetColourAndBrightness
  <2> QED
    BY <1>0, <2>1
<1> QED
  BY <1>1, <1>2, <1>3, <1>4, <1>5 DEF ServeBrightness, ServePower

LEMMA FlagsStep ==
  ASSUME ~InProcess, AllWell, FlagsInv, PanelInv, [Next]_vars PROVE FlagsInv'
<1> USE DEF life, statics, leds, power
<1>1. TypeOK'
  BY PanelStep DEF PanelInv
<1>2. CASE ChangeMode \/ UNCHANGED vars \/ \E bad \in Faults : Register(bad)
  <2>1. UNCHANGED <<initDone, isOn, lit>> /\ (phase' = "up" => phase = "up")
    BY <1>2 DEF ChangeMode, Register, vars
  <2> QED
    BY <1>1, <2>1 DEF FlagsInv
<1>3. ASSUME NEW bad \in Faults, Configure(bad) PROVE FlagsInv'
  <2>1. bad \in SUBSET {"PowerManager"} /\ initDone' = TRUE /\ isOn' = isOn
    BY <1>3 DEF AllWell, Configure, Instance
  <2> DEFINE on == PowerRead(TRUE, bad)
  <2>2. \/ lit' = With(InstanceLit(on, bad), {"Power"}, TRUE)
        \/ lit' = With(InstanceLit(on, bad), {}, TRUE)
    BY <1>3 DEF Configure
  <2> HIDE DEF on
  <2>3. \A l \in Flagged : lit'[l] = InstanceLit(on, bad)[l]
    BY <2>1, <2>2, InstanceDarkens DEF With, Flagged, Leds
  <2> QED
    BY <1>1, <2>1, <2>3, InstanceDarkens DEF FlagsInv
<1>4. ASSUME NEW bad \in Faults, OnPowerModeChanged(bad) PROVE FlagsInv'
  <2>1. /\ bad \in SUBSET {"PowerManager"} /\ initDone' = TRUE /\ isOn' = isOn
        /\ lit' = InstanceLit(powerStatus, bad)
    BY <1>4 DEF AllWell, OnPowerModeChanged, Instance
  <2> QED
    BY <1>1, <2>1, InstanceDarkens DEF FlagsInv
<1>5. CASE Deactivate
  BY <1>1, <1>5 DEF Deactivate, FreshStatics, FlagsInv
<1>6. CASE \/ \E bad \in LedFaults : ServeBrightness(bad) \/ ServePower(bad)
           \/ Show \/ EndOfBlink \/ \E l \in Leds : SetEmptyBlink(l)
  <2>1. LedFaults \subseteq {{}}
    BY DEF AllWell, LedFaults, Leds
  <2>2. phase = "up" /\ phase' = phase /\ initDone' = initDone
    <3>1. CASE \E bad \in LedFaults : ServeBrightness(bad)
      BY <3>1 DEF ServeBrightness, Request, SetBrightnessOfAll, SetBrightnessOf,
         RefuseBrightness, GetBrightnessOfAll
    <3>2. CASE \E bad \in LedFaults : ServePower(bad)
      BY <3>2 DEF ServePower, Request, PowerLedOn, PowerLedOff
    <3>3. CASE Show
      <4>1. PICK l \in Leds, c \in Colours, b \in Levels \cup {-1} :
            \E noColour, noBrightness :
              \/ \E rgb \in BOOLEAN : SetLED(l, c, rgb, b, noColour, noBrightness)
              \/ SetBlink(l, c, b, noColour, noBrightness)
              \/ Tick(l, c, b, noColour, noBrightness)
        BY <3>3 DEF Show
      <4> QED
        BY <4>1 DEF Request, SetLED, SetBlink, Tick
    <3>4. CASE EndOfBlink \/ \E l \in Leds : SetEmptyBlink(l)
      BY <3>4 DEF EndOfBlink, SetEmptyBlink, Request
    <3> QED
      BY <1>6, <3>1, <3>2, <3>3, <3>4
  <2>3. \A l \in Flagged \cap Present : isOn'[l] = lit'[l]
    BY <1>6, <2>1, <2>2, FlagsServed
  <2> QED
    BY <1>1, <2>2, <2>3 DEF FlagsInv
<1> QED
  BY <1>2, <1>3, <1>4, <1>5, <1>6 DEF Next

\* The flags of the Message and Record LEDs are what the LEDs show, as long as
\* no call to device settings fails, with PowerManager or without.
THEOREM FlagsAgreeAlways == ASSUME ~InProcess, AllWell PROVE Spec => []FlagsAgree
<1>1. Init => PanelInv /\ FlagsInv
  BY PanelInit DEF PanelInv, FlagsInv, Init
<1>2. FlagsInv => FlagsAgree
  BY DEF FlagsInv, FlagsAgree
<1>3. PanelInv /\ FlagsInv /\ [Next]_vars => PanelInv' /\ FlagsInv'
  BY PanelStep, FlagsStep
<1> QED
  BY <1>1, <1>2, <1>3, PTL DEF Spec
=============================================================================
