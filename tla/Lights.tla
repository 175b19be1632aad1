------------------------------- MODULE Lights -------------------------------
(***************************************************************************)
(* GetFrontPanelLights: the list of supported lights under their API names *)
(* and the object that describes each light, built in one loop over the    *)
(* indicators of device settings, with one indicatorInfo for all rounds.   *)
(***************************************************************************)
EXTENDS Integers, Sequences, FiniteSets

CONSTANT Boxes     \* the sequences of indicators that getIndicators() may return

\* an indicator: its name, the colours it supports, its brightness levels
ASSUME BoxesAssumption ==
  \A box \in Boxes : Len(box) \in Nat /\ DOMAIN box = 1..Len(box) /\ \A i \in DOMAIN box :
    /\ box[i].levels \in Nat \ {0} /\ box[i].max \in Nat /\ box[i].min \in 0..box[i].max
    /\ box[i].name \notin {"record_led", "data_led", "power_led"}   \* a name of device settings
    /\ \A j \in DOMAIN box : box[i].name = box[j].name => i = j

name_mappings == {
  [iarm |-> "Record", svc |-> "record_led"],
  [iarm |-> "Message", svc |-> "data_led"],
  [iarm |-> "Power", svc |-> "power_led"]}

svc2iarmUnmapped(name) == name                         \* mutant: names left as they are
svc2iarm(name) ==
  LET found == {m.iarm : m \in {x \in name_mappings : x.svc = name}}
  IN CHOOSE n \in (IF found = {} THEN {name} ELSE found) : TRUE

iarm2svcUnmapped(name) == name                         \* mutant: names left as they are
iarm2svc(name) ==
  LET found == {m.svc : m \in {x \in name_mappings : x.iarm = name}}
  IN CHOOSE n \in (IF found = {} THEN {name} ELSE found) : TRUE

VARIABLES
  box,             \* fpIndicators, the same for both loops
  i,               \* the round of the loop of getFrontPanelLightsInfo
  indicatorInfo,   \* as the last round left it
  returnResult,    \* the objects made so far, by name
  lights           \* supportedLights, made so far

vars == <<box, i, indicatorInfo, returnResult, lights>>

\* labels that are not set in the JSON object
Unset == [step |-> 0, min |-> 0, max |-> 0, colours |-> {}]

Init ==
  /\ box \in Boxes
  /\ i = 1
  /\ indicatorInfo = Unset
  /\ returnResult = <<>>
  /\ lights = <<>>

\* getFrontPanelIndicatorInfo overwrites every label but "colors", which it
\* sets only when the indicator has some.
InfoOfLast(info, ind) ==                               \* mutant: written only once
  IF info = Unset THEN [step |-> (ind.max - ind.min) \div ind.levels,
                        min |-> ind.min, max |-> ind.max, colours |-> ind.colours]
  ELSE info
getFrontPanelIndicatorInfo(info, ind) ==
  [step |-> (ind.max - ind.min) \div ind.levels,
   min |-> ind.min, max |-> ind.max,
   colours |-> IF ind.colours # {} THEN ind.colours ELSE info.colours]

\* one round of each of the two loops
Describe ==
  /\ i <= Len(box)
  /\ LET name == box[i].name
         MappedName == iarm2svc(name)
         info == getFrontPanelIndicatorInfo(indicatorInfo, box[i])
     IN /\ indicatorInfo' = info
        /\ returnResult' = [n \in DOMAIN returnResult \cup {MappedName} |->
                              IF n = MappedName THEN info ELSE returnResult[n]]
        /\ lights' = IF MappedName # name THEN Append(lights, MappedName) ELSE lights
  /\ i' = i + 1
  /\ UNCHANGED box

Next == Describe

Spec == Init /\ [][Next]_vars

-----------------------------------------------------------------------------
(***************************************************************************)
(* Properties                                                              *)
(***************************************************************************)
Done == i > Len(box)

\* Every light that the plugin says it supports is described under the same
\* name, and a request for that name reaches the indicator it stands for.
SupportedAreDescribed ==
  Done => \A k \in DOMAIN lights :
    /\ lights[k] \in DOMAIN returnResult
    /\ \E j \in DOMAIN box : box[j].name = svc2iarm(lights[k])

\* Record, Message and Power are supported if the box has them, whatever else
\* it has; powerLedOn and powerLedOff know exactly these names.
AllNamedAreSupported ==
  Done => {lights[k] : k \in DOMAIN lights}
            = {m.svc : m \in {x \in name_mappings : \E j \in DOMAIN box : box[j].name = x.iarm}}

\* No light is lost, and each is described by its own range: nothing of an
\* earlier round is left in min, max and step, which is as large as it can be
\* for all levels of the light to fit in the range.
OwnRange ==
  Done => /\ Cardinality(DOMAIN returnResult) = Len(box)
          /\ \A j \in DOMAIN box : LET info == returnResult[iarm2svc(box[j].name)]
                                   IN /\ info.min = box[j].min /\ info.max = box[j].max
                                      /\ info.max - info.min - info.step * box[j].levels
                                           \in 0..(box[j].levels - 1)

\* The object of each light describes that light: "a hash of objects
\* describing each LED light properties".
OwnColours ==
  Done => \A j \in DOMAIN box : returnResult[iarm2svc(box[j].name)].colours = box[j].colours
=============================================================================
