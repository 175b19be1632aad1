---------------------------- MODULE LightsProofs ----------------------------
(***************************************************************************)
(* Proofs about Lights, for boxes with any number of indicators of any     *)
(* names, in any order.                                                    *)
(***************************************************************************)
EXTENDS Lights, TLAPS, FiniteSetTheorems

Iarm == {m.iarm : m \in name_mappings}
Svc == {m.svc : m \in name_mappings}

\* the API names of the lights among the first n indicators of a box
NamedIn(b, n) == {m.svc : m \in {x \in name_mappings : \E j \in 1..n : b[j].name = x.iarm}}

\* What the two mappings answer, for each name there is and for any other.
LEMMA Iarm2svc ==
  /\ iarm2svc("Record") = "record_led" /\ iarm2svc("Message") = "data_led"
  /\ iarm2svc("Power") = "power_led"
  /\ \A n : n \notin {"Record", "Message", "Power"} => iarm2svc(n) = n
<1>1. ASSUME NEW m \in name_mappings PROVE iarm2svc(m.iarm) = m.svc
  <2>1. {x \in name_mappings : x.iarm = m.iarm} = {m}
    BY <1>1 DEF name_mappings
  <2>2. {x.svc : x \in {x \in name_mappings : x.iarm = m.iarm}} = {m.svc}
    BY <2>1
  <2>3. (CHOOSE n \in {m.svc} : TRUE) = m.svc
    OBVIOUS
  <2> QED
    BY <2>2, <2>3 DEF iarm2svc
<1>2. ASSUME NEW n, n \notin {"Record", "Message", "Power"} PROVE iarm2svc(n) = n
  <2>1. {x \in name_mappings : x.iarm = n} = {}
    BY <1>2 DEF name_mappings
  <2>2. {x.svc : x \in {x \in name_mappings : x.iarm = n}} = {}
    BY <2>1
  <2>3. (CHOOSE k \in {n} : TRUE) = n
    OBVIOUS
  <2> QED
    BY <2>2, <2>3 DEF iarm2svc
<1>3. /\ iarm2svc("Record") = "record_led" /\ iarm2svc("Message") = "data_led"
      /\ iarm2svc("Power") = "power_led"
  BY <1>1 DEF name_mappings
<1> QED
  BY <1>2, <1>3

LEMMA Svc2iarm ==
  /\ svc2iarm("record_led") = "Record" /\ svc2iarm("data_led") = "Message"
  /\ svc2iarm("power_led") = "Power"
<1>1. ASSUME NEW m \in name_mappings PROVE svc2iarm(m.svc) = m.iarm
  <2>1. {x \in name_mappings : x.svc = m.svc} = {m}
    BY <1>1 DEF name_mappings
  <2>2. {x.iarm : x \in {x \in name_mappings : x.svc = m.svc}} = {m.iarm}
    BY <2>1
  <2>3. (CHOOSE n \in {m.iarm} : TRUE) = m.iarm
    OBVIOUS
  <2> QED
    BY <2>2, <2>3 DEF svc2iarm
<1> QED
  BY <1>1 DEF name_mappings

\* After each round the lists hold the indicators gone through, no less and no
\* more, and every light that is listed is described.
LightsInv ==
  /\ box \in Boxes /\ i \in Nat \ {0} /\ i <= Len(box) + 1
  /\ lights \in Seq(Svc)
  /\ {lights[k] : k \in DOMAIN lights} = NamedIn(box, i - 1)
  /\ NamedIn(box, i - 1) \subseteq DOMAIN returnResult

LEMMA LightsInit == Init => LightsInv
<1> SUFFICES ASSUME Init PROVE LightsInv
  OBVIOUS
<1>1. Len(box) \in Nat
  BY BoxesAssumption DEF Init
<1>2. NamedIn(box, 0) = {}
  BY DEF NamedIn
<1>3. lights = <<>> /\ DOMAIN <<>> = {} /\ <<>> \in Seq(Svc)
  BY DEF Init
<1>4. i = 1 /\ i - 1 = 0
  BY DEF Init
<1> QED
  BY <1>1, <1>2, <1>3, <1>4 DEF Init, LightsInv

\* One more round adds the light of its indicator, if it has one.
LEMMA NamedGrows ==
  ASSUME NEW n \in Nat
  PROVE  NamedIn(box, n + 1) = NamedIn(box, n) \cup
           (IF box[n + 1].name \in Iarm THEN {iarm2svc(box[n + 1].name)} ELSE {})
<1>1. 1..(n + 1) = (1..n) \cup {n + 1}
  OBVIOUS
<1>2. NamedIn(box, n + 1) = NamedIn(box, n) \cup {m.svc : m \in {x \in name_mappings : box[n + 1].name = x.iarm}}
  BY <1>1 DEF NamedIn
<1>3. {m.svc : m \in {x \in name_mappings : box[n + 1].name = x.iarm}}
        = IF box[n + 1].name \in Iarm THEN {iarm2svc(box[n + 1].name)} ELSE {}
  BY Iarm2svc DEF name_mappings, Iarm
<1> QED
  BY <1>2, <1>3

LEMMA LightsStep == LightsInv /\ [Next]_vars => LightsInv'
<1> SUFFICES ASSUME LightsInv, [Next]_vars PROVE LightsInv'
  OBVIOUS
<1>1. CASE UNCHANGED vars
  BY <1>1 DEF LightsInv, NamedIn, vars
<1>2. CASE Describe
  <2> DEFINE name == box[i].name
             MappedName == iarm2svc(name)
  <2>1. /\ i <= Len(box) /\ i' = i + 1 /\ box' = box
        /\ DOMAIN returnResult' = DOMAIN returnResult \cup {MappedName}
        /\ lights' = IF MappedName # name THEN Append(lights, MappedName) ELSE lights
    BY <1>2 DEF Describe
  <2>2. Len(box) \in Nat /\ i \in Nat /\ i >= 1
    BY BoxesAssumption DEF LightsInv
  <2>3. MappedName # name <=> name \in Iarm
    BY Iarm2svc DEF Iarm, name_mappings
  <2>4. name \in Iarm => MappedName \in Svc
    BY Iarm2svc DEF Iarm, Svc, name_mappings
  <2>5. NamedIn(box, i) = NamedIn(box, i - 1) \cup (IF name \in Iarm THEN {MappedName} ELSE {})
    <3>1. i - 1 \in Nat /\ (i - 1) + 1 = i
      BY <2>2
    <3> HIDE DEF name, MappedName
    <3> QED
      BY <3>1, NamedGrows DEF name, MappedName
  <2>6. NamedIn(box', i' - 1) = NamedIn(box, i)
    BY <2>1, <2>2 DEF NamedIn
  <2> HIDE DEF name, MappedName
  <2>7. lights' \in Seq(Svc) /\ {lights'[k] : k \in DOMAIN lights'} = NamedIn(box, i)
    <3>1. CASE name \in Iarm
      <4>1. lights' = Append(lights, MappedName) /\ lights \in Seq(Svc) /\ MappedName \in Svc
        BY <2>1, <2>3, <2>4, <3>1 DEF LightsInv
      <4>2. /\ Len(lights) \in Nat /\ DOMAIN lights = 1..Len(lights)
            /\ lights' \in Seq(Svc) /\ DOMAIN lights' = 1..(Len(lights) + 1)
            /\ lights'[Len(lights) + 1] = MappedName
            /\ \A k \in 1..Len(lights) : lights'[k] = lights[k]
        BY <4>1
      <4>3. DOMAIN lights' = DOMAIN lights \cup {Len(lights) + 1}
        BY <4>2
      <4>4. {lights'[k] : k \in DOMAIN lights'} = {lights[k] : k \in DOMAIN lights} \cup {MappedName}
        BY <4>2, <4>3
      <4> QED
        BY <2>5, <3>1, <4>2, <4>4 DEF LightsInv
    <3>2. CASE name \notin Iarm
      BY <2>1, <2>3, <2>5, <3>2 DEF LightsInv
    <3> QED
      BY <3>1, <3>2
  <2>8. NamedIn(box, i) \subseteq DOMAIN returnResult'
    BY <2>1, <2>5 DEF LightsInv
  <2> QED
    BY <2>1, <2>2, <2>6, <2>7, <2>8 DEF LightsInv
<1> QED
  BY <1>1, <1>2 DEF Next

\* When the loops have ended they have gone through the whole box.
LEMMA WholeBox ==
  ASSUME LightsInv, Done
  PROVE  /\ {lights[k] : k \in DOMAIN lights}
              = {m.svc : m \in {x \in name_mappings : \E j \in DOMAIN box : box[j].name = x.iarm}}
         /\ \A k \in DOMAIN lights : lights[k] \in DOMAIN returnResult
<1>1. i - 1 = Len(box) /\ DOMAIN box = 1..Len(box)
  BY BoxesAssumption DEF LightsInv, Done
<1> QED
  BY <1>1 DEF LightsInv, NamedIn

\* The supported lights are Record, Message and Power as far as the box has
\* them, for any box.
THEOREM NamedAreSupported == Spec => []AllNamedAreSupported
<1>1. LightsInv => AllNamedAreSupported
  BY WholeBox DEF AllNamedAreSupported
<1> QED
  BY <1>1, LightsInit, LightsStep, PTL DEF Spec

\* Each supported light is described, and its name leads a request to an
\* indicator of the box.
THEOREM SupportedReachable == Spec => []SupportedAreDescribed
<1>1. ASSUME LightsInv, Done, NEW k \in DOMAIN lights
      PROVE  \E j \in DOMAIN box : box[j].name = svc2iarm(lights[k])
  <2>1. PICK m \in name_mappings : m.svc = lights[k] /\ \E j \in DOMAIN box : box[j].name = m.iarm
    BY <1>1, WholeBox
  <2>2. svc2iarm(m.svc) = m.iarm
    BY Svc2iarm DEF name_mappings
  <2> QED
    BY <2>1, <2>2
<1>2. LightsInv => SupportedAreDescribed
  BY <1>1, WholeBox DEF SupportedAreDescribed
<1> QED
  BY <1>2, LightsInit, LightsStep, PTL DEF Spec

-----------------------------------------------------------------------------
(***************************************************************************)
(* What describes each light.                                              *)
(***************************************************************************)
\* step is rounded down: all levels fit in the range, and would not with one more.
LEMMA StepFits ==
  ASSUME NEW a \in Nat, NEW n \in Nat \ {0}
  PROVE  a \div n \in Nat /\ a - (a \div n) * n \in 0..(n - 1)
<1>1. a = n * (a \div n) + (a % n) /\ a % n \in 0..(n - 1) /\ a \div n \in Nat
  BY SMT
<1> QED
  BY <1>1, SMT

\* No two indicators have the same API name.
LEMMA NamesApart ==
  ASSUME NEW a, NEW b, {a, b} \cap {"record_led", "data_led", "power_led"} = {},
         iarm2svc(a) = iarm2svc(b)
  PROVE  a = b
<1>1. a \notin {"record_led", "data_led", "power_led"} /\ b \notin {"record_led", "data_led", "power_led"}
  OBVIOUS
<1>2. CASE a \in {"Record", "Message", "Power"} /\ b \in {"Record", "Message", "Power"}
  BY <1>2, Iarm2svc
<1>3. CASE a \notin {"Record", "Message", "Power"}
  <2>1. iarm2svc(a) = a
    BY <1>3, Iarm2svc
  <2> QED
    BY <1>1, <2>1, Iarm2svc
<1>4. CASE b \notin {"Record", "Message", "Power"}
  <2>1. iarm2svc(b) = b
    BY <1>4, Iarm2svc
  <2> QED
    BY <1>1, <2>1, Iarm2svc
<1> QED
  BY <1>2, <1>3, <1>4

Fits(info, ind) ==
  /\ info.min = ind.min /\ info.max = ind.max
  /\ info.max - info.min - info.step * ind.levels \in 0..(ind.levels - 1)

\* After each round there is one object for each indicator gone through, with
\* the range of that indicator.
RangeInv ==
  /\ LightsInv
  /\ DOMAIN returnResult = {iarm2svc(box[k].name) : k \in 1..(i - 1)}
  /\ IsFiniteSet(DOMAIN returnResult) /\ Cardinality(DOMAIN returnResult) = i - 1
  /\ \A k \in 1..(i - 1) : Fits(returnResult[iarm2svc(box[k].name)], box[k])

LEMMA RangeInit == Init => RangeInv
<1> SUFFICES ASSUME Init PROVE RangeInv
  OBVIOUS
<1>1. 1..(i - 1) = {} /\ i - 1 = 0 /\ DOMAIN returnResult = {}
  BY DEF Init
<1> QED
  BY <1>1, LightsInit, FS_EmptySet DEF RangeInv

LEMMA RangeStep == RangeInv /\ [Next]_vars => RangeInv'
<1> SUFFICES ASSUME RangeInv, [Next]_vars PROVE RangeInv'
  OBVIOUS
<1>0. LightsInv'
  BY LightsStep DEF RangeInv
<1>1. CASE UNCHANGED vars
  BY <1>0, <1>1 DEF RangeInv, vars
<1>2. CASE Describe
  <2> DEFINE ind == box[i]
             MappedName == iarm2svc(box[i].name)
             info == getFrontPanelIndicatorInfo(indicatorInfo, ind)
  <2>1. /\ i <= Len(box) /\ i' = i + 1 /\ box' = box
        /\ returnResult' = [n \in DOMAIN returnResult \cup {MappedName} |->
                              IF n = MappedName THEN info ELSE returnResult[n]]
    BY <1>2 DEF Describe
  <2>2. /\ i \in Nat /\ i >= 1 /\ i \in DOMAIN box /\ DOMAIN box = 1..Len(box) /\ Len(box) \in Nat
        /\ box \in Boxes
    BY <2>1, BoxesAssumption DEF RangeInv, LightsInv
  <2>3. 1..(i' - 1) = 1..(i - 1) \cup {i} /\ 1..(i - 1) \subseteq DOMAIN box /\ i' - 1 = (i - 1) + 1
        /\ i \notin 1..(i - 1) /\ i - 1 \in Nat
    BY <2>1, <2>2
  <2>4. \A k \in 1..(i - 1) : iarm2svc(box[k].name) # MappedName
    <3>1. TAKE k \in 1..(i - 1)
    <3>2. k \in DOMAIN box /\ k # i
      BY <2>2, <2>3
    <3>3. {box[k].name, box[i].name} \cap {"record_led", "data_led", "power_led"} = {}
          /\ box[k].name # box[i].name
      BY <2>2, <3>2, BoxesAssumption
    <3> QED
      BY <3>3, NamesApart
  <2>5. Fits(info, ind)
    <3>1. ind.levels \in Nat \ {0} /\ ind.max - ind.min \in Nat
      BY <2>2, BoxesAssumption
    <3>2. ind.max - ind.min - ((ind.max - ind.min) \div ind.levels) * ind.levels
            \in 0..(ind.levels - 1)
      BY <3>1, StepFits
    <3> HIDE DEF ind
    <3> QED
      BY <3>2 DEF Fits, getFrontPanelIndicatorInfo
  <2>6. DOMAIN returnResult' = DOMAIN returnResult \cup {MappedName}
    BY <2>1
  <2>7. DOMAIN returnResult' = {iarm2svc(box'[k].name) : k \in 1..(i' - 1)}
    BY <2>1, <2>3, <2>6 DEF RangeInv
  <2>8. MappedName \notin DOMAIN returnResult
    BY <2>4 DEF RangeInv
  <2>9. IsFiniteSet(DOMAIN returnResult') /\ Cardinality(DOMAIN returnResult') = i' - 1
    <3>1. /\ IsFiniteSet(DOMAIN returnResult \cup {MappedName})
          /\ Cardinality(DOMAIN returnResult \cup {MappedName}) = (i - 1) + 1
      BY <2>8, FS_AddElement DEF RangeInv
    <3> QED
      BY <2>3, <2>6, <3>1
  <2>10. \A k \in 1..(i' - 1) : Fits(returnResult'[iarm2svc(box'[k].name)], box'[k])
    <3>1. TAKE k \in 1..(i' - 1)
    <3>2. CASE k = i
      BY <2>1, <2>5, <3>2
    <3>3. CASE k \in 1..(i - 1)
      <4>1. iarm2svc(box[k].name) \in DOMAIN returnResult /\ iarm2svc(box[k].name) # MappedName
        BY <2>4, <3>3 DEF RangeInv
      <4> HIDE DEF MappedName, info
      <4>2. returnResult'[iarm2svc(box[k].name)] = returnResult[iarm2svc(box[k].name)]
        BY <2>1, <4>1
      <4> QED
        BY <2>1, <3>3, <4>2 DEF RangeInv
    <3> QED
      BY <2>3, <3>2, <3>3
  <2> HIDE DEF MappedName, info, ind
  <2> QED
    BY <1>0, <2>7, <2>9, <2>10 DEF RangeInv
<1> QED
  BY <1>1, <1>2 DEF Next

\* No light is lost, and each is described by its own range, for any box.
THEOREM EachItsRange == Spec => []OwnRange
<1>1. RangeInv => OwnRange
  <2> SUFFICES ASSUME RangeInv, Done PROVE
        /\ Cardinality(DOMAIN returnResult) = Len(box)
        /\ \A j \in DOMAIN box : Fits(returnResult[iarm2svc(box[j].name)], box[j])
    BY DEF OwnRange, Fits
  <2>1. i - 1 = Len(box) /\ DOMAIN box = 1..Len(box)
    BY BoxesAssumption DEF RangeInv, LightsInv, Done
  <2> QED
    BY <2>1 DEF RangeInv
<1> QED
  BY <1>1, RangeInit, RangeStep, PTL DEF Spec
=============================================================================
