--------------------------- MODULE Decoders_proofs ---------------------------
(***************************************************************************)
(* The dual wheel of Decoders, for any number of faults, stalls, resets    *)
(* that are interrupted and changes of speed: what the handlers tell of    *)
(* the angle, of time and of the end teeth is true, and sync returns.      *)
(* The argument goes from one turn of the wheel after a fault to the next: *)
(* in the first the filter of the crank line becomes short and the cam     *)
(* tooth is seen; by the end of the second the decoder is in its place;    *)
(* in the third and fourth its times become those of whole revolutions.    *)
(***************************************************************************)
EXTENDS Decoders, SequenceTheorems, TLAPS

\* The shortest and the longest time a degree may take.
Least == CHOOSE s \in Speeds : \A r \in Speeds : s <= r
Most == CHOOSE s \in Speeds : \A r \in Speeds : r <= s

\* The engine is never more than eight fifths as fast as at another time: a filter made
\* from the time of a whole turn would otherwise keep out teeth for longer.  An age that
\* counts as old is between one and four turns of the wheel.
EvenSpeeds ==
  /\ Least \in Speeds /\ Most \in Speeds
  /\ \A s \in Speeds : Least <= s /\ s <= Most
  /\ 5 * Most <= 8 * Least
  /\ 720 * Most <= Never /\ Never <= 2880 * Least

\* The cam tooth corrects the count later too, and the turns that must be quiet are enough.
Tuned == useResync /\ QuietMax >= 5

Dual == pattern = "DualWheel"

\* Degrees from the first tooth to the edge that passed last.
Angle == IF at = 9 THEN 675 ELSE 90 * (at - 1)

\* Degrees from the crank tooth that was handled last.
Gap == IF at = 9 THEN 45 ELSE IF edge = "none" THEN 0 ELSE 90

\* From the last cam tooth; from the last first tooth of a revolution.
SecGap == IF at = 9 THEN (IF edge = "none" THEN 0 ELSE 720) ELSE Angle + 45
OneGap ==
  IF edge = "none"
  THEN IF at <= 4 THEN Angle ELSE Angle - 360
  ELSE IF at = 1 THEN 360 ELSE IF at <= 5 THEN Angle ELSE Angle - 360

\* The edge that was handled last; the count and the revolution the decoder has after it.
Last == IF edge = "none" THEN at ELSE IF at = 1 THEN 9 ELSE at - 1

\* The n-th turn since the last fault has come to edge i, and that was handled.
Past(n, i) == quiet > n \/ (quiet = n /\ at >= i /\ (at = i => edge = "none"))

Ages == 0..Never

\* What the dual wheel reads and writes of the decoder's variables.
Used == {"toothCurrentCount", "syncStatus", "triggerToothAngle", "revolutionOne", "startRevolutions",
         "sinceTooth", "minusOne", "sinceSec", "sinceOne", "oneMinusOne", "triggerFilterTime",
         "triggerSecFilterTime"}

DecoderType(s) ==
  /\ \A f \in Used : f \in DOMAIN s
  /\ s.toothCurrentCount \in Nat /\ s.triggerToothAngle = 90 /\ s.revolutionOne \in BOOLEAN
  /\ s.startRevolutions \in 0..RevolutionsMax
  /\ s.sinceTooth \in Ages /\ s.minusOne \in Ages /\ s.sinceSec \in Ages
  /\ s.sinceOne \in Ages /\ s.oneMinusOne \in Ages
  /\ s.triggerFilterTime \in Nat /\ s.triggerSecFilterTime \in Nat

DualTypes ==
  /\ DecoderType(d) /\ pattern \in Patterns
  /\ at \in 1..9 /\ edge \in {"none", "pri", "sec"}
  /\ edge = "sec" => at = 9
  /\ speed \in Speeds /\ triggerFilter \in {0, 1}
  /\ quiet \in 0..QuietMax /\ faults \in Nat /\ changes \in Nat
  /\ quiet > 0 => resetLeft = {} /\ (at = 9 => edge # "pri")
  /\ resetLeft # {} => faults > 0
  /\ 5 \in resetLeft => 6 \in resetLeft
  /\ faults = 0 => (at = 9 => edge # "pri")

\* What holds whatever goes wrong.
Robust ==
  /\ Full => d.toothCurrentCount \in 1..4
  /\ ~Full /\ 6 \notin resetLeft => d.triggerFilterTime <= 1
  /\ d.triggerFilterTime <= 720 * Least
  /\ d.triggerSecFilterTime <= 720 * Least

\* The decoder has missed nothing since its last tooth.
Tracking == Past(1, 1) \/ (faults = 0 /\ Full)

\* A filter made from a long gap becomes short again, as each makes the next.
FilterShrinks ==
  /\ Tracking => d.sinceTooth <= d.triggerFilterTime + Gap * Most
  /\ Tracking \/ faults = 0 => d.triggerFilterTime = 0 \/ d.sinceTooth >= Gap * Least
  /\ faults = 0 => d.triggerFilterTime <= 90 * Least
  /\ Past(1, 1) => d.triggerFilterTime <= 216 * Least
                   \/ d.sinceTooth >= (IF quiet > 1 /\ at = 1 THEN 720 ELSE Angle) * Least
  /\ Past(2, 1) => \/ d.triggerFilterTime <= 90 * Least
                   \/ d.triggerFilterTime <= 216 * Least /\ quiet = 2 /\ d.sinceTooth >= Angle * Least

\* A turn after a cam tooth the next one is seen.
CamSeen ==
  /\ Past(1, 9) => d.sinceSec >= SecGap * Least
  /\ Past(2, 9) => Full

Aligned ==
  /\ d.toothCurrentCount = IF Last <= 4 THEN Last ELSE IF Last <= 8 THEN Last - 4 ELSE 4
  /\ (d.revolutionOne <=> Last >= 5)

\* In sync, the decoder is at the tooth handled last: always before the first fault, and from
\* the cam tooth of the second turn after one.
TracksWheel == Full /\ (faults = 0 \/ Past(2, 9)) => Aligned

\* From the third turn on: the age of the last first tooth, how long a revolution took,
\* the age of the last tooth and how long it took.
OneAge == Past(3, 1) => d.startRevolutions >= 1 /\ d.sinceOne \in (OneGap * Least)..(OneGap * Most)
OneTime == Past(3, 5) => d.startRevolutions >= 2 /\ d.oneMinusOne \in (360 * Least)..(360 * Most)
ToothAge ==
  Past(4, 1) => /\ d.startRevolutions = 3 /\ d.sinceTooth \in (Gap * Least)..(Gap * Most)
                /\ changes = 0 => d.sinceTooth = Gap * speed
ToothTime ==
  Past(4, 2) => /\ d.minusOne \in (90 * Least)..(90 * Most)
                /\ changes = 0 => d.minusOne = 90 * speed

Times == OneAge /\ OneTime /\ ToothAge /\ ToothTime

DualInv ==
  Dual => DualTypes /\ Robust /\ FilterShrinks /\ CamSeen /\ TracksWheel /\ Times

-----------------------------------------------------------------------------
(* The dual wheel's parts.                                                 *)

\* What the bounds on the speeds come to.
LEMMA SpeedBounds ==
  ASSUME EvenSpeeds
  PROVE  /\ Least \in Nat \ {0} /\ Most \in Nat \ {0} /\ Never \in Nat
         /\ Least <= Most /\ 5 * Most <= 8 * Least
         /\ 720 * Most <= Never /\ Never <= 2880 * Least
         /\ \A s \in Speeds : s \in Nat \ {0} /\ Least <= s /\ s <= Most
  BY DecodersAssumption, StateAssumption DEF EvenSpeeds

\* The dual wheel's own line of the table of decoders, and its edges.
LEMMA DualProfile ==
  ASSUME Dual, pattern \in Patterns
  PROVE  /\ profile.wheel = Wheel_DualWheel /\ profile.turn = 720 /\ profile.cycle = 720
         /\ profile.unit = <<1, 1>> /\ profile.levels = {0, 1}
         /\ profile.probe = 1..Len(Wheel_DualWheel)
         /\ profile.hasty = FALSE /\ profile.evenly = TRUE /\ profile.syncs = TRUE
         /\ profile.limit = 720 /\ profile.ahead = 180
         /\ profile.advances = {0, 5, 10, 20, 30, 40}
<1>1. profile = ProfileOf("DualWheel")
  BY DEF profile, profiles, Dual
<1>2. ProfileOf("DualWheel") = [Profile(Wheel_DualWheel, 720, 720) EXCEPT !.levels = {0, 1}, !.ahead = 180]
  BY DEF ProfileOf
<1> DEFINE q == Profile(Wheel_DualWheel, 720, 720)
<1>3. /\ q.wheel = Wheel_DualWheel /\ q.turn = 720 /\ q.cycle = 720
      /\ q.unit = <<1, 1>> /\ q.probe = 1..Len(Wheel_DualWheel)
      /\ q.hasty = FALSE /\ q.evenly = TRUE /\ q.syncs = TRUE /\ q.limit = 720
      /\ q.advances = {0, 5, 10, 20, 30, 40}
      /\ DOMAIN q = {"wheel", "turn", "cycle", "unit", "levels", "heals", "probe", "hasty", "evenly",
                     "limit", "ahead", "cranking", "advances", "syncs", "races"}
  BY DEF Profile
<1> HIDE DEF q
<1>4. profile = [q EXCEPT !.levels = {0, 1}, !.ahead = 180]
  BY <1>1, <1>2 DEF q
<1> QED BY <1>3, <1>4

LEMMA DualEdges ==
  /\ Len(Wheel_DualWheel) = 9
  /\ \A i \in 1..8 : Wheel_DualWheel[i].angle = 90 * (i - 1) /\ Wheel_DualWheel[i].line = "pri"
  /\ Wheel_DualWheel[9].angle = 675 /\ Wheel_DualWheel[9].line = "sec"
<1> DEFINE angles == <<0, 90, 180, 270, 360, 450, 540, 630>>
           teeth == Teeth(angles)
<1>1. Len(angles) = 8 /\ \A i \in 1..8 : angles[i] = 90 * (i - 1)
  <2>1. angles[1] = 0 /\ angles[2] = 90 /\ angles[3] = 180 /\ angles[4] = 270
        /\ angles[5] = 360 /\ angles[6] = 450 /\ angles[7] = 540 /\ angles[8] = 630
    OBVIOUS
  <2>2. \A i \in 1..8 : i = 1 \/ i = 2 \/ i = 3 \/ i = 4 \/ i = 5 \/ i = 6 \/ i = 7 \/ i = 8
    OBVIOUS
  <2>3. Len(angles) = 8
    OBVIOUS
  <2> HIDE DEF angles
  <2> QED BY <2>1, <2>2, <2>3
<1> HIDE DEF angles
<1>2. teeth = [i \in 1..8 |-> Pri(angles[i])]
  BY <1>1 DEF Teeth
<1> HIDE DEF teeth
<1>3. \A i \in 1..8 : teeth[i].angle = 90 * (i - 1) /\ teeth[i].line = "pri"
  BY <1>1, <1>2 DEF Pri, Edge
<1> DEFINE S == {teeth[i] : i \in 1..8} \cup {Sec(675)}
<1>4. teeth \in Seq(S) /\ Len(teeth) = 8 /\ Sec(675) \in S
  BY <1>2
<1> HIDE DEF S
<1>5. Sec(675).angle = 675 /\ Sec(675).line = "sec"
  BY DEF Sec, Edge
<1>6. ASSUME NEW T, NEW s \in Seq(T), NEW e \in T, Len(s) = 8
      PROVE  /\ Len(Append(s, e)) = 9 /\ Append(s, e)[9] = e
             /\ \A i \in 1..8 : Append(s, e)[i] = s[i]
  <2>1. Len(Append(s, e)) = Len(s) + 1
    BY <1>6, AppendProperties
  <2>2. Append(s, e)[Len(s) + 1] = e
    BY <1>6, AppendProperties
  <2>3. ASSUME NEW i \in 1..Len(s)
        PROVE  Append(s, e)[i] = s[i]
    BY AppendProperties
  <2> QED BY <1>6, <2>1, <2>2, <2>3
<1>7. Wheel_DualWheel = Append(teeth, Sec(675))
  BY DEF Wheel_DualWheel, teeth, angles
<1>8. Len(Wheel_DualWheel) = 9 /\ Wheel_DualWheel[9] = Sec(675)
      /\ \A i \in 1..8 : Wheel_DualWheel[i] = teeth[i]
  <2>1. teeth \in Seq(S) /\ Sec(675) \in S /\ Len(teeth) = 8
    BY <1>4
  <2> HIDE DEF S, teeth
  <2> QED BY <1>6, <1>7, <2>1
<1> QED BY <1>3, <1>5, <1>8

-----------------------------------------------------------------------------
(* What each action does to the dual wheel's decoder.                      *)

\* Angles less than a turn apart, taken round the wheel.
LEMMA Round ==
  ASSUME NEW a \in Int, -720 <= a, a < 720
  PROVE  a % 720 = IF a < 0 THEN a + 720 ELSE a
<1> DEFINE q == a \div 720
           r == a % 720
<1>1. q \in Int /\ r \in 0..719 /\ a = 720 * q + r
  OBVIOUS
<1> HIDE DEF q, r
<1>2. r = IF a < 0 THEN a + 720 ELSE a
  BY <1>1
<1> QED BY <1>2 DEF r

\* The angle to the next edge.
Step == IF at >= 8 THEN 45 ELSE 90

\* Time makes the ages older and leaves the rest.
LEMMA AgedFields ==
  ASSUME EvenSpeeds, DecoderType(d), NEW dt \in Nat
  PROVE  /\ DecoderType(Aged(dt))
         /\ Aged(dt).sinceTooth = Old(d.sinceTooth, dt)
         /\ Aged(dt).sinceSec = Old(d.sinceSec, dt)
         /\ Aged(dt).sinceOne = Old(d.sinceOne, dt)
         /\ \A f \in {"toothCurrentCount", "syncStatus", "triggerToothAngle",
                      "revolutionOne", "startRevolutions", "minusOne", "oneMinusOne",
                      "triggerFilterTime", "triggerSecFilterTime"} : Aged(dt)[f] = d[f]
<1>1. \A age \in Ages : Old(age, dt) \in Ages
  BY SpeedBounds DEF Old, Ages
<1>2. DecoderType(Aged(dt))
  BY <1>1 DEF Aged, DecoderType, Used
<1> QED BY <1>2 DEF Aged, DecoderType, Used

LEMMA Turns ==
  ASSUME EvenSpeeds, Dual, DualTypes, Turn
  PROVE  /\ at' = (IF at = 9 THEN 1 ELSE at + 1) /\ edge' = (IF at = 8 THEN "sec" ELSE "pri")
         /\ d' = Aged(Step * speed) /\ Step * speed \in Nat
         /\ edge = "none" /\ resetLeft = {}
         /\ quiet' = (IF at = 9 /\ quiet < QuietMax THEN quiet + 1 ELSE quiet)
         /\ UNCHANGED <<pattern, triggerFilter, speed, resetLeft, changes, faults>>
<1>1. at \in 1..9 /\ speed \in Nat /\ pattern \in Patterns
  BY SpeedBounds DEF DualTypes
<1>2. Following(at) = (IF at = 9 THEN 1 ELSE at + 1)
  <2>1. Following(at) = (at % 9) + 1
    <3>1. Len(profile.wheel) = 9
      BY <1>1, DualProfile, DualEdges
    <3> QED BY <3>1 DEF Following
  <2>2. at % 9 = (IF at = 9 THEN 0 ELSE at)
    BY <1>1
  <2> QED BY <1>1, <2>1, <2>2
<1>3. profile.wheel[Following(at)].line = (IF at = 8 THEN "sec" ELSE "pri")
  BY <1>1, <1>2, DualProfile, DualEdges
<1>4. (profile.wheel[Following(at)].angle - profile.wheel[at].angle) % profile.turn = Step
  <2> DEFINE a == Wheel_DualWheel[Following(at)].angle - Wheel_DualWheel[at].angle
  <2>1. a = (IF at = 9 THEN 0 - 675 ELSE IF at = 8 THEN 45 ELSE 90)
    BY <1>1, <1>2, DualEdges
  <2>2. profile.wheel[Following(at)].angle - profile.wheel[at].angle = a /\ profile.turn = 720
    BY <1>1, DualProfile
  <2> HIDE DEF a
  <2>3. a % 720 = IF a < 0 THEN a + 720 ELSE a
    BY <1>1, <2>1, Round
  <2>4. a % 720 = Step
    BY <1>1, <2>1, <2>3 DEF Step
  <2> QED BY <2>2, <2>4
<1>5. Step * speed \in Nat
  BY <1>1 DEF Step
<1>6. Following(at) = 1 <=> at = 9
  BY <1>1, <1>2
<1> QED BY <1>1, <1>2, <1>3, <1>4, <1>5, <1>6 DEF Turn
\* At the levels a dual wheel has the filter is at most a quarter of the gap.
LEMMA FilterOf ==
  ASSUME triggerFilter \in {0, 1}, NEW gap \in Nat
  PROVE  setFilter(gap) \in Nat /\ 4 * setFilter(gap) <= gap
<1>1. gap \div 4 \in Nat /\ 4 * (gap \div 4) <= gap
  OBVIOUS
<1> QED BY <1>1 DEF setFilter

\* The handlers that run are the dual wheel's.
LEMMA CrankTooth ==
  ASSUME EvenSpeeds, Dual, DualTypes, Handle, edge = "pri"
  PROVE  /\ edge' = "none" /\ UNCHANGED wheel
         /\ triggerPri_DualWheel(4)
  BY DEF Handle, triggerPri, Dual, triggerTeeth

LEMMA CamTooth ==
  ASSUME EvenSpeeds, Dual, DualTypes, Handle, edge = "sec"
  PROVE  /\ edge' = "none" /\ UNCHANGED wheel
         /\ triggerSec_DualWheel(4, 360 * speed)
  BY DEF Handle, triggerSec, Dual, triggerTeeth

LEMMA CountedType ==
  ASSUME DecoderType(d)
  PROVE  Counted \in Nat /\ (d.toothCurrentCount <= 4 => Counted = d.toothCurrentCount + 1)
  BY DEF Counted, CountMax, DecoderType, Used

LEMMA LastToothFields ==
  ASSUME EvenSpeeds, DecoderType(d)
  PROVE  /\ DecoderType(LastTooth(d))
         /\ LastTooth(d).sinceTooth = 0 /\ LastTooth(d).minusOne = d.sinceTooth
         /\ \A f \in {"toothCurrentCount", "syncStatus", "triggerToothAngle",
                      "revolutionOne", "startRevolutions", "oneMinusOne", "sinceSec", "sinceOne",
                      "triggerFilterTime", "triggerSecFilterTime"} : LastTooth(d)[f] = d[f]
<1>1. 0 \in Ages
  BY SpeedBounds DEF Ages
<1>2. DecoderType(LastTooth(d))
  BY <1>1 DEF LastTooth, DecoderType, Used
<1> QED BY <1>2 DEF LastTooth, DecoderType, Used

\* A tooth before sync.
LEMMA ToothBeforeSync ==
  ASSUME EvenSpeeds, DecoderType(d), d' = [LastTooth(d) EXCEPT !.toothCurrentCount = Counted]
  PROVE  /\ DecoderType(d') /\ d'.sinceTooth = 0 /\ d'.minusOne = d.sinceTooth
         /\ d'.toothCurrentCount = Counted
         /\ \A f \in {"syncStatus", "triggerToothAngle",
                      "revolutionOne", "startRevolutions", "oneMinusOne", "sinceSec", "sinceOne",
                      "triggerFilterTime", "triggerSecFilterTime"} : d'[f] = d[f]
<1>1. PICK s : s = LastTooth(d) /\ DecoderType(s)
  BY LastToothFields
<1>2. DecoderType(d')
  BY <1>1, CountedType DEF DecoderType, Used
<1> QED BY <1>1, <1>2, LastToothFields DEF DecoderType, Used

\* One in sync; the fourth ends a revolution.
LEMMA ToothInSync ==
  ASSUME EvenSpeeds, DecoderType(d), d.toothCurrentCount \in 1..4, triggerFilter \in {0, 1},
         LET s == [LastTooth(d) EXCEPT !.triggerFilterTime = setFilter(d.sinceTooth)]
         IN  d' = IF Counted = 1 \/ Counted > 4
                  THEN [ToothOne(s) EXCEPT !.toothCurrentCount = 1, !.revolutionOne = ~@]
                  ELSE [s EXCEPT !.toothCurrentCount = Counted]
  PROVE  /\ DecoderType(d') /\ d'.sinceTooth = 0 /\ d'.minusOne = d.sinceTooth
         /\ d'.triggerFilterTime = setFilter(d.sinceTooth)
         /\ d'.toothCurrentCount = (IF d.toothCurrentCount = 4 THEN 1 ELSE d.toothCurrentCount + 1)
         /\ d'.revolutionOne = (IF d.toothCurrentCount = 4 THEN ~d.revolutionOne ELSE d.revolutionOne)
         /\ d'.sinceOne = (IF d.toothCurrentCount = 4 THEN 0 ELSE d.sinceOne)
         /\ d'.oneMinusOne = (IF d.toothCurrentCount = 4 THEN d.sinceOne ELSE d.oneMinusOne)
         /\ d'.startRevolutions = (IF d.toothCurrentCount = 4 /\ d.startRevolutions < 3
                                   THEN d.startRevolutions + 1 ELSE d.startRevolutions)
         /\ d'.syncStatus = d.syncStatus /\ d'.sinceSec = d.sinceSec
         /\ d'.triggerSecFilterTime = d.triggerSecFilterTime
<1>1. PICK l : l = LastTooth(d) /\ DecoderType(l)
  BY LastToothFields
<1> DEFINE s == [l EXCEPT !.triggerFilterTime = setFilter(d.sinceTooth)]
<1>2. setFilter(d.sinceTooth) \in Nat /\ d.sinceTooth \in Nat
  BY FilterOf, SpeedBounds DEF DecoderType, Used, Ages
<1>3. DecoderType(s)
  BY <1>1, <1>2 DEF DecoderType, Used
<1>4. /\ s.sinceTooth = 0 /\ s.minusOne = d.sinceTooth /\ s.triggerFilterTime = setFilter(d.sinceTooth)
      /\ s.toothCurrentCount = d.toothCurrentCount /\ s.syncStatus = d.syncStatus
      /\ s.revolutionOne = d.revolutionOne /\ s.startRevolutions = d.startRevolutions
      /\ s.sinceOne = d.sinceOne /\ s.oneMinusOne = d.oneMinusOne /\ s.sinceSec = d.sinceSec
      /\ s.triggerSecFilterTime = d.triggerSecFilterTime
  <2>1. /\ l.sinceTooth = 0 /\ l.minusOne = d.sinceTooth
        /\ l.toothCurrentCount = d.toothCurrentCount /\ l.syncStatus = d.syncStatus
        /\ l.revolutionOne = d.revolutionOne /\ l.startRevolutions = d.startRevolutions
        /\ l.sinceOne = d.sinceOne /\ l.oneMinusOne = d.oneMinusOne /\ l.sinceSec = d.sinceSec
        /\ l.triggerSecFilterTime = d.triggerSecFilterTime
    BY <1>1, LastToothFields
  <2> QED BY <1>1, <2>1 DEF DecoderType, Used
<1>5. Counted = d.toothCurrentCount + 1
  BY CountedType
<1>6. d' = IF Counted = 1 \/ Counted > 4
           THEN [ToothOne(s) EXCEPT !.toothCurrentCount = 1, !.revolutionOne = ~@]
           ELSE [s EXCEPT !.toothCurrentCount = Counted]
  BY <1>1
<1> HIDE DEF s
<1>7. CASE d.toothCurrentCount = 4
  <2>1. PICK o : o = ToothOne(s)
    OBVIOUS
  <2>2. DecoderType(o)
    BY <1>3, <2>1, SpeedBounds DEF ToothOne, DecoderType, Used, Ages, RevolutionsMax
  <2>3. /\ o.sinceOne = 0 /\ o.oneMinusOne = s.sinceOne
        /\ o.startRevolutions = (IF s.startRevolutions < 3 THEN s.startRevolutions + 1 ELSE s.startRevolutions)
        /\ o.sinceTooth = s.sinceTooth /\ o.minusOne = s.minusOne
        /\ o.triggerFilterTime = s.triggerFilterTime /\ o.revolutionOne = s.revolutionOne
        /\ o.syncStatus = s.syncStatus /\ o.sinceSec = s.sinceSec
        /\ o.triggerSecFilterTime = s.triggerSecFilterTime
    BY <1>3, <2>1 DEF ToothOne, DecoderType, Used, RevolutionsMax
  <2>4. d' = [o EXCEPT !.toothCurrentCount = 1, !.revolutionOne = ~@]
    BY <1>5, <1>6, <1>7, <2>1
  <2>5. /\ d'.toothCurrentCount = 1 /\ d'.revolutionOne = ~o.revolutionOne
        /\ \A f \in Used \ {"toothCurrentCount", "revolutionOne"} : d'[f] = o[f]
    BY <2>2, <2>4 DEF DecoderType, Used
  <2>6. DOMAIN d' = DOMAIN o
    BY <2>4
  <2>7. DecoderType(d')
    BY <2>2, <2>5, <2>6 DEF DecoderType, Used
  <2> QED BY <1>4, <1>7, <2>3, <2>5, <2>7 DEF Used
<1>8. CASE d.toothCurrentCount # 4
  <2>1. d' = [s EXCEPT !.toothCurrentCount = d.toothCurrentCount + 1]
    BY <1>5, <1>6, <1>8
  <2>2. /\ d'.toothCurrentCount = d.toothCurrentCount + 1
        /\ \A f \in Used \ {"toothCurrentCount"} : d'[f] = s[f]
    BY <1>3, <2>1 DEF DecoderType, Used
  <2>3. DOMAIN d' = DOMAIN s
    BY <2>1
  <2>4. d'.toothCurrentCount \in Nat
    BY <2>2
  <2>5. DecoderType(d')
    BY <1>3, <2>2, <2>3, <2>4 DEF DecoderType, Used
  <2> QED BY <1>4, <1>8, <2>2, <2>5 DEF Used
<1> QED BY <1>7, <1>8

\* The cam tooth: one it takes for noise, one that puts the decoder in its place and one
\* that only sets the count.
LEMMA CamNoise ==
  ASSUME EvenSpeeds, DecoderType(d), speed \in Speeds,
         d' = [d EXCEPT !.triggerSecFilterTime = (360 * speed) \div 2]
  PROVE  /\ DecoderType(d') /\ d'.triggerSecFilterTime = 180 * speed
         /\ \A f \in {"sinceTooth", "minusOne", "sinceSec", "sinceOne", "oneMinusOne", "toothCurrentCount",
                      "syncStatus", "revolutionOne", "startRevolutions", "triggerFilterTime"} : d'[f] = d[f]
<1>1. (360 * speed) \div 2 = 180 * speed /\ 180 * speed \in Nat
  BY SpeedBounds
<1>2. DecoderType(d')
  BY <1>1 DEF DecoderType, Used
<1> QED BY <1>1, <1>2 DEF DecoderType, Used

LEMMA CamSync ==
  ASSUME EvenSpeeds, DecoderType(d),
         d' = [[d EXCEPT !.sinceSec = 0, !.triggerSecFilterTime = d.sinceSec \div 4, !.revolutionOne = TRUE]
                 EXCEPT !.sinceTooth = 0, !.minusOne = Never, !.toothCurrentCount = 4,
                        !.triggerFilterTime = 0, !.syncStatus = "Full"]
  PROVE  /\ DecoderType(d') /\ d'.sinceSec = 0 /\ 4 * d'.triggerSecFilterTime <= d.sinceSec
         /\ d'.revolutionOne /\ d'.sinceTooth = 0 /\ d'.toothCurrentCount = 4 /\ d'.triggerFilterTime = 0
         /\ d'.syncStatus = "Full"
         /\ \A f \in {"sinceOne", "oneMinusOne", "startRevolutions"} : d'[f] = d[f]
<1>1. d.sinceSec \div 4 \in Nat /\ 4 * (d.sinceSec \div 4) <= d.sinceSec
  BY SpeedBounds DEF DecoderType, Used, Ages
<1>2. 0 \in Ages /\ Never \in Ages
  BY SpeedBounds DEF Ages
<1>3. DecoderType(d')
  BY <1>1, <1>2 DEF DecoderType, Used
<1> QED BY <1>1, <1>3 DEF DecoderType, Used

LEMMA CamResync ==
  ASSUME EvenSpeeds, DecoderType(d),
         d' = [[d EXCEPT !.sinceSec = 0, !.triggerSecFilterTime = d.sinceSec \div 4, !.revolutionOne = TRUE]
                 EXCEPT !.toothCurrentCount = 4]
  PROVE  /\ DecoderType(d') /\ d'.sinceSec = 0 /\ 4 * d'.triggerSecFilterTime <= d.sinceSec
         /\ d'.revolutionOne /\ d'.toothCurrentCount = 4
         /\ \A f \in {"sinceTooth", "minusOne", "sinceOne", "oneMinusOne", "syncStatus", "startRevolutions",
                      "triggerFilterTime"} : d'[f] = d[f]
<1>1. d.sinceSec \div 4 \in Nat /\ 4 * (d.sinceSec \div 4) <= d.sinceSec
  BY SpeedBounds DEF DecoderType, Used, Ages
<1>2. 0 \in Ages
  BY SpeedBounds DEF Ages
<1>3. DecoderType(d')
  BY <1>1, <1>2 DEF DecoderType, Used
<1> QED BY <1>1, <1>3 DEF DecoderType, Used
-----------------------------------------------------------------------------
(* The steps of an engine that turns, by what they do to the fields.       *)

\* An edge passes.
Passes ==
  /\ edge = "none" /\ resetLeft = {}
  /\ at' = (IF at = 9 THEN 1 ELSE at + 1) /\ edge' = (IF at = 8 THEN "sec" ELSE "pri")
  /\ quiet' = (IF at = 9 /\ quiet < QuietMax THEN quiet + 1 ELSE quiet)
  /\ DecoderType(d') /\ Step * speed \in Nat
  /\ d'.sinceTooth = Old(d.sinceTooth, Step * speed)
  /\ d'.sinceSec = Old(d.sinceSec, Step * speed)
  /\ d'.sinceOne = Old(d.sinceOne, Step * speed)
  /\ d'.toothCurrentCount = d.toothCurrentCount /\ d'.syncStatus = d.syncStatus
  /\ d'.revolutionOne = d.revolutionOne /\ d'.startRevolutions = d.startRevolutions
  /\ d'.minusOne = d.minusOne /\ d'.oneMinusOne = d.oneMinusOne
  /\ d'.triggerFilterTime = d.triggerFilterTime /\ d'.triggerSecFilterTime = d.triggerSecFilterTime
  /\ UNCHANGED <<pattern, triggerFilter, speed, resetLeft, changes, faults>>

\* The handler of a crank tooth that passed too soon, before sync, and in sync.
TooSoon == d.sinceTooth < d.triggerFilterTime /\ d' = d

BeforeSync ==
  /\ d.sinceTooth >= d.triggerFilterTime /\ ~Full
  /\ d'.sinceTooth = 0 /\ d'.minusOne = d.sinceTooth /\ d'.toothCurrentCount = Counted
  /\ d'.syncStatus = d.syncStatus /\ d'.revolutionOne = d.revolutionOne
  /\ d'.startRevolutions = d.startRevolutions /\ d'.oneMinusOne = d.oneMinusOne
  /\ d'.sinceSec = d.sinceSec /\ d'.sinceOne = d.sinceOne
  /\ d'.triggerFilterTime = d.triggerFilterTime /\ d'.triggerSecFilterTime = d.triggerSecFilterTime

InSync ==
  /\ d.sinceTooth >= d.triggerFilterTime /\ Full
  /\ d'.sinceTooth = 0 /\ d'.minusOne = d.sinceTooth
  /\ d'.triggerFilterTime \in Nat /\ 4 * d'.triggerFilterTime <= d.sinceTooth
  /\ d'.toothCurrentCount = (IF d.toothCurrentCount = 4 THEN 1 ELSE d.toothCurrentCount + 1)
  /\ (d'.revolutionOne <=> IF d.toothCurrentCount = 4 THEN ~d.revolutionOne ELSE d.revolutionOne)
  /\ d'.sinceOne = (IF d.toothCurrentCount = 4 THEN 0 ELSE d.sinceOne)
  /\ d'.oneMinusOne = (IF d.toothCurrentCount = 4 THEN d.sinceOne ELSE d.oneMinusOne)
  /\ d'.startRevolutions = (IF d.toothCurrentCount = 4 /\ d.startRevolutions < 3
                            THEN d.startRevolutions + 1 ELSE d.startRevolutions)
  /\ d'.syncStatus = d.syncStatus /\ d'.sinceSec = d.sinceSec
  /\ d'.triggerSecFilterTime = d.triggerSecFilterTime

\* That of a cam tooth that passed too soon, that places the decoder, and that counts.
CamTooSoon ==
  /\ d.sinceSec < d.triggerSecFilterTime /\ d'.triggerSecFilterTime = 180 * speed
  /\ d'.sinceTooth = d.sinceTooth /\ d'.minusOne = d.minusOne /\ d'.sinceSec = d.sinceSec
  /\ d'.sinceOne = d.sinceOne /\ d'.oneMinusOne = d.oneMinusOne
  /\ d'.toothCurrentCount = d.toothCurrentCount /\ d'.syncStatus = d.syncStatus
  /\ d'.revolutionOne = d.revolutionOne /\ d'.startRevolutions = d.startRevolutions
  /\ d'.triggerFilterTime = d.triggerFilterTime

CamPlaces ==
  /\ d.sinceSec >= d.triggerSecFilterTime /\ (~Full \/ d.startRevolutions <= StgCycles)
  /\ d'.sinceSec = 0 /\ 4 * d'.triggerSecFilterTime <= d.sinceSec
  /\ d'.revolutionOne /\ d'.sinceTooth = 0 /\ d'.toothCurrentCount = 4 /\ d'.triggerFilterTime = 0
  /\ d'.syncStatus = "Full"
  /\ d'.sinceOne = d.sinceOne /\ d'.oneMinusOne = d.oneMinusOne
  /\ d'.startRevolutions = d.startRevolutions

CamCounts ==
  /\ d.sinceSec >= d.triggerSecFilterTime /\ Full /\ d.startRevolutions > StgCycles
  /\ d'.sinceSec = 0 /\ 4 * d'.triggerSecFilterTime <= d.sinceSec
  /\ d'.revolutionOne /\ d'.toothCurrentCount = 4
  /\ d'.sinceTooth = d.sinceTooth /\ d'.minusOne = d.minusOne
  /\ d'.sinceOne = d.sinceOne /\ d'.oneMinusOne = d.oneMinusOne
  /\ d'.syncStatus = d.syncStatus /\ d'.startRevolutions = d.startRevolutions
  /\ d'.triggerFilterTime = d.triggerFilterTime

Handled == edge' = "none" /\ UNCHANGED wheel /\ DecoderType(d')
CrankHandled == edge = "pri" /\ Handled /\ (TooSoon \/ BeforeSync \/ InSync)
CamHandled == edge = "sec" /\ Handled /\ (CamTooSoon \/ CamPlaces \/ CamCounts)

Moves == Passes \/ CrankHandled \/ CamHandled

LEMMA TurnPasses ==
  ASSUME EvenSpeeds, Dual, DualTypes, Turn
  PROVE  Passes
<1>1. DecoderType(d)
  BY DEF DualTypes
<1> QED BY <1>1, Turns, AgedFields DEF Passes

LEMMA CrankOutcomes ==
  ASSUME EvenSpeeds, Dual, DualTypes, Robust, Handle, edge = "pri"
  PROVE  CrankHandled
<1>1. edge' = "none" /\ UNCHANGED wheel /\ triggerPri_DualWheel(4) /\ DecoderType(d)
  BY CrankTooth DEF DualTypes
<1>2. CASE d.sinceTooth < d.triggerFilterTime /\ d' = d
  BY <1>1, <1>2 DEF CrankHandled, Handled, TooSoon
<1>3. CASE /\ d.sinceTooth >= d.triggerFilterTime /\ ~Full
           /\ d' = [LastTooth(d) EXCEPT !.toothCurrentCount = Counted]
  <2>1. DecoderType(d') /\ BeforeSync
    BY <1>1, <1>3, ToothBeforeSync DEF BeforeSync
  <2> QED BY <1>1, <2>1 DEF CrankHandled, Handled
<1>4. CASE /\ d.sinceTooth >= d.triggerFilterTime /\ Full
           /\ LET s == [LastTooth(d) EXCEPT !.triggerFilterTime = setFilter(d.sinceTooth)]
              IN  d' = IF Counted = 1 \/ Counted > 4
                       THEN [ToothOne(s) EXCEPT !.toothCurrentCount = 1, !.revolutionOne = ~@]
                       ELSE [s EXCEPT !.toothCurrentCount = Counted]
  <2>1. d.toothCurrentCount \in 1..4 /\ triggerFilter \in {0, 1}
    BY <1>4 DEF Robust, DualTypes
  <2>2. setFilter(d.sinceTooth) \in Nat /\ 4 * setFilter(d.sinceTooth) <= d.sinceTooth
    BY <1>1, <2>1, FilterOf, SpeedBounds DEF DecoderType, Ages
  <2>3. DecoderType(d') /\ InSync
    BY <1>1, <1>4, <2>1, <2>2, ToothInSync DEF InSync
  <2> QED BY <1>1, <2>3 DEF CrankHandled, Handled
<1> QED BY <1>1, <1>2, <1>3, <1>4 DEF triggerPri_DualWheel

LEMMA CamOutcomes ==
  ASSUME EvenSpeeds, Tuned, Dual, DualTypes, Handle, edge = "sec"
  PROVE  CamHandled
<1>1. edge' = "none" /\ UNCHANGED wheel /\ triggerSec_DualWheel(4, 360 * speed) /\ DecoderType(d)
      /\ speed \in Speeds
  BY CamTooth DEF DualTypes
<1>2. CASE d.sinceSec < d.triggerSecFilterTime
  <2>1. d' = [d EXCEPT !.triggerSecFilterTime = (360 * speed) \div 2]
    BY <1>1, <1>2 DEF triggerSec_DualWheel
  <2>2. DecoderType(d') /\ CamTooSoon
    BY <1>1, <1>2, <2>1, CamNoise DEF CamTooSoon
  <2> QED BY <1>1, <2>2 DEF CamHandled, Handled
<1>3. CASE ~(d.sinceSec < d.triggerSecFilterTime)
  <2>1. d.sinceSec >= d.triggerSecFilterTime
    BY <1>1, <1>3, SpeedBounds DEF DecoderType, Ages
  <2> DEFINE s == [d EXCEPT !.sinceSec = 0, !.triggerSecFilterTime = d.sinceSec \div 4, !.revolutionOne = TRUE]
  <2>2. CASE ~Full \/ d.startRevolutions <= StgCycles
    <3>1. d' = [s EXCEPT !.sinceTooth = 0, !.minusOne = Never, !.toothCurrentCount = 4,
                         !.triggerFilterTime = 0, !.syncStatus = "Full"]
      BY <1>1, <1>3, <2>2 DEF triggerSec_DualWheel
    <3>2. DecoderType(d') /\ CamPlaces
      BY <1>1, <2>1, <2>2, <3>1, CamSync DEF CamPlaces
    <3> QED BY <1>1, <3>2 DEF CamHandled, Handled
  <2>3. CASE ~(~Full \/ d.startRevolutions <= StgCycles)
    <3>1. d' = [s EXCEPT !.toothCurrentCount = 4]
      BY <1>1, <1>3, <2>3 DEF triggerSec_DualWheel, Tuned
    <3>2. Full /\ d.startRevolutions > StgCycles
      BY <1>1, <2>3, StateAssumption DEF DecoderType, RevolutionsMax
    <3>3. DecoderType(d') /\ CamCounts
      BY <1>1, <2>1, <3>1, <3>2, CamResync DEF CamCounts
    <3> QED BY <1>1, <3>3 DEF CamHandled, Handled
  <2> QED BY <2>2, <2>3
<1> QED BY <1>2, <1>3
-----------------------------------------------------------------------------
(* The reset, whole and in part.                                           *)

LEMMA StoresFields ==
  ASSUME EvenSpeeds, NEW s, DecoderType(s), NEW which
  PROVE  LET r == ResetStores(s, which)
         IN  /\ DecoderType(r)
             /\ r.syncStatus = (IF 5 \in which THEN "None" ELSE s.syncStatus)
             /\ r.triggerFilterTime = (IF 6 \in which THEN 0 ELSE s.triggerFilterTime)
             /\ \A f \in Used \ {"syncStatus", "triggerFilterTime", "sinceSec", "sinceTooth"} : r[f] = s[f]
<1>1. 0 \in Nat /\ Never \in Ages
  BY SpeedBounds DEF Ages
<1>2. PICK r : r = ResetStores(s, which)
  OBVIOUS
<1>3. DOMAIN r = DOMAIN s
  BY <1>2 DEF ResetStores
<1>4. /\ r.syncStatus = (IF 5 \in which THEN "None" ELSE s.syncStatus)
      /\ r.triggerFilterTime = (IF 6 \in which THEN 0 ELSE s.triggerFilterTime)
      /\ r.sinceSec = (IF 1 \in which THEN Never ELSE s.sinceSec)
      /\ r.sinceTooth = (IF 2 \in which THEN Never ELSE s.sinceTooth)
  BY <1>2 DEF ResetStores, DecoderType, Used
<1>6. ASSUME NEW f \in Used \ {"syncStatus", "triggerFilterTime", "sinceSec", "sinceTooth"}
      PROVE  r[f] = s[f]
  <2>1. f \in DOMAIN s
    BY DEF DecoderType
  <2>2. f \notin {"syncStatus", "triggerFilterTime", "sinceSec", "sinceTooth", "toothSystemCount",
                 "secondaryToothCount", "validTrigger"}
    BY DEF Used
  <2> QED BY <1>2, <2>1, <2>2 DEF ResetStores
<1>5. DecoderType(r)
  BY <1>1, <1>3, <1>4, <1>6 DEF DecoderType, Used
<1> QED BY <1>2, <1>4, <1>5, <1>6

\* triggerSetup, of whatever was left.
LEMMA SetupFields ==
  ASSUME EvenSpeeds, NEW s, DecoderType(s), Dual
  PROVE  LET r == triggerSetup(pattern, s)
         IN  /\ DecoderType(r) /\ r.syncStatus = "None"
             /\ r.triggerFilterTime = 1 /\ r.triggerSecFilterTime = 1
<1>1. PICK q : q = ResetStores(s, 1..7)
  OBVIOUS
<1>2. DecoderType(q) /\ q.syncStatus = "None"
  BY <1>1, StoresFields
<1>3. PICK r : r = triggerSetup(pattern, s)
  OBVIOUS
<1>4. 360 \div 4 = 90
  OBVIOUS
<1>5. r = [q EXCEPT !.triggerToothAngle = 90, !.toothCurrentCount = 255, !.triggerFilterTime = 1,
                    !.triggerSecFilterTime = 1, !.toothAngleIsCorrect = TRUE]
  BY <1>1, <1>3, <1>4 DEF triggerSetup, Dual, triggerSetup_DualWheel, sharedDecoderReset,
     DecoderResetStores,
     triggerTeeth, FilterAtMaxRPM
<1>6. DOMAIN r = DOMAIN q
  BY <1>5
<1>7. /\ r.triggerToothAngle = 90 /\ r.toothCurrentCount = 255 /\ r.triggerFilterTime = 1
      /\ r.triggerSecFilterTime = 1
  BY <1>2, <1>5 DEF DecoderType, Used
<1>9. ASSUME NEW f \in Used \ {"triggerToothAngle", "toothCurrentCount", "triggerFilterTime",
                              "triggerSecFilterTime"}
      PROVE  r[f] = q[f]
  <2>1. f \in DOMAIN q
    BY <1>2 DEF DecoderType
  <2>2. f \notin {"triggerToothAngle", "toothCurrentCount", "triggerFilterTime", "triggerSecFilterTime",
                 "toothAngleIsCorrect"}
    BY DEF Used
  <2> QED BY <1>5, <2>1, <2>2
<1>8. DecoderType(r)
  BY <1>2, <1>6, <1>7, <1>9 DEF DecoderType, Used
<1> QED BY <1>2, <1>3, <1>7, <1>8, <1>9 DEF Used

\* The main loop's reset: the stores that were left, and triggerSetup unless there is a log.
LEMMA ResetFields ==
  ASSUME EvenSpeeds, NEW s, DecoderType(s), Dual, NEW which, NEW logging \in BOOLEAN
  PROVE  LET r == Reset(s, which, logging)
         IN  /\ DecoderType(r)
             /\ \/ r.syncStatus = "None" /\ r.triggerFilterTime = 1 /\ r.triggerSecFilterTime = 1
                \/ /\ r.syncStatus = (IF 5 \in which THEN "None" ELSE s.syncStatus)
                   /\ r.triggerFilterTime = (IF 6 \in which THEN 0 ELSE s.triggerFilterTime)
                   /\ r.toothCurrentCount = s.toothCurrentCount
                   /\ r.triggerSecFilterTime = s.triggerSecFilterTime
<1>1. PICK q : q = ResetStores(s, which)
  OBVIOUS
<1>2. /\ DecoderType(q) /\ q.syncStatus = (IF 5 \in which THEN "None" ELSE s.syncStatus)
      /\ q.triggerFilterTime = (IF 6 \in which THEN 0 ELSE s.triggerFilterTime)
      /\ q.toothCurrentCount = s.toothCurrentCount /\ q.triggerSecFilterTime = s.triggerSecFilterTime
  BY <1>1, StoresFields DEF Used
<1>3. PICK r : r = [q EXCEPT !.startRevolutions = 0]
  OBVIOUS
<1>4. DecoderType(r)
  BY <1>2, <1>3 DEF DecoderType, Used, RevolutionsMax
<1>5. /\ r.syncStatus = q.syncStatus /\ r.triggerFilterTime = q.triggerFilterTime
      /\ r.toothCurrentCount = q.toothCurrentCount /\ r.triggerSecFilterTime = q.triggerSecFilterTime
  BY <1>2, <1>3 DEF DecoderType, Used
<1>6. Reset(s, which, logging) = IF logging THEN r ELSE triggerSetup(pattern, r)
  BY <1>1, <1>3 DEF Reset
<1> QED BY <1>2, <1>4, <1>5, <1>6, SetupFields
-----------------------------------------------------------------------------
(* The types, and what holds whatever goes wrong.                          *)

Sound == DualTypes /\ Robust

\* A fault forgets how long all was quiet.
LEMMA FaultMarks ==
  ASSUME Dual, DualTypes, NEW kind, Fault(kind)
  PROVE  /\ resetLeft = {} /\ faults \in Nat /\ faults' = faults + 1 /\ quiet' = 0
         /\ at \in 1..9
         /\ UNCHANGED <<pattern, triggerFilter, speed, changes>>
<1>1. resetLeft = {} /\ faults' = faults + 1 /\ quiet' = 0 /\ at \in profile.probe
      /\ UNCHANGED <<pattern, triggerFilter, speed, changes>>
  BY DEF Fault
<1> QED BY <1>1, DualProfile, DualEdges DEF DualTypes

LEMMA FollowingEdge ==
  ASSUME Dual, DualTypes
  PROVE  Following(at) \in 1..9 /\ profile.wheel[Following(at)].line = (IF Following(at) = 9 THEN "sec" ELSE "pri")
<1>1. Len(profile.wheel) = 9 /\ at \in 1..9
  BY DualProfile, DualEdges DEF DualTypes
<1>2. Following(at) \in 1..9
  BY <1>1 DEF Following
<1> HIDE DEF Following
<1>3. \A i \in 1..9 : profile.wheel[i].line = (IF i = 9 THEN "sec" ELSE "pri")
  BY DualProfile, DualEdges DEF DualTypes
<1> QED BY <1>2, <1>3

LEMMA SoundTurn ==
  ASSUME EvenSpeeds, Dual, Sound, Passes
  PROVE  Sound'
<1>1. DualTypes'
  BY DecodersAssumption DEF Sound, DualTypes, Passes
<1>2. Robust'
  BY <1>1 DEF Sound, Robust, Passes, Full
<1> QED BY <1>1, <1>2 DEF Sound

LEMMA SoundCrank ==
  ASSUME EvenSpeeds, Dual, Sound, CrankHandled
  PROVE  Sound'
<1>1. DualTypes'
  BY DEF Sound, DualTypes, CrankHandled, Handled, wheel
<1>2. d.sinceTooth <= Never /\ d.sinceTooth \in Nat /\ d.triggerFilterTime \in Nat /\ d.toothCurrentCount \in Nat
  BY SpeedBounds DEF Sound, DualTypes, DecoderType, Ages
<1>3. UNCHANGED resetLeft
  BY DEF CrankHandled, Handled, wheel
<1>4. CASE TooSoon
  BY <1>1, <1>3, <1>4 DEF Sound, Robust, Full, TooSoon
<1>5. CASE BeforeSync
  BY <1>1, <1>3, <1>5 DEF Sound, Robust, Full, BeforeSync
<1>6. CASE InSync
  BY <1>1, <1>2, <1>3, <1>6, SpeedBounds DEF Sound, Robust, Full, InSync
<1> QED BY <1>1, <1>4, <1>5, <1>6 DEF CrankHandled, Sound

LEMMA SoundCam ==
  ASSUME EvenSpeeds, Dual, Sound, CamHandled
  PROVE  Sound'
<1>1. DualTypes'
  BY DEF Sound, DualTypes, CamHandled, Handled, wheel
<1>2. d.sinceSec <= Never /\ d.sinceSec \in Nat /\ speed \in Nat /\ speed <= Most
  BY SpeedBounds DEF Sound, DualTypes, DecoderType, Ages
<1>3. UNCHANGED resetLeft /\ d'.triggerSecFilterTime \in Nat
  BY DEF CamHandled, Handled, wheel, DecoderType
<1>4. CASE CamTooSoon
  BY <1>1, <1>2, <1>3, <1>4, SpeedBounds DEF Sound, Robust, Full, CamTooSoon
<1>5. CASE CamPlaces
  BY <1>1, <1>2, <1>3, <1>5, SpeedBounds DEF Sound, Robust, Full, CamPlaces
<1>6. CASE CamCounts
  BY <1>1, <1>2, <1>3, <1>6, SpeedBounds DEF Sound, Robust, Full, CamCounts
<1> QED BY <1>1, <1>4, <1>5, <1>6 DEF CamHandled, Sound

LEMMA SoundRest ==
  ASSUME EvenSpeeds, Dual, Sound, ChangeSpeed \/ Lost \/ Noise \/ Stall \/ StallInterrupted \/ FinishReset
  PROVE  Sound'
<1>1. DecoderType(d) /\ DualTypes /\ Robust
  BY DEF Sound, DualTypes
<1>2. Never \in Nat /\ Least \in Nat /\ Least >= 1
  BY SpeedBounds
<1>3. CASE ChangeSpeed
  <2>1. speed' \in Speeds /\ changes' \in Nat /\ UNCHANGED <<pattern, triggerFilter, at, resetLeft, faults, edge, d>>
        /\ quiet' = quiet
    <3>1. profile.hasty = FALSE /\ speed \in Speeds /\ changes \in Nat
      BY <1>1, DualProfile DEF DualTypes
    <3> QED BY <1>3, <3>1 DEF ChangeSpeed
  <2> QED BY <1>1, <2>1 DEF Sound, DualTypes, Robust, Full
<1>4. CASE Lost
  <2>1. /\ faults' = faults + 1 /\ quiet' = 0 /\ edge' = "none" /\ UNCHANGED <<d, at, resetLeft>>
        /\ UNCHANGED <<pattern, triggerFilter, speed, changes>>
    BY <1>1, <1>4, FaultMarks DEF Lost
  <2> QED BY <1>1, <2>1, DecodersAssumption DEF Sound, DualTypes, Robust, Full
<1>5. CASE Noise
  <2>1. /\ faults' = faults + 1 /\ quiet' = 0 /\ edge' = "pri" /\ UNCHANGED <<at, resetLeft>>
        /\ UNCHANGED <<pattern, triggerFilter, speed, changes>> /\ d' = Aged(1)
    BY <1>1, <1>5, FaultMarks DEF Noise
  <2>2. DecoderType(d') /\ d'.toothCurrentCount = d.toothCurrentCount /\ d'.syncStatus = d.syncStatus
        /\ d'.triggerFilterTime = d.triggerFilterTime /\ d'.triggerSecFilterTime = d.triggerSecFilterTime
    BY <1>1, <2>1, AgedFields
  <2> QED BY <1>1, <2>1, <2>2, DecodersAssumption DEF Sound, DualTypes, Robust, Full
<1>6. CASE Stall
  <2>1. PICK logging \in BOOLEAN : d' = Reset(Aged(Never), DecoderResetStores, logging)
    BY <1>6 DEF Stall
  <2>2. /\ faults' = faults + 1 /\ quiet' = 0 /\ edge' = edge /\ UNCHANGED <<at, resetLeft>>
        /\ UNCHANGED <<pattern, triggerFilter, speed, changes>>
    BY <1>1, <1>6, FaultMarks DEF Stall
  <2>3. DecoderType(Aged(Never)) /\ Aged(Never).triggerSecFilterTime = d.triggerSecFilterTime
    BY <1>1, <1>2, AgedFields
  <2>4. 5 \in DecoderResetStores /\ 6 \in DecoderResetStores
    BY DEF DecoderResetStores
  <2>5. DecoderType(d') /\ d'.syncStatus = "None" /\ d'.triggerFilterTime \in {0, 1}
        /\ d'.triggerSecFilterTime \in {1, d.triggerSecFilterTime}
    BY <2>1, <2>3, <2>4, ResetFields
  <2> QED BY <1>1, <1>2, <2>2, <2>5, DecodersAssumption DEF Sound, DualTypes, Robust, Full
<1>7. CASE StallInterrupted
  <2>1. PICK n \in 0..7 : resetLeft' = (n + 1)..8 /\ d' = ResetStores(Aged(Never), 1..n)
    BY <1>7 DEF StallInterrupted
  <2>2. /\ faults \in Nat /\ faults' = faults + 1 /\ quiet' = 0 /\ UNCHANGED <<pattern, triggerFilter, speed, changes>>
        /\ at' = Following(at) /\ edge' = profile.wheel[at'].line
    BY <1>1, <1>7, FaultMarks DEF StallInterrupted
  <2>3. at' \in 1..9 /\ edge' = (IF at' = 9 THEN "sec" ELSE "pri")
    BY <1>1, <2>2, FollowingEdge
  <2>4. DecoderType(Aged(Never)) /\ Aged(Never).triggerSecFilterTime = d.triggerSecFilterTime
        /\ Aged(Never).triggerFilterTime = d.triggerFilterTime /\ Aged(Never).syncStatus = d.syncStatus
        /\ Aged(Never).toothCurrentCount = d.toothCurrentCount
    BY <1>1, <1>2, AgedFields
  <2>5. /\ DecoderType(d') /\ d'.toothCurrentCount = d.toothCurrentCount
        /\ d'.syncStatus = (IF 5 \in 1..n THEN "None" ELSE d.syncStatus)
        /\ d'.triggerFilterTime = (IF 6 \in 1..n THEN 0 ELSE d.triggerFilterTime)
        /\ d'.triggerSecFilterTime = d.triggerSecFilterTime
    BY <2>1, <2>4, StoresFields DEF Used
  <2>6. 6 \in resetLeft' <=> ~(6 \in 1..n)
    BY <2>1
  <2>7. DualTypes'
    BY <1>1, <2>1, <2>2, <2>3, <2>5, DecodersAssumption DEF DualTypes
  <2>8. Robust'
    BY <1>1, <1>2, <2>5, <2>6 DEF Robust, Full
  <2> QED BY <2>7, <2>8 DEF Sound
<1>8. CASE FinishReset
  <2>1. PICK logging \in BOOLEAN : d' = Reset(d, resetLeft, logging)
    BY <1>8 DEF FinishReset
  <2>2. resetLeft' = {} /\ UNCHANGED <<pattern, triggerFilter, at, edge, speed, changes, faults, quiet>>
        /\ resetLeft # {}
    BY <1>8 DEF FinishReset
  <2>3. /\ DecoderType(d')
        /\ \/ d'.syncStatus = "None" /\ d'.triggerFilterTime = 1 /\ d'.triggerSecFilterTime = 1
           \/ /\ d'.syncStatus = (IF 5 \in resetLeft THEN "None" ELSE d.syncStatus)
              /\ d'.triggerFilterTime = (IF 6 \in resetLeft THEN 0 ELSE d.triggerFilterTime)
              /\ d'.toothCurrentCount = d.toothCurrentCount
              /\ d'.triggerSecFilterTime = d.triggerSecFilterTime
    BY <1>1, <2>1, ResetFields
  <2>4. DualTypes'
    BY <1>1, <2>2, <2>3 DEF DualTypes
  <2>5. CASE d'.syncStatus = "None" /\ d'.triggerFilterTime = 1 /\ d'.triggerSecFilterTime = 1
    BY <1>2, <2>4, <2>5 DEF Sound, Robust, Full
  <2>6. CASE /\ d'.syncStatus = (IF 5 \in resetLeft THEN "None" ELSE d.syncStatus)
             /\ d'.triggerFilterTime = (IF 6 \in resetLeft THEN 0 ELSE d.triggerFilterTime)
             /\ d'.toothCurrentCount = d.toothCurrentCount
             /\ d'.triggerSecFilterTime = d.triggerSecFilterTime
    <3>1. d'.syncStatus = "Full" => d'.toothCurrentCount \in 1..4
      BY <1>1, <2>6 DEF Robust, Full
    <3>2. d'.triggerFilterTime <= 720 * Least /\ d'.triggerSecFilterTime <= 720 * Least
      BY <1>1, <1>2, <2>6 DEF Robust
    <3>3. d'.syncStatus # "Full" => d'.triggerFilterTime <= 1
      BY <1>1, <1>2, <2>2, <2>6 DEF Robust, Full, DualTypes
    <3> QED BY <2>4, <3>1, <3>2, <3>3 DEF Sound, Robust, Full
  <2> QED BY <2>3, <2>5, <2>6
<1> QED BY <1>3, <1>4, <1>5, <1>6, <1>7, <1>8
-----------------------------------------------------------------------------
(* The filter.                                                             *)

LEMMA Forgotten ==
  ASSUME quiet' = 0, faults' \in Nat, faults' > 0
  PROVE  FilterShrinks' /\ CamSeen' /\ TracksWheel' /\ Times'
BY DEF FilterShrinks, CamSeen, TracksWheel, Times, OneAge, OneTime, ToothAge, ToothTime, Past,
   Tracking

\* In what a step changes at a given edge only numbers are left.
LEMMA Numbers ==
  ASSUME EvenSpeeds, Dual, Sound
  PROVE  /\ Least \in Nat /\ Most \in Nat /\ Never \in Nat /\ speed \in Nat /\ Least > 0 /\ Least <= speed /\ speed <= Most
         /\ 5 * Most <= 8 * Least /\ 720 * Most <= Never /\ Never <= 2880 * Least
         /\ d.sinceTooth \in Nat /\ d.sinceTooth <= Never /\ d.sinceSec \in Nat /\ d.sinceSec <= Never
         /\ d.sinceOne \in Nat /\ d.sinceOne <= Never /\ d.triggerFilterTime \in Nat /\ d.triggerSecFilterTime \in Nat
         /\ d.minusOne \in Nat /\ d.oneMinusOne \in Nat /\ d.toothCurrentCount \in Nat
         /\ d.startRevolutions \in 0..3 /\ d.revolutionOne \in BOOLEAN
         /\ quiet \in Nat /\ faults \in Nat /\ QuietMax \in Nat
         /\ at \in 1..9
  BY SpeedBounds, DecodersAssumption DEF Sound, DualTypes, DecoderType, Ages, RevolutionsMax

\* An edge is at least its gap away from the tooth handled before it.  A filter it passes
\* with makes the next a quarter of that gap; one it does not is at most 720 degrees at the
\* fastest, and what is made after it at most 216, and then 90.
LEMMA FilterShrinksStep ==
  ASSUME EvenSpeeds, Tuned, Dual, Sound, Moves, FilterShrinks
  PROVE  FilterShrinks'
<1>1. CASE Passes
  BY <1>1, Numbers DEF Sound, Robust, DualTypes, Past, Full, Passes, Step, Old, FilterShrinks,
     Tracking, Gap, Angle
<1>2. CASE CrankHandled
  <2>1. CASE TooSoon
    BY <1>2, <2>1, Numbers DEF Sound, Robust, DualTypes, Past, Full, CrankHandled, Handled,
       wheel, TooSoon, FilterShrinks, Tracking, Gap, Angle
  <2>2. CASE BeforeSync
    BY <1>2, <2>2, Numbers DEF Sound, Robust, DualTypes, Past, Full, CrankHandled, Handled,
       wheel, BeforeSync, FilterShrinks, Tracking, Gap, Angle
  <2>3. CASE InSync
    <3> USE <1>2, <2>3, Numbers DEF Sound, Robust, DualTypes, Past, Full, CrankHandled,
        Handled, wheel, InSync, FilterShrinks, Tracking, Gap, Angle
    <3>1. CASE at = 1
      BY <3>1
    <3>2. CASE at = 2
      BY <3>2
    <3>3. CASE at = 3
      BY <3>3
    <3>4. CASE at = 4
      BY <3>4
    <3>5. CASE at = 5
      BY <3>5
    <3>6. CASE at = 6
      BY <3>6
    <3>7. CASE at = 7
      BY <3>7
    <3>8. CASE at = 8
      BY <3>8
    <3>9. CASE at = 9
      BY <3>9
    <3> QED BY <3>1, <3>2, <3>3, <3>4, <3>5, <3>6, <3>7, <3>8, <3>9
  <2> QED BY <1>2, <2>1, <2>2, <2>3 DEF CrankHandled
<1>3. CASE CamHandled
  <2>1. CASE CamTooSoon
    BY <1>3, <2>1, Numbers, StateAssumption DEF Sound, Robust, DualTypes, Past, Full, Tuned,
       CamHandled, Handled, wheel, CamTooSoon, FilterShrinks, Tracking, Gap, Angle
  <2>2. CASE CamPlaces
    BY <1>3, <2>2, Numbers, StateAssumption DEF Sound, Robust, DualTypes, Past, Full, Tuned,
       CamHandled, Handled, wheel, CamPlaces, FilterShrinks, Tracking, Gap, Angle
  <2>3. CASE CamCounts
    BY <1>3, <2>3, Numbers, StateAssumption DEF Sound, Robust, DualTypes, Past, Full, Tuned,
       CamHandled, Handled, wheel, CamCounts, FilterShrinks, Tracking, Gap, Angle
  <2> QED BY <1>3, <2>1, <2>2, <2>3 DEF CamHandled
<1> QED BY <1>1, <1>2, <1>3 DEF Moves

\* No filter of the cam line is longer than a turn of the cam, so a cam tooth that comes a
\* whole turn after another is handled, and after it the decoder is in sync.
LEMMA CamSeenStep ==
  ASSUME EvenSpeeds, Tuned, Dual, Sound, Moves, FilterShrinks, CamSeen
  PROVE  CamSeen'
<1>1. CASE Passes
  BY <1>1, Numbers DEF Sound, Robust, DualTypes, Past, Full, Passes, Step, Old, CamSeen, SecGap,
     Angle
<1>2. CASE CrankHandled
  <2>1. CASE TooSoon
    BY <1>2, <2>1, Numbers DEF Sound, Robust, DualTypes, Past, Full, CrankHandled, Handled,
       wheel, TooSoon, CamSeen, SecGap, Angle
  <2>2. CASE BeforeSync
    BY <1>2, <2>2, Numbers DEF Sound, Robust, DualTypes, Past, Full, CrankHandled, Handled,
       wheel, BeforeSync, CamSeen, SecGap, Angle
  <2>3. CASE InSync
    BY <1>2, <2>3, Numbers DEF Sound, Robust, DualTypes, Past, Full, CrankHandled, Handled,
       wheel, InSync, CamSeen, SecGap, Angle
  <2> QED BY <1>2, <2>1, <2>2, <2>3 DEF CrankHandled
<1>3. CASE CamHandled
  <2>1. CASE CamTooSoon
    BY <1>3, <2>1, Numbers, StateAssumption DEF Sound, Robust, DualTypes, Past, Full, Tuned,
       CamHandled, Handled, wheel, CamTooSoon, CamSeen, SecGap, Angle
  <2>2. CASE CamPlaces
    BY <1>3, <2>2, Numbers, StateAssumption DEF Sound, Robust, DualTypes, Past, Full, Tuned,
       CamHandled, Handled, wheel, CamPlaces, CamSeen, SecGap, Angle
  <2>3. CASE CamCounts
    BY <1>3, <2>3, Numbers, StateAssumption DEF Sound, Robust, DualTypes, Past, Full, Tuned,
       CamHandled, Handled, wheel, CamCounts, CamSeen, SecGap, Angle
  <2> QED BY <1>3, <2>1, <2>2, <2>3 DEF CamHandled
<1> QED BY <1>1, <1>2, <1>3 DEF Moves

\* A cam tooth puts the decoder in its place, and from there no tooth is missed: the
\* filter is shorter than a gap.
LEMMA TracksWheelStep ==
  ASSUME EvenSpeeds, Tuned, Dual, Sound, Moves, FilterShrinks, CamSeen, TracksWheel
  PROVE  TracksWheel'
<1>1. CASE Passes
  BY <1>1, Numbers DEF Sound, Robust, DualTypes, Past, Full, Passes, Step, Old, TracksWheel,
     Aligned, Last, FilterShrinks, CamSeen, SecGap, Tracking, Gap, Angle
<1>2. CASE CrankHandled
  <2>1. CASE TooSoon
    BY <1>2, <2>1, Numbers DEF Sound, Robust, DualTypes, Past, Full, CrankHandled, Handled,
       wheel, TooSoon, TracksWheel, Aligned, Last, FilterShrinks, CamSeen, SecGap, Tracking,
       Gap, Angle
  <2>2. CASE BeforeSync
    BY <1>2, <2>2, Numbers DEF Sound, Robust, DualTypes, Past, Full, CrankHandled, Handled,
       wheel, BeforeSync, TracksWheel, Aligned, Last, FilterShrinks, CamSeen, SecGap, Tracking,
       Gap, Angle
  <2>3. CASE InSync
    BY <1>2, <2>3, Numbers DEF Sound, Robust, DualTypes, Past, Full, CrankHandled, Handled,
       wheel, InSync, TracksWheel, Aligned, Last, FilterShrinks, CamSeen, SecGap, Tracking, Gap,
       Angle
  <2> QED BY <1>2, <2>1, <2>2, <2>3 DEF CrankHandled
<1>3. CASE CamHandled
  <2>1. CASE CamTooSoon
    BY <1>3, <2>1, Numbers, StateAssumption DEF Sound, Robust, DualTypes, Past, Full, Tuned,
       CamHandled, Handled, wheel, CamTooSoon, TracksWheel, Aligned, Last, FilterShrinks,
       CamSeen, SecGap, Tracking, Gap, Angle
  <2>2. CASE CamPlaces
    BY <1>3, <2>2, Numbers, StateAssumption DEF Sound, Robust, DualTypes, Past, Full, Tuned,
       CamHandled, Handled, wheel, CamPlaces, TracksWheel, Aligned, Last, FilterShrinks,
       CamSeen, SecGap, Tracking, Gap, Angle
  <2>3. CASE CamCounts
    BY <1>3, <2>3, Numbers, StateAssumption DEF Sound, Robust, DualTypes, Past, Full, Tuned,
       CamHandled, Handled, wheel, CamCounts, TracksWheel, Aligned, Last, FilterShrinks,
       CamSeen, SecGap, Tracking, Gap, Angle
  <2> QED BY <1>3, <2>1, <2>2, <2>3 DEF CamHandled
<1> QED BY <1>1, <1>2, <1>3 DEF Moves

\* In place, each first tooth is a revolution after the last, and two revolutions later the
\* cam tooth no longer touches the times of the crank teeth.
LEMMA TimesStep ==
  ASSUME EvenSpeeds, Tuned, Dual, Sound, Moves, FilterShrinks, CamSeen, TracksWheel, Times
  PROVE  Times'
<1>1. CASE Passes
  <2>1. OneAge'
    BY <1>1, Numbers DEF Sound, DualTypes, Past, Passes, Step, Old, Times, OneAge, OneGap, Angle
  <2>2. OneTime'
    BY <1>1, Numbers DEF Sound, DualTypes, Past, Passes, Step, Old, Times, OneTime
  <2>3. ToothAge'
    BY <1>1, Numbers DEF Sound, DualTypes, Past, Passes, Step, Old, Times, OneTime, ToothAge, Gap
  <2>4. ToothTime'
    BY <1>1, Numbers DEF Sound, DualTypes, Past, Passes, Step, Old, Times, ToothTime
  <2> QED BY <2>1, <2>2, <2>3, <2>4 DEF Times
<1>2. CASE CrankHandled
  <2>1. CASE TooSoon
    BY <1>2, <2>1, Numbers DEF Sound, Robust, DualTypes, Past, Full, CrankHandled, Handled,
       wheel, TooSoon, Times, OneAge, OneTime, ToothAge, ToothTime, OneGap, TracksWheel,
       Aligned, Last, FilterShrinks, CamSeen, SecGap, Tracking, Gap, Angle
  <2>2. CASE BeforeSync
    BY <1>2, <2>2, Numbers DEF Sound, Robust, DualTypes, Past, Full, CrankHandled, Handled,
       wheel, BeforeSync, Times, OneAge, OneTime, ToothAge, ToothTime, OneGap, TracksWheel,
       Aligned, Last, FilterShrinks, CamSeen, SecGap, Tracking, Gap, Angle
  <2>3. CASE InSync
    BY <1>2, <2>3, Numbers DEF Sound, Robust, DualTypes, Past, Full, CrankHandled, Handled,
       wheel, InSync, Times, OneAge, OneTime, ToothAge, ToothTime, OneGap, TracksWheel, Aligned,
       Last, FilterShrinks, CamSeen, SecGap, Tracking, Gap, Angle
  <2> QED BY <1>2, <2>1, <2>2, <2>3 DEF CrankHandled
<1>3. CASE CamHandled
  <2>1. CASE CamTooSoon
    BY <1>3, <2>1, Numbers, StateAssumption DEF Sound, Robust, DualTypes, Past, Full, Tuned,
       CamHandled, Handled, wheel, CamTooSoon, Times, OneAge, OneTime, ToothAge, ToothTime,
       OneGap, TracksWheel, Aligned, Last, FilterShrinks, CamSeen, SecGap, Tracking, Gap, Angle
  <2>2. CASE CamPlaces
    BY <1>3, <2>2, Numbers, StateAssumption DEF Sound, Robust, DualTypes, Past, Full, Tuned,
       CamHandled, Handled, wheel, CamPlaces, Times, OneAge, OneTime, ToothAge, ToothTime,
       OneGap, TracksWheel, Aligned, Last, FilterShrinks, CamSeen, SecGap, Tracking, Gap, Angle
  <2>3. CASE CamCounts
    BY <1>3, <2>3, Numbers, StateAssumption DEF Sound, Robust, DualTypes, Past, Full, Tuned,
       CamHandled, Handled, wheel, CamCounts, Times, OneAge, OneTime, ToothAge, ToothTime,
       OneGap, TracksWheel, Aligned, Last, FilterShrinks, CamSeen, SecGap, Tracking, Gap, Angle
  <2> QED BY <1>3, <2>1, <2>2, <2>3 DEF CamHandled
<1> QED BY <1>1, <1>2, <1>3 DEF Moves

-----------------------------------------------------------------------------
(* The invariant of the dual wheel.                                        *)

LEMMA DualInit ==
  ASSUME EvenSpeeds, Tuned, Init
  PROVE  DualInv
<1> SUFFICES ASSUME Dual
             PROVE  DualTypes /\ Robust /\ FilterShrinks /\ CamSeen /\ TracksWheel /\ Times
  BY DEF DualInv
<1>1. /\ pattern \in Patterns /\ triggerFilter \in {0, 1} /\ at \in 1..9 /\ edge = "none" /\ speed \in Speeds
      /\ resetLeft = {} /\ changes = 0 /\ faults = 0 /\ quiet = 0 /\ d = triggerSetup(pattern, Blank)
  BY DualProfile, DualEdges DEF Init
<1>2. 360 \div 4 = 90
  OBVIOUS
<1>3. PICK q : q = ResetStores(Blank, 1..7)
  OBVIOUS
<1>4. d = [q EXCEPT !.triggerToothAngle = 90, !.toothCurrentCount = 255, !.triggerFilterTime = 1,
                    !.triggerSecFilterTime = 1, !.toothAngleIsCorrect = TRUE]
  BY <1>1, <1>2, <1>3 DEF triggerSetup, Dual, triggerSetup_DualWheel, sharedDecoderReset,
     DecoderResetStores,
     triggerTeeth, FilterAtMaxRPM
<1>5. /\ \A f \in Used : f \in DOMAIN q
      /\ q.revolutionOne = FALSE /\ q.startRevolutions = 0 /\ q.sinceTooth = Never /\ q.minusOne = Never
      /\ q.sinceSec = Never /\ q.sinceOne = Never /\ q.oneMinusOne = Never /\ q.syncStatus = "None"
  BY <1>3 DEF ResetStores, Blank, Used
<1>6. /\ d.triggerToothAngle = 90 /\ d.toothCurrentCount = 255 /\ d.triggerFilterTime = 1 /\ d.triggerSecFilterTime = 1
      /\ d.revolutionOne = FALSE /\ d.startRevolutions = 0 /\ d.sinceTooth = Never /\ d.minusOne = Never
      /\ d.sinceSec = Never /\ d.sinceOne = Never /\ d.oneMinusOne = Never /\ d.syncStatus = "None"
      /\ \A f \in Used : f \in DOMAIN d
  BY <1>4, <1>5 DEF Used
<1>7. DecoderType(d)
  <2>1. Never \in Ages /\ 0 \in 0..RevolutionsMax /\ 1 \in Nat /\ 255 \in Nat
    BY SpeedBounds DEF Ages, RevolutionsMax
  <2> QED BY <1>6, <2>1 DEF DecoderType
<1>8. DualTypes
  BY <1>1, <1>7, DecodersAssumption DEF DualTypes
<1>9. Robust /\ CamSeen /\ TracksWheel /\ Times
  BY <1>1, <1>6, SpeedBounds DEF Robust, Full, CamSeen, TracksWheel, Times, OneAge, OneTime, ToothAge,
     ToothTime, Past
<1>10. FilterShrinks
  BY <1>1, <1>6, SpeedBounds DEF FilterShrinks, Tracking, Past, Full, Gap
<1> QED BY <1>8, <1>9, <1>10

LEMMA DualStep ==
  ASSUME EvenSpeeds, Tuned, DualInv, [Next]_vars
  PROVE  DualInv'
<1>1. pattern' = pattern
  BY DEF Next, Turn, Handle, ChangeSpeed, Lost, Noise, Stall, StallInterrupted, FinishReset,
     Fault, vars, wheel
<1> SUFFICES ASSUME Dual
             PROVE  Sound' /\ FilterShrinks' /\ CamSeen' /\ TracksWheel' /\ Times'
  BY <1>1 DEF DualInv, Dual, Sound
<1>2. Sound /\ DualTypes /\ Robust /\ FilterShrinks /\ CamSeen /\ TracksWheel /\ Times
  BY DEF DualInv, Sound
<1>3. CASE Turn \/ Handle
  <2>1. Moves
    <3>1. CASE Turn
      BY <1>2, <3>1, TurnPasses DEF Moves
    <3>2. CASE Handle
      <4>1. edge \in {"pri", "sec"}
        BY <1>2, <3>2 DEF Handle, DualTypes
      <4> QED BY <1>2, <3>2, <4>1, CrankOutcomes, CamOutcomes DEF Moves
    <3> QED BY <1>3, <3>1, <3>2
  <2>2. Sound'
    BY <1>2, <2>1, SoundTurn, SoundCrank, SoundCam DEF Moves
  <2> QED BY <1>2, <2>1, <2>2, FilterShrinksStep, CamSeenStep, TracksWheelStep, TimesStep
<1>4. CASE ChangeSpeed
  <2>1. Sound'
    BY <1>2, <1>4, SoundRest
  <2>2. speed' \in Speeds /\ changes' # 0 /\ quiet' = quiet /\ UNCHANGED <<at, faults, edge, d>>
    <3>1. profile.hasty = FALSE /\ speed \in Speeds /\ changes \in Nat
      BY <1>2, DualProfile DEF DualTypes
    <3> QED BY <1>4, <3>1 DEF ChangeSpeed
  <2>3. FilterShrinks' /\ CamSeen'
    BY <1>2, <2>2 DEF FilterShrinks, CamSeen, Tracking, Past, Gap, Angle, SecGap, Full
  <2>4. TracksWheel'
    BY <1>2, <2>2 DEF TracksWheel, Aligned, Last, Past, Full
  <2>5. Times'
    BY <1>2, <2>2 DEF Times, OneAge, OneTime, ToothAge, ToothTime, Past, Gap, OneGap, Angle
  <2> QED BY <2>1, <2>3, <2>4, <2>5
<1>5. CASE Lost \/ Noise \/ Stall \/ StallInterrupted
  <2>1. Sound'
    BY <1>2, <1>5, SoundRest
  <2>2. quiet' = 0 /\ faults' = faults + 1
    BY <1>5 DEF Lost, Noise, Stall, StallInterrupted, Fault
  <2>3. quiet' = 0 /\ faults' \in Nat /\ faults' > 0
    BY <1>2, <2>2 DEF DualTypes
  <2> QED BY <2>1, <2>3, Forgotten
<1>6. CASE FinishReset
  <2>1. Sound'
    BY <1>2, <1>6, SoundRest
  <2>2. resetLeft # {} /\ quiet' = quiet /\ faults' = faults
    BY <1>6 DEF FinishReset
  <2>3. quiet' = 0 /\ faults' \in Nat /\ faults' > 0
    BY <1>2, <2>2, DecodersAssumption DEF DualTypes
  <2> QED BY <2>1, <2>3, Forgotten
<1>7. CASE UNCHANGED vars
  <2>1. UNCHANGED <<pattern, triggerFilter, at, speed, resetLeft, changes, faults, quiet, edge, d>>
    BY <1>7 DEF vars, wheel
  <2>2. Sound'
    BY <1>2, <2>1 DEF Sound, DualTypes, Robust, Full
  <2>3. FilterShrinks' /\ CamSeen'
    BY <1>2, <2>1 DEF FilterShrinks, CamSeen, Tracking, Past, Gap, Angle, SecGap, Full
  <2>4. TracksWheel'
    BY <1>2, <2>1 DEF TracksWheel, Aligned, Last, Past, Full
  <2>5. Times'
    BY <1>2, <2>1 DEF Times, OneAge, OneTime, ToothAge, ToothTime, Past, Gap, OneGap, Angle
  <2> QED BY <2>2, <2>3, <2>4, <2>5
<1> QED BY <1>3, <1>4, <1>5, <1>6, <1>7 DEF Next

LEMMA DualAlways ==
  ASSUME EvenSpeeds, Tuned
  PROVE  Spec => []DualInv
<1>1. Init => DualInv
  BY DualInit
<1>2. DualInv /\ [Next]_vars => DualInv'
  BY DualStep
<1> QED BY <1>1, <1>2, PTL DEF Spec
-----------------------------------------------------------------------------
(* What the main loop may take from a dual wheel's decoder.                *)

\* On a dual wheel a decoder that claims full sync gives the true angle after each tooth
\* (triggerPri_DualWheel, getCrankAngle_DualWheel): before the first fault and a few turns
\* after any.
THEOREM DualAngleAlways ==
  ASSUME EvenSpeeds, Tuned
  PROVE  Spec => [](Dual => AngleIsTrue)
<1>1. DualInv => (Dual => AngleIsTrue)
  <2> SUFFICES ASSUME DualInv, Dual, Full, Settled, JustSeen
               PROVE  LET u == profile.unit
                          off == (getCrankAngle * u[1] - profile.wheel[at].angle * u[2])
                                   % (profile.cycle * u[1])
                      IN  off <= u[1] \/ off >= (profile.cycle - 1) * u[1]
    BY DEF AngleIsTrue
  <2>1. pattern \in Patterns /\ at \in 1..9 /\ DecoderType(d) /\ TracksWheel /\ QuietMax \in Nat /\ QuietMax >= 5
    BY DecodersAssumption DEF DualInv, DualTypes, Tuned
  <2>2. edge = "none" /\ at \in 1..8
    BY <2>1, DualProfile, DualEdges DEF JustSeen
  <2>3. faults = 0 \/ Past(2, 9)
    BY <2>1 DEF Settled, Past
  <2>4. Aligned
    BY <2>1, <2>3 DEF TracksWheel
  <2>5. Last = at
    BY <2>2 DEF Last
  <2>6. getCrankAngle = 90 * (at - 1)
    <3>1. d.toothCurrentCount = (IF at <= 4 THEN at ELSE at - 4) /\ (d.revolutionOne <=> at >= 5)
          /\ d.triggerToothAngle = 90
      BY <2>1, <2>2, <2>4, <2>5 DEF Aligned, DecoderType
    <3>2. getCrankAngle = getCrankAngle_DualWheel(triggerTeeth)
      BY DEF getCrankAngle, Dual
    <3> QED BY <2>2, <3>1, <3>2 DEF getCrankAngle_DualWheel
  <2>7. profile.wheel[at].angle = 90 * (at - 1) /\ profile.unit = <<1, 1>> /\ profile.cycle = 720
    BY <2>1, <2>2, DualProfile, DualEdges
  <2>8. <<1, 1>>[1] = 1 /\ <<1, 1>>[2] = 1
    OBVIOUS
  <2>9. (90 * (at - 1) * 1 - 90 * (at - 1) * 1) % (720 * 1) = 0
    <3>1. 90 * (at - 1) * 1 - 90 * (at - 1) * 1 = 0 /\ 720 * 1 = 720
      BY <2>2
    <3>2. 0 % 720 = 0
      OBVIOUS
    <3> QED BY <3>1, <3>2
  <2> QED BY <2>6, <2>7, <2>8, <2>9
<1> QED BY <1>1, DualAlways, PTL

\* A few turns after the last fault the cam tooth has put a dual wheel in sync again
\* (triggerSec_DualWheel), whatever filter, count or half-made reset the fault left.
THEOREM DualSyncAlways ==
  ASSUME EvenSpeeds, Tuned
  PROVE  Spec => [](Dual => SyncReturns)
<1>1. DualInv => (Dual => SyncReturns)
  <2> SUFFICES ASSUME DualInv, Dual, quiet = QuietMax
               PROVE  Full <=> profile.syncs
    BY DEF SyncReturns
  <2>1. pattern \in Patterns /\ CamSeen /\ Past(2, 9)
    BY DecodersAssumption DEF DualInv, DualTypes, Tuned, Past
  <2> QED BY <2>1, DualProfile DEF CamSeen
<1> QED BY <1>1, DualAlways, PTL

\* A few turns after the last fault the last two teeth are 90 degrees apart and both ways to
\* take the speed (getRPM_DualWheel: by teeth when cranking, by revolutions) give a
\* revolution's true time: no gap with a lost tooth, no time from before the fault.
THEOREM DualIntervalsAlways ==
  ASSUME EvenSpeeds, Tuned
  PROVE  Spec => [](Dual => IntervalsAreTrue)
<1>1. DualInv => (Dual => IntervalsAreTrue)
  <2> SUFFICES ASSUME DualInv, Dual, quiet = QuietMax
               PROVE  ToothAngleIsTrue /\ SpeedIsTrue
    BY DEF IntervalsAreTrue, ToothAngleIsTrue, SpeedIsTrue
  <2>1. /\ pattern \in Patterns /\ DecoderType(d) /\ speed \in Nat
        /\ Least \in Speeds /\ Most \in Speeds /\ Least \in Nat /\ Most \in Nat
    BY SpeedBounds DEF DualInv, DualTypes, EvenSpeeds
  <2>2. /\ d.minusOne \in (90 * Least)..(90 * Most) /\ (changes = 0 => d.minusOne = 90 * speed)
        /\ d.oneMinusOne \in (360 * Least)..(360 * Most)
    BY DecodersAssumption DEF DualInv, Times, OneTime, ToothTime, Past, Tuned
  <2>3. profile.unit = <<1, 1>> /\ profile.evenly = TRUE
    BY <2>1, DualProfile
  <2>4. <<1, 1>>[1] = 1 /\ <<1, 1>>[2] = 1
    OBVIOUS
  <2>5. ToothAngleIsTrue
    <3> SUFFICES ASSUME changes = 0
                 PROVE  d.minusOne * 1 - d.triggerToothAngle * 1 * speed \in (-4 * 1 * speed)..(4 * 1 * speed)
      BY <2>3, <2>4 DEF ToothAngleIsTrue
    <3>1. d.minusOne = 90 * speed /\ d.triggerToothAngle = 90
      BY <2>1, <2>2 DEF DecoderType
    <3> QED BY <2>1, <3>1
  <2>6. SpeedIsTrue
    <3> SUFFICES ASSUME NEW slow \in {FALSE, profile.evenly}, getRPM(slow) * profile.unit[2] # 0
                 PROVE  \E r, s \in Speeds : getRPM(slow) * profile.unit[2]
                                             \in (348 * profile.unit[1] * r)..(372 * profile.unit[1] * s)
      BY DEF SpeedIsTrue
    <3>1. getRPM(slow) = getRPM_DualWheel(4, slow)
      BY DEF getRPM, Dual, triggerTeeth
    <3>2. crankingRevolutionTime(4, FALSE) \in {0, d.minusOne * 4}
      <4>1. d.minusOne * 4 \in Nat
        BY <2>1 DEF DecoderType, Ages
      <4>2. (d.minusOne * 4) \div 1 = d.minusOne * 4
        BY <4>1
      <4> QED BY <4>2 DEF crankingRevolutionTime
    <3>3. stdRevolutionTime(FALSE, slow) \in {0, d.oneMinusOne}
      <4>1. d.oneMinusOne \in Nat
        BY <2>1, <2>2
      <4>2. d.oneMinusOne \div 1 = d.oneMinusOne
        BY <4>1
      <4> QED BY <4>2 DEF stdRevolutionTime
    <3>4. getRPM(slow) \in {0, d.minusOne * 4, d.oneMinusOne}
      BY <3>1, <3>2, <3>3 DEF getRPM_DualWheel
    <3>5. profile.unit[1] = 1 /\ profile.unit[2] = 1
      BY <2>3, <2>4
    <3>6. getRPM(slow) * 1 \in (348 * 1 * Least)..(372 * 1 * Most)
      BY <2>1, <2>2, <3>4, <3>5
    <3> QED BY <2>1, <3>5, <3>6
  <2> QED BY <2>5, <2>6
<1> QED BY <1>1, DualAlways, PTL

\* Whenever a dual wheel is in sync, also right after a fault, the tooth set for an ignition
\* (calcEndTeeth_DualWheel) is before the spark, by two teeth at most.
THEOREM DualEndToothAlways ==
  ASSUME EvenSpeeds, Tuned, sequential
  PROVE  Spec => [](Dual => EndToothPrecedes)
<1>1. DualInv => (Dual => EndToothPrecedes)
  <2> SUFFICES ASSUME DualInv, Dual, Full, NEW advance \in profile.advances,
                      currentTooth = endTooth(advance)
               PROVE  (profile.limit - advance - getCrankAngle) % profile.limit \in 1..profile.ahead
    BY DEF EndToothPrecedes
  <2>1. pattern \in Patterns /\ DecoderType(d) /\ d.toothCurrentCount \in 1..4
    BY DEF DualInv, DualTypes, Robust
  <2>2. profile.limit = 720 /\ profile.ahead = 180 /\ advance \in {0, 5, 10, 20, 30, 40}
    BY <2>1, DualProfile
  <2> DEFINE n == d.toothCurrentCount
  <2>3. currentTooth = (IF d.revolutionOne THEN 4 + n ELSE n)
    BY <2>1, <2>2 DEF currentTooth, Dual, triggerTeeth
  <2>4. endTooth(advance) = (IF advance = 0 THEN 8 ELSE 7)
    <3>1. endTooth(advance) = calcEndTeeth_DualWheel(720 - advance)
      BY <2>2 DEF endTooth, Dual
    <3>2. 360 \div 4 = 90
      OBVIOUS
    <3>3. (720 - advance) \div 90 = (IF advance = 0 THEN 8 ELSE 7)
      <4> DEFINE a == 720 - advance
                 q == a \div 90
      <4>1. a \in Nat /\ 680 <= a /\ a <= 720 /\ (a = 720 <=> advance = 0)
        BY <2>2
      <4> HIDE DEF a
      <4>2. q \in Int /\ 90 * q <= a /\ a < 90 * q + 90
        BY <4>1
      <4> HIDE DEF q
      <4>3. q = (IF advance = 0 THEN 8 ELSE 7)
        BY <4>1, <4>2
      <4> QED BY <4>3 DEF a, q
    <3>4. Quotient(720 - advance, 360 \div triggerTeeth) = (IF advance = 0 THEN 8 ELSE 7)
      <4>1. ~(720 - advance < 0)
        BY <2>2
      <4> QED BY <3>2, <3>3, <4>1 DEF Quotient, triggerTeeth
    <3> QED BY <3>1, <3>4 DEF calcEndTeeth_DualWheel, clampToToothCount, triggerTeeth
  <2>5. d.revolutionOne /\ n = (IF advance = 0 THEN 4 ELSE 3)
    <3>1. n \in 1..4 /\ (IF d.revolutionOne THEN 4 + n ELSE n) = (IF advance = 0 THEN 8 ELSE 7)
      BY <2>1, <2>3, <2>4
    <3> HIDE DEF n
    <3>2. CASE advance = 0
      BY <3>1, <3>2
    <3>3. CASE advance # 0
      BY <3>1, <3>3
    <3> QED BY <3>2, <3>3
  <2>6. getCrankAngle = (IF advance = 0 THEN 630 ELSE 540)
    <3>1. getCrankAngle = getCrankAngle_DualWheel(4) /\ d.triggerToothAngle = 90
      BY <2>1 DEF getCrankAngle, Dual, triggerTeeth, DecoderType
    <3> QED BY <2>5, <3>1 DEF getCrankAngle_DualWheel
  <2> DEFINE left == 720 - advance - getCrankAngle
  <2>7. left \in 1..180
    BY <2>2, <2>6
  <2> HIDE DEF left
  <2>8. left % 720 = left
    BY <2>7, Round
  <2> QED BY <2>2, <2>7, <2>8 DEF left
<1> QED BY <1>1, DualAlways, PTL
=============================================================================
