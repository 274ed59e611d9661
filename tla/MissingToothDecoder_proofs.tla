----------------------- MODULE MissingToothDecoder_proofs -----------------------
(***************************************************************************)
(* Proofs about the missing tooth decoder: its types, whatever happens to  *)
(* the pulses, and, while none is lost or invented, that full sync is only *)
(* claimed at the wheel's true place and that the last two teeth are one   *)
(* slot apart when the decoder says so.                                    *)
(***************************************************************************)
EXTENDS MissingToothDecoder, TLAPS

\* Before two teeth were seen they are counted without a look at the gap: from
\* zero, unless a log kept the count, and twice, as every pulse takes time.
FirstTwo ==
  /\ ~seen => sinceTooth = 0
  /\ ~logging /\ ~seen => toothCurrentCount = 0
  /\ ~logging /\ lastGap = 0 => toothCurrentCount < 2
  /\ seen /\ edge = "primary" => sinceTooth > 0

TypeInv == TypeOK /\ FirstTwo

LEMMA FilterType ==
  ASSUME NEW gap \in Nat
  PROVE  setFilter(gap) \in Nat
<1>1. triggerFilter \in 0..3
  BY DecoderAssumption
<1>2. (gap * 0) \div 4 \in Nat /\ (gap * 1) \div 4 \in Nat /\ (gap * 2) \div 4 \in Nat /\ (gap * 3) \div 4 \in Nat
  OBVIOUS
<1>3. triggerFilter = 0 \/ triggerFilter = 1 \/ triggerFilter = 2 \/ triggerFilter = 3
  BY <1>1
<1> QED BY <1>2, <1>3 DEF setFilter

\* Past the last tooth the gap is found at any speed.
LEMMA GapPastTheLast ==
  ASSUME toothCurrentCount \in Nat, NEW speed, Counted > triggerActualTeeth
  PROVE  GapFound(speed)
<1>1. triggerActualTeeth \in Nat
  BY DecoderAssumption DEF triggerActualTeeth
<1>2. Counted \in Nat
  BY DEF Counted
<1>3. Counted >= (3 * triggerActualTeeth) \div 4
  BY <1>1, <1>2
<1> QED BY <1>3 DEF GapFound, GapSearched

\* A cam pulse is counted, which the first since a reset is not, or only noted.
LEMMA CamHandled ==
  ASSUME TypeOK, triggerSec_missingTooth
  PROVE  /\ edge = "cam" /\ edge' = "none" /\ camSeen' = TRUE
         /\ sinceCam' \in Nat /\ triggerSecFilterTime' \in Nat
         /\ UNCHANGED <<position, spent, faults, disturbed, quiet, sinceTooth, lastGap, seen,
                        toothCurrentCount, syncStatus, toothAngleIsCorrect, triggerFilterTime>>
         /\ \/ camSeen /\ revolutionOne' = TRUE /\ secondaryToothCount' = 1
            \/ UNCHANGED <<revolutionOne, secondaryToothCount>>
<1>1. FilteredCamPulse \/ CountedCamPulse
  BY DEF triggerSec_missingTooth
<1>2. sinceCam \in Nat /\ triggerSecFilterTime \in Nat
  BY DEF TypeOK
<1>3. CASE FilteredCamPulse
  BY <1>2, <1>3 DEF triggerSec_missingTooth, FilteredCamPulse
<1>4. CASE CountedCamPulse
  BY <1>2, <1>4 DEF triggerSec_missingTooth, CountedCamPulse, PastCamFilter
<1> QED BY <1>1, <1>3, <1>4

LEMMA TypeStep ==
  ASSUME TypeInv, [Next]_vars
  PROVE  TypeInv'
<1> USE DecoderAssumption DEF TypeInv, TypeOK, FirstTwo
<1>1. triggerActualTeeth \in Nat /\ triggerActualTeeth >= 1 /\ QuietMax \in Nat
  BY DEF triggerActualTeeth, QuietMax
<1>2. ASSUME NEW x \in Nat
      PROVE  x % (2 * triggerTeeth) \in 0..(2 * triggerTeeth - 1)
  OBVIOUS
<1>10. ASSUME NEW kind, Fault(kind)
       PROVE  faults' \in 0..MaxFaults /\ disturbed' \in BOOLEAN /\ quiet' \in 0..QuietMax
  <2>1. disturbed' \in BOOLEAN
    BY <1>10 DEF Fault
  <2>2. faults' = faults + 1 /\ faults < MaxFaults /\ quiet' = 0
    BY <1>10 DEF Fault
  <2> QED BY <1>1, <2>1, <2>2
<1>3. CASE Turn
  <2>1. PICK t \in SlotTimes : sinceTooth' = IF seen THEN sinceTooth + t - spent ELSE 0
    BY <1>3 DEF Turn
  <2>2. sinceTooth' \in Nat /\ (seen => sinceTooth' > 0) /\ (~seen => sinceTooth' = 0)
    BY <2>1
  <2>3. position' \in 0..(2 * triggerTeeth - 1)
    <3>1. position' = (position + 1) % (2 * triggerTeeth) /\ position + 1 \in Nat
      BY <1>3 DEF Turn
    <3> QED BY <1>2, <3>1
  <2>4. disturbed' \in BOOLEAN /\ quiet' \in 0..QuietMax
    <3>1. disturbed' = (disturbed /\ quiet < QuietMax) /\ quiet' = IF disturbed' THEN quiet + 1 ELSE 0
      BY <1>3 DEF Turn
    <3>2. disturbed' \in BOOLEAN /\ (disturbed' => quiet < QuietMax)
      BY <3>1
    <3> QED BY <1>1, <3>1, <3>2
  <2>5. UNCHANGED <<lastGap, seen, toothCurrentCount, syncStatus, toothAngleIsCorrect, revolutionOne,
                    secondaryToothCount, triggerFilterTime, camSeen, triggerSecFilterTime, faults>>
        /\ spent' = 0 /\ edge' \in {"none", "primary"} /\ sinceCam' \in Nat
    BY <1>3 DEF Turn
  <2> QED BY <2>2, <2>3, <2>4, <2>5
<1>4. CASE LostPulse \/ LostCamPulse \/ NoisePulse
  <2>1. faults' \in 0..MaxFaults /\ disturbed' \in BOOLEAN /\ quiet' \in 0..QuietMax
    BY <1>4, <1>10 DEF LostPulse, LostCamPulse, NoisePulse
  <2>2. CASE LostPulse \/ LostCamPulse
    BY <2>1, <2>2 DEF LostPulse, LostCamPulse, handled, decoder, cam
  <2>3. CASE NoisePulse
    BY <2>1, <2>3 DEF NoisePulse, cam
  <2> QED BY <1>4, <2>2, <2>3
<1>5. CASE FilteredPulse
  BY <1>5 DEF FilteredPulse, handled, decoder, cam
<1>11. CASE triggerSec_missingTooth
  <2>1. revolutionOne' \in BOOLEAN /\ secondaryToothCount' \in {0, 1}
    BY <1>11, CamHandled
  <2>2. /\ edge' = "none" /\ camSeen' \in BOOLEAN /\ sinceCam' \in Nat /\ triggerSecFilterTime' \in Nat
        /\ UNCHANGED <<position, spent, faults, disturbed, quiet, sinceTooth, lastGap, seen,
                       toothCurrentCount, syncStatus, toothAngleIsCorrect, triggerFilterTime>>
    BY <1>11, CamHandled
  <2> QED BY <2>1, <2>2
<1>6. CASE FirstTeeth
  BY <1>1, <1>6 DEF FirstTeeth, validPulse, twoTeethSeen, NewLastTooth, Counted, handled, cam
<1>7. ASSUME NEW speed, SyncLost(speed) \/ ToothOne(speed) \/ RegularTooth(speed)
      PROVE  TypeInv'
  <2>1. CASE SyncLost(speed)
    BY <1>1, <2>1 DEF SyncLost, twoTeethSeen, Counted, handled, cam
  <2>2. CASE ToothOne(speed)
    <3>1. lastGap' = sinceTooth /\ sinceTooth' = 0 /\ seen' /\ toothCurrentCount' = 1 /\ triggerFilterTime' = 0
          /\ secondaryToothCount' = 0 /\ toothAngleIsCorrect' = FALSE /\ seen /\ edge = "primary"
      BY <2>2 DEF ToothOne, validPulse, twoTeethSeen, NewLastTooth
    <3>2. syncStatus' \in {"None", "Partial", "Full"}
      BY <2>2 DEF ToothOne
    <3>3. revolutionOne' \in BOOLEAN /\ seen' \in BOOLEAN
      BY <2>2 DEF ToothOne, NewLastTooth
    <3>4. UNCHANGED <<position, spent, faults, disturbed, quiet>> /\ edge' \in {"none", "cam"}
          /\ UNCHANGED <<camSeen, sinceCam, triggerSecFilterTime>>
      BY <2>2 DEF ToothOne, handled, cam
    <3>5. seen' = TRUE /\ sinceTooth \in Nat /\ sinceTooth > 0 /\ edge' # "primary"
      BY <3>1, <3>3, <3>4
    <3>6. TypeOK'
      <4>1. toothAngleIsCorrect' \in BOOLEAN /\ edge' \in {"none", "primary", "cam"}
        BY <3>1, <3>4
      <4>2. /\ lastGap' = sinceTooth /\ sinceTooth' = 0 /\ toothCurrentCount' = 1
            /\ triggerFilterTime' = 0 /\ secondaryToothCount' = 0
        BY <3>1
      <4> QED BY <1>1, <3>2, <3>3, <3>4, <4>1, <4>2
    <3>7. FirstTwo'
      BY <3>1, <3>5
    <3> QED BY <3>6, <3>7
  <2>3. CASE RegularTooth(speed)
    <3>1. toothCurrentCount' = Counted /\ ~(Counted > triggerActualTeeth)
      BY <2>3, GapPastTheLast DEF RegularTooth
    <3>2. triggerFilterTime' \in Nat
      BY <2>3, FilterType DEF RegularTooth
    <3>3. quiet' \in 0..QuietMax /\ UNCHANGED <<camSeen, sinceCam, triggerSecFilterTime>>
      BY <1>1, <2>3 DEF RegularTooth, cam
    <3> QED BY <1>1, <2>3, <3>1, <3>2, <3>3 DEF RegularTooth, validPulse, twoTeethSeen, NewLastTooth, Counted, handled
  <2> QED BY <1>7, <2>1, <2>2, <2>3
<1>8. CASE Stall
  <2>1. faults' \in 0..MaxFaults /\ disturbed' \in BOOLEAN /\ quiet' \in 0..QuietMax
    BY <1>8, <1>10 DEF Stall
  <2>2. toothCurrentCount' = IF logging THEN toothCurrentCount ELSE 0
    BY <1>8 DEF Stall, resetDecoder
  <2>3. /\ seen' = FALSE /\ sinceTooth' = 0 /\ lastGap' = 0 /\ syncStatus' = "None" /\ spent' = 0
        /\ secondaryToothCount' = 0 /\ triggerFilterTime' = 0
        /\ camSeen' = FALSE /\ sinceCam' = 0 /\ triggerSecFilterTime' \in Nat
        /\ UNCHANGED <<position, edge, toothAngleIsCorrect, revolutionOne>>
    BY <1>8 DEF Stall, resetDecoder
  <2>4. toothCurrentCount' \in Nat /\ (~logging => toothCurrentCount' = 0)
    BY <2>2
  <2>5. toothCurrentCount' > triggerActualTeeth /\ toothCurrentCount' > 2 => logging
    BY <2>4, <2>2
  <2>6. TypeOK'
    BY <2>1, <2>3, <2>4, <2>5
  <2>7. FirstTwo'
    BY <2>3, <2>4
  <2> QED BY <2>6, <2>7
<1>9. CASE UNCHANGED vars
  BY <1>9 DEF vars, wheel, decoder, cam
<1> QED BY <1>3, <1>4, <1>5, <1>6, <1>7, <1>8, <1>9, <1>11 DEF Next, triggerPri_missingTooth

LEMMA TypeInit == Init => TypeInv
<1> SUFFICES ASSUME Init PROVE TypeInv
  OBVIOUS
<1>1. position \in 0..(2 * triggerTeeth - 1) /\ QuietMax \in Nat /\ MaxFaults \in Nat /\ triggerActualTeeth \in Nat
  BY DecoderAssumption DEF Init, QuietMax, triggerActualTeeth
<1>2. /\ edge = "none" /\ spent = 0 /\ sinceTooth = 0 /\ lastGap = 0 /\ seen = FALSE
      /\ toothCurrentCount = 0 /\ syncStatus = "None" /\ toothAngleIsCorrect = FALSE
      /\ revolutionOne = FALSE /\ secondaryToothCount = 0 /\ triggerFilterTime = 0
      /\ camSeen = FALSE /\ sinceCam = 0 /\ triggerSecFilterTime = 0
      /\ faults = 0 /\ disturbed = FALSE /\ quiet = 0
  BY DEF Init
<1>3. TypeOK
  <2>1. seen \in BOOLEAN /\ toothAngleIsCorrect \in BOOLEAN /\ revolutionOne \in BOOLEAN /\ disturbed \in BOOLEAN
        /\ camSeen \in BOOLEAN
    BY <1>2
  <2>2. /\ edge = "none" /\ spent = 0 /\ sinceTooth = 0 /\ lastGap = 0 /\ toothCurrentCount = 0
        /\ syncStatus = "None" /\ secondaryToothCount = 0 /\ triggerFilterTime = 0
        /\ sinceCam = 0 /\ triggerSecFilterTime = 0 /\ faults = 0 /\ quiet = 0
    BY <1>2
  <2> QED BY <1>1, <2>1, <2>2 DEF TypeOK
<1>4. FirstTwo
  BY <1>2 DEF FirstTwo
<1> QED BY <1>3, <1>4 DEF TypeInv

\* The types of the decoder's state.  A count never passes the wheel's last
\* tooth, but for a log's, which a stop leaves as it was.
THEOREM TypesCorrect == Spec => []TypeOK
<1>1. TypeInv => TypeOK
  BY DEF TypeInv
<1> QED BY <1>1, TypeInit, TypeStep, PTL DEF Spec

-----------------------------------------------------------------------------
\* While the sensors work.  What the engine must then be like: from one slot to
\* the next the speed changes by less than a third, and by little enough that
\* the gap is longer than so many slots without it.
EvenSpeed(lo, hi) ==
  /\ lo \in Nat /\ hi \in Nat
  /\ SlotTimes \subseteq lo..hi
  /\ 3 * hi < 4 * lo
  /\ triggerMissingTeeth * hi < (triggerMissingTeeth + 1) * lo

Slot(p) == IF p < triggerTeeth THEN p ELSE p - triggerTeeth

\* The engine does not come to rest where the first tooth it will see is the last before
\* the gap, which would hide the gap, and the count starts at zero.
GapSeen ==
  /\ ~logging
  /\ \A p \in RestPositions : Slot(p) # triggerActualTeeth - 2

\* The wheel has two teeth at least.  Where nothing waits for the cam the gap must be seen
\* in the first turn; a sequential engine may come to rest anywhere.
WheelTold == triggerActualTeeth >= 2 /\ (sequential \/ GapSeen)

\* Where the last tooth was, and on which turn.
LastSlot ==
  IF edge = "primary"
  THEN IF Slot(position) = 0 THEN triggerActualTeeth - 1 ELSE Slot(position) - 1
  ELSE IF Slot(position) < triggerActualTeeth THEN Slot(position) ELSE triggerActualTeeth - 1

LastRevolution == IF edge = "primary" /\ Slot(position) = 0 THEN position = 0 ELSE TrueRevolution

AllOfGap(lo, hi) == ((triggerMissingTeeth + 1) * lo)..((triggerMissingTeeth + 1) * hi)

\* The time since the last tooth is that of the slots since.
TimeSince(lo, hi) ==
  IF edge = "primary"
  THEN IF Slot(position) = 0 THEN sinceTooth \in AllOfGap(lo, hi) ELSE sinceTooth \in SlotTimes
  ELSE IF Slot(position) < triggerActualTeeth THEN sinceTooth = 0
       ELSE LET slots == Slot(position) - triggerActualTeeth + 1
            IN sinceTooth \in (slots * lo)..(slots * hi)

NothingSeen ==
  /\ lastGap = 0 /\ syncStatus = "None" /\ secondaryToothCount = 0 /\ triggerFilterTime = 0
  /\ toothCurrentCount = 0 /\ sinceTooth = 0 /\ edge # "cam"
  /\ Slot(position) # (IF edge = "primary" THEN triggerActualTeeth - 1 ELSE triggerActualTeeth - 2)

TeethSeen(lo, hi) ==
  /\ TimeSince(lo, hi)
  /\ lastGap = 0 => LastSlot # triggerActualTeeth - 1 /\ syncStatus = "None"
  /\ lastGap # 0 => IF syncStatus # "None" /\ LastSlot = 0
                    THEN lastGap \in AllOfGap(lo, hi) /\ ~toothAngleIsCorrect
                    ELSE lastGap \in SlotTimes
  /\ toothCurrentCount <= LastSlot + 1
  /\ syncStatus # "None" => toothCurrentCount = LastSlot + 1
  /\ triggerFilterTime < lo

Turns ==
  /\ spent = 0
  /\ edge = "primary" => Slot(position) < triggerActualTeeth
  /\ edge = "cam" => position = CamPosition
  /\ sequential /\ syncStatus = "Full" => revolutionOne = LastRevolution
  /\ secondaryToothCount > 0 =>
       /\ revolutionOne
       /\ \/ position = 0 /\ edge = "primary"
          \/ position >= CamPosition

\* From where the gap will be seen in the first turn.
Fresh == GapSeen /\ ~seen /\ NothingSeen

Known(lo, hi) == seen /\ TeethSeen(lo, hi)

\* From anywhere: the first turn may be miscounted, but full sync waits for a second pulse
\* of the cam.  Before that the wheel goes by slot 0 twice, and the second time at least
\* with the last gap known, so that the count is right from there.
Starting(lo, hi) ==
  /\ sequential /\ syncStatus # "Full" /\ secondaryToothCount = 0
  /\ triggerFilterTime < lo
  /\ edge = "cam" => seen
  /\ camSeen =>
       /\ seen
       /\ \/ position > CamPosition
          \/ position = CamPosition /\ edge = "none"
          \/ position < triggerTeeth
          \/ position = triggerTeeth /\ edge = "primary"
       /\ lastGap = 0 => position >= CamPosition \/ (position = 0 /\ edge = "primary")
  /\ IF seen THEN TimeSince(lo, hi) ELSE lastGap = 0 /\ triggerFilterTime = 0
  /\ lastGap # 0 => lastGap \in IF LastSlot = 0 THEN AllOfGap(lo, hi) ELSE SlotTimes

Tracks(lo, hi) == Turns /\ (Fresh \/ Known(lo, hi) \/ Starting(lo, hi))

TrackInv(lo, hi) == TypeInv /\ ~disturbed /\ Tracks(lo, hi)

\* No pulse is lost or invented.
SensorsWork == Faults \subseteq {"stall"}

LEMMA Wheel ==
  /\ triggerTeeth \in Nat /\ triggerMissingTeeth \in Nat /\ triggerMissingTeeth >= 1
  /\ triggerActualTeeth = triggerTeeth - triggerMissingTeeth
  /\ triggerActualTeeth \in Nat /\ triggerActualTeeth >= 1
BY DecoderAssumption DEF triggerActualTeeth

LEMMA SlotIs ==
  ASSUME NEW p \in 0..(2 * triggerTeeth - 1)
  PROVE  p % triggerTeeth = Slot(p) /\ Slot(p) \in 0..(triggerTeeth - 1)
<1> USE Wheel
<1>1. CASE p < triggerTeeth
  <2>1. p = triggerTeeth * 0 + p /\ p \in 0..(triggerTeeth - 1)
    BY <1>1
  <2> QED BY <1>1, <2>1 DEF Slot
<1>2. CASE ~(p < triggerTeeth)
  <2>1. p = triggerTeeth * 1 + (p - triggerTeeth) /\ p - triggerTeeth \in 0..(triggerTeeth - 1)
    BY <1>2
  <2> QED BY <1>2, <2>1 DEF Slot
<1> QED BY <1>1, <1>2

LEMMA NextPosition ==
  ASSUME NEW p \in 0..(2 * triggerTeeth - 1)
  PROVE  (p + 1) % (2 * triggerTeeth) = IF p = 2 * triggerTeeth - 1 THEN 0 ELSE p + 1
<1> USE Wheel
<1> DEFINE n == 2 * triggerTeeth
<1>0. n \in Nat /\ n > 0 /\ p \in 0..(n - 1)
  OBVIOUS
<1> HIDE DEF n
<1>1. CASE p = n - 1
  <2>1. p + 1 = n * 1 + 0 /\ 0 \in 0..(n - 1)
    BY <1>0, <1>1
  <2> QED BY <1>0, <1>1, <2>1 DEF n
<1>2. CASE p # n - 1
  <2>1. p + 1 = n * 0 + (p + 1) /\ p + 1 \in 0..(n - 1)
    BY <1>0, <1>2
  <2> QED BY <1>0, <1>2, <2>1 DEF n
<1> QED BY <1>1, <1>2 DEF n

LEMMA NextSlot ==
  ASSUME NEW p \in 0..(2 * triggerTeeth - 1), NEW q, q = (p + 1) % (2 * triggerTeeth)
  PROVE  /\ q \in 0..(2 * triggerTeeth - 1)
         /\ q = IF p = 2 * triggerTeeth - 1 THEN 0 ELSE p + 1
         /\ Slot(q) = IF Slot(p) = triggerTeeth - 1 THEN 0 ELSE Slot(p) + 1
<1>1. q = IF p = 2 * triggerTeeth - 1 THEN 0 ELSE p + 1
  BY NextPosition
<1> QED BY <1>1, Wheel DEF Slot

\* The cam tooth is neither on the first slot nor on the first turn.
LEMMA CamPlace ==
  triggerTeeth >= 2 => CamPosition \in (triggerTeeth + 1)..(2 * triggerTeeth - 1)
BY Wheel DEF CamPosition

LEMMA OneMore ==
  ASSUME NEW lo \in Nat, NEW hi \in Nat, NEW k \in Nat, NEW x \in (k * lo)..(k * hi), NEW t \in lo..hi
  PROVE  x + t \in ((k + 1) * lo)..((k + 1) * hi)
<1>1. (k + 1) * lo = k * lo + lo /\ (k + 1) * hi = k * hi + hi /\ k * lo \in Nat /\ k * hi \in Nat
  OBVIOUS
<1> DEFINE a == k * lo  b == k * hi
<1>2. a \in Nat /\ b \in Nat /\ x \in a..b
  BY <1>1
<1> HIDE DEF a, b
<1>3. x + t \in (a + lo)..(b + hi)
  BY <1>2
<1> QED BY <1>1, <1>3 DEF a, b

\* A turn by one slot leaves the last tooth, and the time since is one slot more.
LEMMA TurnTracks ==
  ASSUME NEW lo, NEW hi, EvenSpeed(lo, hi), WheelTold, TypeInv, Tracks(lo, hi), Turn
  PROVE  Tracks(lo, hi)'
<1> DEFINE p == position  q == position'
<1>1. p \in 0..(2 * triggerTeeth - 1) /\ q = (p + 1) % (2 * triggerTeeth) /\ edge = "none"
  BY DEF TypeInv, TypeOK, Turn
<1>2. /\ q \in 0..(2 * triggerTeeth - 1)
      /\ q = IF p = 2 * triggerTeeth - 1 THEN 0 ELSE p + 1
      /\ Slot(q) = IF Slot(p) = triggerTeeth - 1 THEN 0 ELSE Slot(p) + 1
  BY <1>1, NextSlot
<1>3. Slot(p) \in 0..(triggerTeeth - 1) /\ Slot(q) \in 0..(triggerTeeth - 1) /\ q % triggerTeeth = Slot(q)
  BY <1>1, <1>2, SlotIs
<1>4. edge' = IF Slot(q) < triggerActualTeeth THEN "primary" ELSE "none"
  BY <1>3 DEF Turn
<1>5. LastSlot' = LastSlot
  BY <1>1, <1>2, <1>3, <1>4, Wheel DEF LastSlot
<1>6. LastRevolution' = LastRevolution
  BY <1>1, <1>2, <1>3, <1>4, Wheel DEF LastRevolution, TrueRevolution, Slot
<1>7. spent' = 0 /\ spent = 0
      /\ UNCHANGED <<lastGap, seen, toothCurrentCount, syncStatus, toothAngleIsCorrect,
                     revolutionOne, secondaryToothCount, triggerFilterTime>>
  BY DEF Turn, Tracks, Turns
<1>8. Turns'
  <2>1. edge' = "primary" => Slot(q) < triggerActualTeeth
    BY <1>4
  <2>2. edge' # "cam"
    BY <1>4
  <2>3. sequential /\ syncStatus' = "Full" => revolutionOne' = LastRevolution'
    BY <1>6, <1>7 DEF Tracks, Turns
  <2>4. secondaryToothCount' > 0 => revolutionOne' /\ (q >= CamPosition \/ (q = 0 /\ edge' = "primary"))
    <3>1. SUFFICES ASSUME secondaryToothCount > 0
                   PROVE  revolutionOne /\ (q >= CamPosition \/ (q = 0 /\ edge' = "primary"))
      BY <1>7
    <3>2. revolutionOne /\ p >= CamPosition
      BY <1>1, <3>1 DEF Tracks, Turns
    <3>3. q = 0 \/ q >= CamPosition
      BY <1>1, <1>2, <3>2, Wheel DEF CamPosition
    <3>4. q = 0 => edge' = "primary"
      BY <1>4, Wheel DEF Slot
    <3> QED BY <3>2, <3>3, <3>4
  <2> QED BY <1>7, <2>1, <2>2, <2>3, <2>4 DEF Turns
<1>9. ASSUME seen, TimeSince(lo, hi)
      PROVE  TimeSince(lo, hi)'
  <2>2. PICK t \in SlotTimes : sinceTooth' = sinceTooth + t
    <3>1. PICK t \in SlotTimes : sinceTooth' = sinceTooth + t - spent
      BY <1>9 DEF Turn
    <3>2. t \in Nat /\ sinceTooth \in Nat
      BY DecoderAssumption DEF TypeInv, TypeOK
    <3> QED BY <1>7, <3>1, <3>2
  <2>3. t \in lo..hi /\ t \in Nat /\ lo \in Nat /\ hi \in Nat
    BY DecoderAssumption DEF EvenSpeed
  <2>4. ASSUME Slot(p) < triggerActualTeeth
        PROVE  TimeSince(lo, hi)'
    <3>1. sinceTooth' = t
      BY <1>1, <1>9, <2>2, <2>3, <2>4 DEF TimeSince
    <3>2. Slot(q) = Slot(p) + 1
      BY <1>2, <1>3, <2>4, Wheel
    <3>3. CASE Slot(q) < triggerActualTeeth
      BY <1>3, <1>4, <3>1, <3>2, <3>3 DEF TimeSince
    <3>4. CASE ~(Slot(q) < triggerActualTeeth)
      <4>1. Slot(q) - triggerActualTeeth + 1 = 1
        BY <1>3, <2>4, <3>2, <3>4, Wheel
      <4>2. edge' # "primary" /\ 1 * lo = lo /\ 1 * hi = hi
        BY <1>4, <2>3, <3>4
      <4> QED BY <2>3, <3>1, <3>4, <4>1, <4>2 DEF TimeSince
    <3> QED BY <3>3, <3>4
  <2>5. ASSUME ~(Slot(p) < triggerActualTeeth)
        PROVE  TimeSince(lo, hi)'
    <3> DEFINE k == Slot(p) - triggerActualTeeth + 1
    <3>1. sinceTooth \in (k * lo)..(k * hi) /\ k \in Nat
      BY <1>1, <1>3, <1>9, <2>5, Wheel DEF TimeSince
    <3> HIDE DEF k
    <3>2. sinceTooth' \in ((k + 1) * lo)..((k + 1) * hi)
      BY <2>2, <2>3, <3>1, OneMore
    <3>3. CASE Slot(p) = triggerTeeth - 1
      <4>1. k = triggerMissingTeeth /\ Slot(q) = 0 /\ edge' = "primary"
        BY <1>2, <1>4, <3>3, Wheel DEF k
      <4> QED BY <3>2, <4>1 DEF TimeSince, AllOfGap
    <3>4. CASE Slot(p) # triggerTeeth - 1
      <4>1. k + 1 = Slot(q) - triggerActualTeeth + 1 /\ ~(Slot(q) < triggerActualTeeth) /\ edge' # "primary"
        BY <1>2, <1>3, <1>4, <2>5, <3>4, Wheel DEF k
      <4> QED BY <3>2, <4>1 DEF TimeSince
    <3> QED BY <3>3, <3>4
  <2> QED BY <2>4, <2>5
<1>10. CASE Known(lo, hi)
  <2>1. TimeSince(lo, hi)'
    BY <1>9, <1>10 DEF Known, TeethSeen
  <2>2. TeethSeen(lo, hi)'
    BY <1>5, <1>7, <1>10, <2>1 DEF Known, TeethSeen
  <2> QED BY <1>7, <1>8, <1>10, <2>2 DEF Tracks, Known
<1>11. CASE Fresh
  <2>1. NothingSeen /\ ~seen /\ GapSeen /\ sinceTooth' = 0
    BY <1>11 DEF Fresh, Turn
  <2>2. edge' # "cam" /\ Slot(q) # (IF edge' = "primary" THEN triggerActualTeeth - 1 ELSE triggerActualTeeth - 2)
    BY <1>1, <1>2, <1>3, <1>4, <2>1, Wheel DEF NothingSeen, WheelTold
  <2>3. NothingSeen'
    BY <1>7, <2>1, <2>2 DEF NothingSeen
  <2>4. Fresh'
    BY <1>7, <2>1, <2>3 DEF Fresh, GapSeen
  <2> QED BY <1>8, <2>4 DEF Tracks
<1>12. CASE Starting(lo, hi)
  <2>1. CamPosition \in Nat /\ CamPosition > triggerTeeth /\ CamPosition < 2 * triggerTeeth
    BY CamPlace, Wheel DEF WheelTold
  <2>2. seen => TimeSince(lo, hi)'
    BY <1>9, <1>12 DEF Starting
  <2>3. camSeen' = camSeen
    BY DEF Turn
  <2>4. ASSUME camSeen
        PROVE  /\ q > CamPosition \/ q < triggerTeeth \/ (q = triggerTeeth /\ edge' = "primary")
               /\ lastGap = 0 => q >= CamPosition \/ (q = 0 /\ edge' = "primary")
    <3>1. /\ p >= CamPosition \/ p < triggerTeeth
          /\ lastGap = 0 => p >= CamPosition
      BY <1>1, <1>12, <2>1, <2>4 DEF Starting
    <3>2. (q = 0 \/ q = triggerTeeth) => edge' = "primary"
      BY <1>4, Wheel DEF Slot
    <3> QED BY <1>1, <1>2, <2>1, <3>1, <3>2, Wheel
  <2>5. Starting(lo, hi)'
    BY <1>4, <1>5, <1>7, <1>12, <2>2, <2>3, <2>4 DEF Starting, AllOfGap
  <2> QED BY <1>8, <2>5 DEF Tracks
<1> QED BY <1>10, <1>11, <1>12 DEF Tracks

LEMMA Bounds ==
  ASSUME NEW lo, NEW hi, EvenSpeed(lo, hi)
  PROVE  /\ lo \in Nat /\ hi \in Nat /\ lo >= 1 /\ 3 * hi < 4 * lo
         /\ \A t \in SlotTimes : t \in lo..hi
         /\ AllOfGap(lo, hi) \subseteq Nat
         /\ \A t \in AllOfGap(lo, hi) : t >= lo /\ t > triggerMissingTeeth * hi /\ t >= 2 * lo
<1> DEFINE m == triggerMissingTeeth
<1>1. /\ lo \in Nat /\ hi \in Nat /\ lo >= 1 /\ 3 * hi < 4 * lo /\ m \in Nat /\ m >= 1
      /\ m * hi < (m + 1) * lo
      /\ \A t \in SlotTimes : t \in lo..hi
  BY Wheel DEF EvenSpeed
<1>2. PICK n \in Nat : m = 1 + n
  <2>1. m - 1 \in Nat /\ m = 1 + (m - 1)
    BY <1>1
  <2> QED BY <2>1
<1> HIDE DEF m
<1>3. (m + 1) * lo = 2 * lo + n * lo /\ n * lo \in Nat /\ m * hi \in Nat
  BY <1>1, <1>2
<1> DEFINE a == n * lo  b == m * hi  c == (m + 1) * lo
<1>4. a \in Nat /\ b \in Nat /\ c = 2 * lo + a /\ b < c
  BY <1>1, <1>3
<1> HIDE DEF a, b, c
<1>5. \A t \in Int : t >= c => t \in Nat /\ t >= lo /\ t > b /\ t >= 2 * lo
  BY <1>1, <1>4
<1>6. \A t \in AllOfGap(lo, hi) : t \in Int /\ t >= c
  BY DEF AllOfGap, c, m
<1> QED BY <1>1, <1>5, <1>6 DEF b, m

LEMMA TargetGap ==
  ASSUME NEW lo, NEW hi, EvenSpeed(lo, hi), lastGap \in Nat, lastGap >= lo
  PROVE  /\ targetGap \in Nat /\ targetGap >= hi
         /\ lastGap <= hi => \A t \in AllOfGap(lo, hi) : t > targetGap
<1> DEFINE m == triggerMissingTeeth
<1>1. /\ lo \in Nat /\ hi \in Nat /\ lo >= 1 /\ 3 * hi < 4 * lo
      /\ \A t \in AllOfGap(lo, hi) : t \in Nat /\ t > m * hi /\ t >= 2 * lo
  BY Bounds
<1>2. CASE m = 1
  <2>1. targetGap = (3 * lastGap) \div 2
    BY <1>2 DEF targetGap
  <2>2. targetGap \in Nat /\ targetGap >= hi /\ (lastGap <= hi => targetGap < 2 * lo)
    BY <1>1, <2>1
  <2> QED BY <1>1, <2>2
<1>3. CASE m # 1
  <2>1. m \in Nat /\ m >= 2
    BY <1>3, Wheel
  <2>2. targetGap = lastGap * m
    BY <1>3 DEF targetGap
  <2>3. lastGap * m \in Nat /\ lastGap * m >= 2 * lastGap
    <3>1. PICK n \in Nat : m = 2 + n
      <4>1. m - 2 \in Nat /\ m = 2 + (m - 2)
        BY <2>1
      <4> QED BY <4>1
    <3>2. lastGap * m = 2 * lastGap + lastGap * n /\ lastGap * n \in Nat
      BY <3>1
    <3> QED BY <3>2
  <2>4. lastGap <= hi => lastGap * m <= m * hi
    <3>1. SUFFICES ASSUME lastGap <= hi PROVE lastGap * m <= m * hi
      OBVIOUS
    <3>2. PICK n \in Nat : hi = lastGap + n
      <4>1. hi - lastGap \in Nat /\ hi = lastGap + (hi - lastGap)
        BY <1>1, <3>1
      <4> QED BY <4>1
    <3>3. m * hi = lastGap * m + m * n /\ m * n \in Nat /\ lastGap * m \in Nat
      BY <2>1, <3>2
    <3> QED BY <3>3
  <2>5. m * hi \in Nat
    BY <1>1, <2>1
  <2> HIDE DEF m
  <2> DEFINE x == lastGap * m  y == m * hi
  <2>6. x \in Nat /\ y \in Nat /\ x >= 2 * lastGap /\ (lastGap <= hi => x <= y)
    BY <2>3, <2>4, <2>5
  <2>7. \A t \in AllOfGap(lo, hi) : t \in Nat /\ t > y
    BY <1>1
  <2> HIDE DEF x, y
  <2>8. x >= hi /\ (lastGap <= hi => \A t \in AllOfGap(lo, hi) : t > x)
    BY <1>1, <2>6, <2>7
  <2> QED BY <2>2, <2>6, <2>8 DEF x
<1> QED BY <1>2, <1>3

\* Once two teeth were seen the gap is found where it is, and nowhere else.
LEMMA GapTold ==
  ASSUME NEW lo, NEW hi, EvenSpeed(lo, hi), WheelTold, TypeInv, Turns, TeethSeen(lo, hi),
         edge = "primary", lastGap # 0, NEW speed
  PROVE  GapFound(speed) <=> Slot(position) = 0
<1> DEFINE A == triggerActualTeeth
<1>1. A \in Nat /\ A >= 2 /\ lastGap \in Nat /\ sinceTooth \in Nat /\ toothCurrentCount \in Nat
  BY Wheel DEF WheelTold, TypeInv, TypeOK
<1>2. Slot(position) \in Nat /\ Slot(position) < A
  BY SlotIs DEF TypeInv, TypeOK, Turns
<1>3. LastSlot = IF Slot(position) = 0 THEN A - 1 ELSE Slot(position) - 1
  BY DEF LastSlot
<1>4. IF syncStatus # "None" /\ LastSlot = 0 THEN lastGap \in AllOfGap(lo, hi) ELSE lastGap \in SlotTimes
  BY DEF TeethSeen
<1>5. lastGap >= lo
  BY <1>4, Bounds
<1>6. /\ targetGap \in Nat /\ targetGap >= hi
      /\ lastGap <= hi => \A t \in AllOfGap(lo, hi) : t > targetGap
  BY <1>1, <1>5, TargetGap
<1> HIDE DEF A
<1>7. CASE Slot(position) = 0
  <2>1. lastGap <= hi
    BY <1>1, <1>3, <1>4, <1>7, Bounds
  <2>2. sinceTooth > targetGap
    BY <1>6, <1>7, <2>1 DEF TeethSeen, TimeSince
  <2>3. syncStatus = "Full" => Counted >= (3 * A) \div 4
    BY <1>1, <1>3, <1>7 DEF TeethSeen, Counted
  <2> QED BY <1>7, <2>2, <2>3 DEF GapFound, GapSearched, A
<1>8. CASE Slot(position) # 0
  <2>1. sinceTooth \in SlotTimes /\ sinceTooth <= hi
    BY <1>8, Bounds DEF TeethSeen, TimeSince
  <2>2. ~(sinceTooth > targetGap)
    BY <1>1, <1>6, <2>1, Bounds
  <2>3. ~(Counted > A)
    BY <1>1, <1>2, <1>3, <1>8 DEF TeethSeen, Counted
  <2> QED BY <1>8, <2>2, <2>3 DEF GapFound, GapSearched, A
<1> QED BY <1>7, <1>8

LEMMA Handled ==
  ASSUME TypeInv, Turns, edge = "primary", handled, UNCHANGED position
  PROVE  /\ edge' \in {"none", "cam"} /\ (edge' = "cam" => position = CamPosition)
         /\ LastSlot' = Slot(position) /\ LastRevolution' = TrueRevolution
         /\ Slot(position) \in Nat /\ Slot(position) < triggerActualTeeth
<1>1. edge' \in {"none", "cam"} /\ (edge' = "cam" => position = CamPosition)
  BY DEF handled
<1>2. Slot(position) \in Nat /\ Slot(position) < triggerActualTeeth
  BY SlotIs DEF TypeInv, TypeOK, Turns
<1> QED BY <1>1, <1>2 DEF LastSlot, LastRevolution, TrueRevolution

\* The filter is shorter than any slot.
LEMMA FilterShort ==
  ASSUME NEW lo, NEW hi, EvenSpeed(lo, hi), NEW gap \in SlotTimes
  PROVE  setFilter(gap) < lo
<1>1. gap \in lo..hi /\ lo \in Nat /\ hi \in Nat /\ lo >= 1 /\ 3 * hi < 4 * lo
  BY Bounds
<1>2. triggerFilter = 0 \/ triggerFilter = 1 \/ triggerFilter = 2 \/ triggerFilter = 3
  BY DecoderAssumption
<1>3. (gap * 0) \div 4 < lo /\ (gap * 1) \div 4 < lo /\ (gap * 2) \div 4 < lo /\ (gap * 3) \div 4 < lo
  BY <1>1
<1> QED BY <1>2, <1>3 DEF setFilter

\* With the first tooth, seen from a fresh start, the teeth are known, and they remain so.
LEMMA ToothKnown ==
  ASSUME NEW lo, NEW hi, EvenSpeed(lo, hi), WheelTold, TypeInv, Turns,
         Fresh \/ Known(lo, hi), triggerPri_missingTooth
  PROVE  Turns' /\ Known(lo, hi)'
<1>0. IF seen THEN TeethSeen(lo, hi) ELSE NothingSeen
  BY DEF Fresh, Known
<1> DEFINE A == triggerActualTeeth  s == Slot(position)
<1>1. edge = "primary" /\ handled /\ UNCHANGED position /\ UNCHANGED spent
  BY DEF triggerPri_missingTooth, FilteredPulse, FirstTeeth, SyncLost, ToothOne, RegularTooth, validPulse
<1>2. /\ edge' \in {"none", "cam"} /\ (edge' = "cam" => position = CamPosition)
      /\ LastSlot' = s /\ LastRevolution' = TrueRevolution
      /\ s \in Nat /\ s < A
  BY <1>1, Handled
<1>3. A \in Nat /\ A >= 2 /\ lo \in Nat /\ hi \in Nat /\ lo >= 1 /\ (\A t \in SlotTimes : t \in lo..hi)
  BY Wheel, Bounds DEF WheelTold
<1>4. LastSlot = IF s = 0 THEN A - 1 ELSE s - 1
  BY <1>1 DEF LastSlot
<1>5. s # 0 => LastRevolution = TrueRevolution
  BY <1>1 DEF LastRevolution
<1>6. secondaryToothCount > 0 => revolutionOne /\ (position >= CamPosition \/ position = 0)
  BY DEF Turns
<1>7. position = 0 => s = 0
  BY <1>3, Wheel DEF Slot
<1>8. spent' = 0 /\ (edge' = "primary" => s < A)
  BY <1>1, <1>2 DEF Turns
<1>9. ASSUME s # 0, UNCHANGED <<syncStatus, revolutionOne, secondaryToothCount>>
      PROVE  Turns'
  <2>1. sequential /\ syncStatus' = "Full" => revolutionOne' = LastRevolution'
    BY <1>2, <1>5, <1>9 DEF Turns
  <2>2. secondaryToothCount' > 0 => revolutionOne' /\ position' >= CamPosition
    BY <1>1, <1>6, <1>7, <1>9
  <2> QED BY <1>1, <1>2, <1>8, <2>1, <2>2 DEF Turns
<1>10. sinceTooth' = 0 /\ s < A => TimeSince(lo, hi)'
  BY <1>1, <1>2 DEF TimeSince
<1>11. CASE FilteredPulse
  <2>1. seen => sinceTooth \in Nat /\ sinceTooth >= lo /\ triggerFilterTime < lo
    BY <1>0, <1>1, <1>3, Bounds DEF TeethSeen, TimeSince, TypeInv, TypeOK
  <2>2. ~seen => sinceTooth = 0 /\ triggerFilterTime = 0
    BY <1>0 DEF NothingSeen
  <2>3. triggerFilterTime \in Nat /\ sinceTooth < triggerFilterTime
    BY <1>11 DEF FilteredPulse, TypeInv, TypeOK
  <2> QED BY <1>3, <2>1, <2>2, <2>3
<1>12. CASE FirstTeeth
  <2>1. /\ lastGap' = sinceTooth /\ sinceTooth' = 0 /\ seen' /\ toothCurrentCount' = toothCurrentCount + 1
        /\ UNCHANGED <<syncStatus, toothAngleIsCorrect, revolutionOne, secondaryToothCount, triggerFilterTime>>
        /\ (seen => lastGap = 0)
    BY <1>12 DEF FirstTeeth, NewLastTooth, Counted, twoTeethSeen, TypeInv, TypeOK
  <2>2. CASE seen
    <3>1. LastSlot # A - 1 /\ syncStatus = "None" /\ toothCurrentCount <= LastSlot + 1 /\ triggerFilterTime < lo
      BY <1>0, <2>1, <2>2 DEF TeethSeen
    <3>2. s # 0 /\ sinceTooth \in SlotTimes /\ sinceTooth # 0
      BY <1>0, <1>1, <1>3, <1>4, <2>2, <3>1 DEF TeethSeen, TimeSince
    <3>3. toothCurrentCount' <= s + 1
      BY <1>2, <1>4, <2>1, <3>1, <3>2 DEF TypeInv, TypeOK
    <3>4. TeethSeen(lo, hi)'
      BY <1>2, <1>10, <2>1, <3>1, <3>2, <3>3 DEF TeethSeen
    <3> QED BY <1>9, <2>1, <3>2, <3>4 DEF Known
  <2>3. CASE ~seen
    <3>1. NothingSeen
      BY <1>0, <2>3
    <3>2. s # A - 1 /\ sinceTooth = 0 /\ toothCurrentCount' = 1 /\ triggerFilterTime = 0 /\ syncStatus = "None"
          /\ secondaryToothCount = 0
      BY <1>1, <2>1, <3>1 DEF NothingSeen
    <3>3. TeethSeen(lo, hi)'
      BY <1>2, <1>3, <1>10, <2>1, <3>2 DEF TeethSeen
    <3>4. Turns'
      BY <1>1, <1>2, <1>8, <2>1, <3>2 DEF Turns
    <3> QED BY <2>1, <3>3, <3>4 DEF Known
  <2> QED BY <2>2, <2>3
<1>13. ASSUME NEW speed, SyncLost(speed) \/ ToothOne(speed) \/ RegularTooth(speed)
       PROVE  Turns' /\ Known(lo, hi)'
  <2>1. seen /\ lastGap # 0
    BY <1>13 DEF SyncLost, ToothOne, RegularTooth, twoTeethSeen, TypeInv, TypeOK
  <2>2. TeethSeen(lo, hi) /\ Turns
    BY <1>0, <2>1
  <2>3. GapFound(speed) <=> s = 0
    BY <1>1, <2>1, <2>2, GapTold
  <2>4. ~SyncLost(speed)
    <3>1. SUFFICES ASSUME SyncLost(speed) PROVE FALSE
      OBVIOUS
    <3>2. s = 0 /\ syncStatus = "Full" /\ toothCurrentCount + 1 < A
      BY <2>3, <3>1 DEF SyncLost, Counted
    <3> QED BY <1>3, <1>4, <2>2, <3>2 DEF TeethSeen
  <2>5. CASE ToothOne(speed)
    <3>1. s = 0
      BY <2>3, <2>5 DEF ToothOne
    <3>2. /\ lastGap' = sinceTooth /\ sinceTooth' = 0 /\ seen' = TRUE /\ toothCurrentCount' = 1
          /\ secondaryToothCount' = 0 /\ triggerFilterTime' = 0
      BY <2>5 DEF ToothOne, NewLastTooth
    <3>3. ~toothAngleIsCorrect'
      BY <2>5 DEF ToothOne
    <3>4. sinceTooth \in AllOfGap(lo, hi) /\ sinceTooth # 0
      BY <1>1, <1>3, <2>2, <3>1, Bounds DEF TeethSeen, TimeSince
    <3>5. syncStatus' # "None"
      BY <2>5 DEF ToothOne, TypeInv, TypeOK
    <3>6. TeethSeen(lo, hi)'
      BY <1>2, <1>3, <1>10, <3>1, <3>2, <3>3, <3>4, <3>5 DEF TeethSeen
    <3>7. sequential /\ syncStatus' = "Full" => revolutionOne' = LastRevolution'
      <4>1. SUFFICES ASSUME sequential, syncStatus' = "Full"
                     PROVE  revolutionOne' = TrueRevolution
        BY <1>2
      <4>2. revolutionOne' = ~revolutionOne /\ revolutionOne \in BOOLEAN
        BY <2>5 DEF ToothOne, TypeInv, TypeOK
      <4>3. secondaryToothCount > 0 \/ syncStatus = "Full"
        BY <2>5, <4>1 DEF ToothOne
      <4>4. TrueRevolution = (position # 0)
        BY <3>1, Wheel DEF TrueRevolution, Slot, TypeInv, TypeOK
      <4>5. CASE syncStatus = "Full"
        <5>1. revolutionOne = (position = 0)
          BY <1>1, <2>2, <3>1, <4>1, <4>5 DEF Turns, LastRevolution
        <5> QED BY <4>2, <4>4, <5>1
      <4>6. CASE secondaryToothCount > 0
        <5>1. position < CamPosition \/ position = 0
          BY <1>3, <3>1, CamPlace, Wheel DEF Slot, TypeInv, TypeOK
        <5>2. position \in Int /\ CamPosition \in Int
          BY <1>3, CamPlace, Wheel DEF TypeInv, TypeOK
        <5>3. revolutionOne /\ position = 0
          BY <1>6, <4>6, <5>1, <5>2
        <5> QED BY <4>2, <4>4, <5>3
      <4> QED BY <4>3, <4>5, <4>6
    <3>8. Turns'
      BY <1>1, <1>2, <1>8, <3>2, <3>7 DEF Turns
    <3> QED BY <3>2, <3>6, <3>8 DEF Known
  <2>6. CASE RegularTooth(speed)
    <3>1. s # 0
      BY <2>3, <2>6 DEF RegularTooth
    <3>2. /\ lastGap' = sinceTooth /\ sinceTooth' = 0 /\ seen' = TRUE /\ toothCurrentCount' = toothCurrentCount + 1
          /\ triggerFilterTime' = setFilter(sinceTooth)
          /\ UNCHANGED <<syncStatus, revolutionOne, secondaryToothCount>>
      BY <2>6 DEF RegularTooth, NewLastTooth, Counted
    <3>3. sinceTooth \in SlotTimes /\ sinceTooth # 0
      BY <1>1, <1>3, <2>2, <3>1 DEF TeethSeen, TimeSince
    <3>4. triggerFilterTime' < lo
      BY <3>2, <3>3, FilterShort
    <3>5. toothCurrentCount' <= s + 1 /\ (syncStatus # "None" => toothCurrentCount' = s + 1)
      BY <1>2, <1>4, <2>2, <3>1, <3>2 DEF TeethSeen, TypeInv, TypeOK
    <3>6. TeethSeen(lo, hi)'
      BY <1>2, <1>10, <3>1, <3>2, <3>3, <3>4, <3>5 DEF TeethSeen
    <3> QED BY <1>9, <3>1, <3>2, <3>6 DEF Known
  <2> QED BY <1>13, <2>4, <2>5, <2>6
<1> QED BY <1>11, <1>12, <1>13 DEF triggerPri_missingTooth

\* From any start: at slot 0 with two teeth seen the gap is found, and the count is right
\* from then on; until then nothing is claimed.
LEMMA ToothStarting ==
  ASSUME NEW lo, NEW hi, EvenSpeed(lo, hi), WheelTold, TypeInv, Turns,
         Starting(lo, hi), triggerPri_missingTooth
  PROVE  Turns' /\ (Known(lo, hi)' \/ Starting(lo, hi)')
<1> DEFINE A == triggerActualTeeth  s == Slot(position)
<1>1. edge = "primary" /\ handled /\ UNCHANGED position /\ UNCHANGED spent /\ camSeen' = camSeen
  BY DEF triggerPri_missingTooth, FilteredPulse, FirstTeeth, SyncLost, ToothOne, RegularTooth, validPulse, cam
<1>2. /\ edge' \in {"none", "cam"} /\ (edge' = "cam" => position = CamPosition)
      /\ LastSlot' = s /\ s \in Nat /\ s < A
  BY <1>1, Handled
<1>3. A \in Nat /\ A >= 2 /\ lo \in Nat /\ hi \in Nat /\ lo >= 1 /\ (\A t \in SlotTimes : t \in lo..hi)
  BY Wheel, Bounds DEF WheelTold
<1>4. LastSlot = IF s = 0 THEN A - 1 ELSE s - 1
  BY <1>1 DEF LastSlot
<1>5. /\ sequential /\ syncStatus # "Full" /\ secondaryToothCount = 0 /\ triggerFilterTime < lo
      /\ seen => sinceTooth \in IF s = 0 THEN AllOfGap(lo, hi) ELSE SlotTimes
      /\ ~seen => lastGap = 0 /\ triggerFilterTime = 0 /\ sinceTooth = 0
      /\ lastGap # 0 => lastGap \in IF LastSlot = 0 THEN AllOfGap(lo, hi) ELSE SlotTimes
  BY <1>1 DEF Starting, TimeSince, TypeInv, FirstTwo
<1>6. seen => sinceTooth \in Nat /\ sinceTooth >= lo
  BY <1>3, <1>5, Bounds
<1>7. CamPosition \in Nat /\ CamPosition > triggerTeeth /\ CamPosition < 2 * triggerTeeth
      /\ position \in 0..(2 * triggerTeeth - 1)
  BY <1>3, CamPlace, Wheel DEF TypeInv, TypeOK
<1>8. camSeen =>
        /\ seen
        /\ position > CamPosition \/ position < triggerTeeth \/ position = triggerTeeth
        /\ lastGap = 0 => position >= CamPosition \/ position = 0
  BY <1>1 DEF Starting
<1>9. position = triggerTeeth => s = 0
  BY Wheel DEF Slot
<1>10. triggerFilterTime \in Nat /\ lastGap \in Nat /\ ~FilteredPulse
  BY <1>5, <1>6, <1>3 DEF FilteredPulse, TypeInv, TypeOK
<1>11. Turns' \/ syncStatus' = "Full" \/ secondaryToothCount' # 0
  BY <1>1, <1>2 DEF Turns
<1>12. sinceTooth' = 0 => TimeSince(lo, hi)'
  BY <1>1, <1>2 DEF TimeSince
\* What is left to show of a pulse that does not end the start.
<1>13. ASSUME seen' = TRUE, sinceTooth' = 0, syncStatus' # "Full", secondaryToothCount' = 0,
              triggerFilterTime' < lo,
              lastGap' # 0 => lastGap' \in IF s = 0 THEN AllOfGap(lo, hi) ELSE SlotTimes,
              seen => lastGap' # 0,
              s = 0 => lastGap = 0
       PROVE  Turns' /\ Starting(lo, hi)'
  <2>1. Turns'
    BY <1>11, <1>13
  <2>2. camSeen => /\ position > CamPosition \/ position < triggerTeeth
                   /\ lastGap' # 0
    BY <1>7, <1>8, <1>9, <1>13
  <2>3. Starting(lo, hi)'
    BY <1>1, <1>2, <1>5, <1>12, <1>13, <2>2 DEF Starting, AllOfGap
  <2> QED BY <2>1, <2>3
<1>14. CASE FirstTeeth
  <2>1. /\ lastGap' = sinceTooth /\ sinceTooth' = 0 /\ seen' = TRUE
        /\ UNCHANGED <<syncStatus, secondaryToothCount, triggerFilterTime>>
        /\ lastGap = 0 \/ ~seen
    BY <1>10, <1>14 DEF FirstTeeth, NewLastTooth, twoTeethSeen
  <2>2. lastGap = 0
    BY <1>5, <2>1
  <2>3. lastGap' # 0 => lastGap' \in IF s = 0 THEN AllOfGap(lo, hi) ELSE SlotTimes
    BY <1>5, <2>1
  <2>4. seen => lastGap' # 0
    BY <1>3, <1>6, <2>1
  <2> QED BY <1>5, <1>13, <2>1, <2>2, <2>3, <2>4
<1>15. ASSUME NEW speed, SyncLost(speed) \/ ToothOne(speed) \/ RegularTooth(speed)
       PROVE  Turns' /\ (Known(lo, hi)' \/ Starting(lo, hi)')
  <2>1. seen /\ lastGap # 0 /\ lastGap \in Nat /\ ~SyncLost(speed)
    BY <1>5, <1>10, <1>15 DEF SyncLost, ToothOne, RegularTooth, twoTeethSeen
  <2>2. lastGap' = sinceTooth /\ sinceTooth' = 0 /\ seen' = TRUE
    BY <1>15, <2>1 DEF ToothOne, RegularTooth, NewLastTooth
  <2>3. CASE s # 0
    <3>1. lastGap' \in SlotTimes /\ lastGap' # 0
      BY <1>3, <1>5, <1>6, <2>1, <2>2, <2>3
    <3>2. triggerFilterTime' < lo
      BY <1>3, <1>5, <1>15, <2>1, <2>3, FilterShort DEF ToothOne, RegularTooth
    <3>3. syncStatus' # "Full" /\ secondaryToothCount' = 0
      BY <1>5, <1>15, <2>1 DEF ToothOne, RegularTooth
    <3> QED BY <1>13, <2>2, <2>3, <3>1, <3>2, <3>3
  <2>4. CASE s = 0
    <3>1. lastGap \in SlotTimes /\ lastGap >= lo /\ lastGap <= hi
      BY <1>3, <1>4, <1>5, <2>1, <2>4, Bounds
    <3>2. sinceTooth > targetGap
      BY <1>5, <2>1, <2>4, <3>1, TargetGap
    <3>3. ToothOne(speed)
      BY <1>5, <1>15, <2>1, <3>2 DEF RegularTooth, GapFound, GapSearched
    <3>4. syncStatus' = "Partial" /\ secondaryToothCount' = 0
      BY <1>5, <3>3 DEF ToothOne
    <3>5. toothCurrentCount' = 1 /\ triggerFilterTime' = 0 /\ ~toothAngleIsCorrect'
      BY <3>3 DEF ToothOne
    <3>6. sinceTooth \in AllOfGap(lo, hi) /\ sinceTooth # 0
      BY <1>3, <1>5, <1>6, <2>1, <2>4
    <3>7. TeethSeen(lo, hi)'
      BY <1>2, <1>3, <1>12, <2>2, <2>4, <3>4, <3>5, <3>6 DEF TeethSeen
    <3>8. Turns'
      BY <1>11, <3>4
    <3> QED BY <2>2, <3>7, <3>8 DEF Known
  <2> QED BY <2>3, <2>4
<1> QED BY <1>10, <1>14, <1>15 DEF triggerPri_missingTooth

LEMMA ToothTracks ==
  ASSUME NEW lo, NEW hi, EvenSpeed(lo, hi), WheelTold, TypeInv, Tracks(lo, hi), triggerPri_missingTooth
  PROVE  Tracks(lo, hi)'
BY ToothKnown, ToothStarting DEF Tracks

LEMMA CamTracks ==
  ASSUME NEW lo, NEW hi, WheelTold, TypeInv, Tracks(lo, hi), triggerSec_missingTooth
  PROVE  Tracks(lo, hi)'
<1>1. /\ edge = "cam" /\ edge' = "none" /\ camSeen' = TRUE
      /\ UNCHANGED <<position, spent, sinceTooth, lastGap, seen, toothCurrentCount, syncStatus,
                     toothAngleIsCorrect, triggerFilterTime>>
      /\ \/ camSeen /\ revolutionOne' = TRUE /\ secondaryToothCount' = 1
         \/ UNCHANGED <<revolutionOne, secondaryToothCount>>
  BY CamHandled DEF TypeInv
<1>2. Turns /\ (Known(lo, hi) \/ Starting(lo, hi))
  BY <1>1 DEF Tracks, Fresh, NothingSeen
<1>3. position = CamPosition /\ CamPosition \in (triggerTeeth + 1)..(2 * triggerTeeth - 1)
  BY <1>1, <1>2, CamPlace, Wheel DEF Turns, WheelTold
<1>4. LastSlot' = LastSlot
  BY <1>1 DEF LastSlot
<1>5. LastRevolution' = TRUE /\ LastRevolution = TRUE
  <2>1. position >= triggerTeeth
    BY <1>3, Wheel
  <2> QED BY <1>1, <2>1 DEF LastRevolution, TrueRevolution
<1>6. TimeSince(lo, hi) => TimeSince(lo, hi)'
  BY <1>1 DEF TimeSince
<1>7. Turns'
  <2>1. sequential /\ syncStatus' = "Full" => revolutionOne' = LastRevolution'
    BY <1>1, <1>2, <1>5 DEF Turns
  <2>2. secondaryToothCount' > 0 => revolutionOne' /\ position' >= CamPosition
    BY <1>1, <1>2, <1>3, Wheel DEF Turns
  <2> QED BY <1>1, <1>2, <2>1, <2>2 DEF Turns
<1>8. CASE Known(lo, hi)
  <2>1. TeethSeen(lo, hi)'
    BY <1>1, <1>4, <1>6, <1>8 DEF Known, TeethSeen
  <2> QED BY <1>1, <1>7, <1>8, <2>1 DEF Tracks, Known
<1>9. CASE Starting(lo, hi)
  <2>1. ~camSeen
    BY <1>1, <1>3, <1>9, Wheel DEF Starting
  <2>2. secondaryToothCount' = 0 /\ seen /\ TimeSince(lo, hi)'
    BY <1>1, <1>6, <1>9, <2>1 DEF Starting
  <2>3. Starting(lo, hi)'
    BY <1>1, <1>3, <1>4, <1>9, <2>2, Wheel DEF Starting, AllOfGap
  <2> QED BY <1>7, <2>3 DEF Tracks
<1> QED BY <1>2, <1>8, <1>9

LEMMA StallTracks ==
  ASSUME NEW lo, NEW hi, EvenSpeed(lo, hi), WheelTold, TypeInv, Stall
  PROVE  Tracks(lo, hi)'
<1>1. /\ edge' = "none" /\ position' \in RestPositions /\ UNCHANGED position /\ spent' = 0
      /\ ~seen' /\ sinceTooth' = 0 /\ lastGap' = 0 /\ syncStatus' = "None"
      /\ secondaryToothCount' = 0 /\ triggerFilterTime' = 0 /\ ~camSeen'
      /\ (~logging => toothCurrentCount' = 0)
  BY DEF Stall, resetDecoder
<1>2. Turns'
  BY <1>1 DEF Turns
<1>3. CASE sequential
  <2>1. lo >= 1 /\ lo \in Nat
    BY Bounds
  <2>2. Starting(lo, hi)'
    BY <1>1, <1>3, <2>1 DEF Starting
  <2> QED BY <1>2, <2>2 DEF Tracks
<1>4. CASE GapSeen
  <2>1. NothingSeen'
    BY <1>1, <1>4 DEF GapSeen, NothingSeen
  <2>2. Fresh'
    BY <1>1, <1>4, <2>1 DEF Fresh, GapSeen
  <2> QED BY <1>2, <2>2 DEF Tracks
<1> QED BY <1>3, <1>4 DEF WheelTold

LEMMA TrackInit ==
  ASSUME NEW lo, NEW hi, EvenSpeed(lo, hi), WheelTold, Init
  PROVE  Tracks(lo, hi)
<1>1. /\ edge = "none" /\ position \in RestPositions /\ spent = 0
      /\ ~seen /\ sinceTooth = 0 /\ lastGap = 0 /\ syncStatus = "None"
      /\ secondaryToothCount = 0 /\ triggerFilterTime = 0 /\ toothCurrentCount = 0 /\ ~camSeen
  BY DEF Init
<1>2. Turns
  BY <1>1 DEF Turns
<1>3. CASE sequential
  <2>1. lo >= 1 /\ lo \in Nat
    BY Bounds
  <2> QED BY <1>1, <1>2, <1>3, <2>1 DEF Tracks, Starting
<1>4. CASE GapSeen
  <2>1. NothingSeen
    BY <1>1, <1>4 DEF GapSeen, NothingSeen
  <2> QED BY <1>1, <1>2, <1>4, <2>1 DEF Tracks, Fresh
<1> QED BY <1>3, <1>4 DEF WheelTold

LEMMA TrackStep ==
  ASSUME NEW lo, NEW hi, EvenSpeed(lo, hi), WheelTold, SensorsWork, TrackInv(lo, hi), [Next]_vars
  PROVE  TrackInv(lo, hi)'
<1>1. TypeInv'
  BY TypeStep DEF TrackInv
<1>2. TypeInv /\ ~disturbed /\ Tracks(lo, hi)
  BY DEF TrackInv
<1>3. SUFFICES ~disturbed' /\ Tracks(lo, hi)'
  BY <1>1 DEF TrackInv
<1>4. CASE Turn
  BY <1>2, <1>4, TurnTracks DEF Turn
<1>5. CASE triggerPri_missingTooth
  <2>1. ~disturbed'
    BY <1>2, <1>5 DEF triggerPri_missingTooth, FilteredPulse, FirstTeeth, SyncLost, ToothOne, RegularTooth
  <2> QED BY <1>2, <1>5, <2>1, ToothTracks
<1>6. CASE triggerSec_missingTooth
  <2>1. ~disturbed'
    BY <1>2, <1>6 DEF triggerSec_missingTooth
  <2> QED BY <1>2, <1>6, <2>1, CamTracks
<1>7. ~(LostPulse \/ LostCamPulse \/ NoisePulse)
  BY DEF LostPulse, LostCamPulse, NoisePulse, Fault, SensorsWork
<1>8. CASE Stall
  <2>1. ~disturbed'
    BY <1>8 DEF Stall, Fault
  <2> QED BY <1>2, <1>8, <2>1, StallTracks
<1>9. CASE UNCHANGED vars
  <2>1. UNCHANGED <<wheel, cam, decoder>>
    BY <1>9 DEF vars
  <2> QED BY <1>2, <2>1 DEF wheel, cam, decoder, Tracks, Fresh, Known, Starting, Turns, TeethSeen, NothingSeen,
                            TimeSince, LastSlot, LastRevolution, TrueRevolution
<1> QED BY <1>4, <1>5, <1>6, <1>7, <1>8, <1>9 DEF Next

LEMMA TrackInvariant ==
  ASSUME NEW CONSTANT lo, NEW CONSTANT hi, EvenSpeed(lo, hi), WheelTold, SensorsWork
  PROVE  Spec => []TrackInv(lo, hi)
<1>1. Init => TrackInv(lo, hi)
  <2>1. Init => ~disturbed
    BY DEF Init
  <2> QED BY <2>1, TypeInit, TrackInit DEF TrackInv
<1>2. TrackInv(lo, hi) /\ [Next]_vars => TrackInv(lo, hi)'
  BY TrackStep
<1> QED BY <1>1, <1>2, PTL DEF Spec

LEMMA TracksTold ==
  ASSUME NEW lo, NEW hi, TypeInv, Tracks(lo, hi)
  PROVE  /\ syncStatus = "Full" /\ edge = "none" => Aligned
         /\ toothAngleIsCorrect /\ syncStatus = "Full" => lastGap \in SlotTimes
<1>1. ASSUME syncStatus = "Full"
      PROVE  TeethSeen(lo, hi) /\ Turns
  BY <1>1 DEF Tracks, Fresh, Known, Starting, NothingSeen
<1>2. ASSUME syncStatus = "Full", edge = "none"
      PROVE  Aligned
  <2>1. toothCurrentCount = LastSlot + 1 /\ (sequential => revolutionOne = TrueRevolution)
    BY <1>1, <1>2 DEF TeethSeen, Turns, LastRevolution
  <2>2. position % triggerTeeth = Slot(position) /\ Slot(position) \in Nat
    BY SlotIs DEF TypeInv, TypeOK
  <2>3. TrueTooth = LastSlot + 1
    BY <1>2, <2>2, Wheel DEF TrueTooth, LastSlot
  <2> QED BY <2>1, <2>3 DEF Aligned
<1>3. ASSUME toothAngleIsCorrect, syncStatus = "Full"
      PROVE  lastGap \in SlotTimes
  BY <1>1, <1>3 DEF TeethSeen
<1> QED BY <1>2, <1>3

\* Full sync is never claimed at the wrong place while the sensors work: for every wheel of
\* two teeth or more, filter and way of driving, however often the engine stops and
\* whatever the cam filter drops.  A sequential engine may start and stop anywhere, also
\* while a log runs, because the first cam pulse after a reset is not counted
\* (triggerSec_missingTooth); one that takes no notice of the cam may do so without a log
\* and where the gap is not between the first two pulses.
THEOREM AlignedWhileSensorsWork ==
  ASSUME NEW CONSTANT lo, NEW CONSTANT hi, EvenSpeed(lo, hi), WheelTold, SensorsWork
  PROVE  Spec => []FullMeansAligned
<1>1. TrackInv(lo, hi) => FullMeansAligned
  BY TracksTold DEF TrackInv, FullMeansAligned
<1> QED BY <1>1, TrackInvariant, PTL

\* The gap that getCrankAngle divides by is then that of neighbouring teeth.
THEOREM AngleWhileSensorsWork ==
  ASSUME NEW CONSTANT lo, NEW CONSTANT hi, EvenSpeed(lo, hi), WheelTold, SensorsWork
  PROVE  Spec => []AngleCorrectMeansOneSlot
<1>1. TrackInv(lo, hi) => AngleCorrectMeansOneSlot
  BY TracksTold DEF TrackInv, AngleCorrectMeansOneSlot
<1> QED BY <1>1, TrackInvariant, PTL
=============================================================================
