---------------------------- MODULE GapDecoders -----------------------------
(***************************************************************************)
(* Decoders with one line only, which find their position by comparing the *)
(* last gap with the one before: GM 7X, Honda D17 and J32, Daihatsu,       *)
(* Harley, 36-2-2-2 and 36-2-1.                                            *)
(***************************************************************************)
EXTENDS DecoderState

\* Both times are known: toothLastToothTime > 0, toothLastMinusOneToothTime > 0.
TwoTeethSeen == d.sinceTooth < Never /\ d.minusOne < Never

-----------------------------------------------------------------------------
(* GM 7X: six even teeth and one ten degrees after the second.             *)

Wheel_GM7X == Teeth(<<42, 102, 112, 162, 222, 282, 342>>)

triggerSetup_GM7X(s) == [sharedDecoderReset(s) EXCEPT !.triggerToothAngle = 60]

triggerPri_GM7X ==
  LET gap == d.sinceTooth
      s == [LastTooth(d) EXCEPT !.lastGap = d.curGap, !.curGap = gap,
                                !.toothCurrentCount = Counted]
  IN  d' = CASE ~TwoTeethSeen -> s
             [] TwoTeethSeen /\ Counted > 7 ->
                  [s EXCEPT !.toothCurrentCount = 1,
                            !.oneMinusOne = d.sinceOne, !.sinceOne = 0,
                            !.toothAngleIsCorrect = TRUE]
             [] TwoTeethSeen /\ Counted <= 7 /\ gap < d.curGap \div 2 ->
                  [s EXCEPT !.toothCurrentCount = 3,
                            !.syncStatus = "Full",
                            !.toothAngleIsCorrect = FALSE,
                            !.startRevolutions = IF @ < RevolutionsMax THEN @ + 1 ELSE @]
             [] OTHER -> [s EXCEPT !.toothAngleIsCorrect = TRUE]

getRPM_GM7X(slow) == stdRevolutionTime(FALSE, slow)

getCrankAngle_GM7X ==
  CASE d.toothCurrentCount < 3 -> (d.toothCurrentCount - 1) * d.triggerToothAngle + 42
    [] d.toothCurrentCount = 3 -> 112
    [] OTHER -> (d.toothCurrentCount - 2) * d.triggerToothAngle + 42

endTeeth_GM7X(advance) == IF advance < 18 THEN <<7, 2, 5>> ELSE <<6, 1, 4>>

-----------------------------------------------------------------------------
(* Honda D17: twelve even teeth and a thirteenth, which counts as none.    *)

Wheel_HondaD17 == Teeth(<<0, 30, 60, 90, 120, 150, 180, 210, 240, 270, 300, 330, 340>>)

triggerSetup_HondaD17(s) == [sharedDecoderReset(s) EXCEPT !.triggerToothAngle = 30]

triggerPri_HondaD17 ==
  LET s == [d EXCEPT !.lastGap = d.curGap, !.curGap = d.sinceTooth,
                     !.toothCurrentCount = Counted]
  IN  d' = CASE Counted = 13 /\ Full -> [s EXCEPT !.toothCurrentCount = 0]
             [] Counted = 1 /\ Full -> ToothOne(LastTooth(s))
             [] ~(Counted \in {1, 13} /\ Full) /\ d.sinceTooth < d.curGap \div 2 ->
                  [s EXCEPT !.toothCurrentCount = 0, !.syncStatus = "Full"]
             [] OTHER -> LastTooth(s)

getRPM_HondaD17(slow) == stdRevolutionTime(FALSE, slow)

\* After the thirteenth tooth the twelfth is the last that counts.
getCrankAngle_HondaD17 ==
  IF d.toothCurrentCount = 0 THEN 11 * d.triggerToothAngle
  ELSE (d.toothCurrentCount - 1) * d.triggerToothAngle

-----------------------------------------------------------------------------
(* Honda J32: 24 slots, the teeth of slots 15 and 23 missing, and the tooth *)
(* before either late.  Slot n is at 15 n degrees.                         *)

Wheel_HondaJ32 ==
  Teeth([n \in 1..13 |-> 15 * n] \o <<213>> \o [n \in 1..6 |-> 225 + 15 * n]
        \o <<333, 360>>)

triggerSetup_HondaJ32(s) ==
  [sharedDecoderReset(s) EXCEPT !.triggerToothAngle = 15,
                                !.triggerFilterTime = FilterAtMaxRPM,
                                !.toothCurrentCount = 0,
                                !.sinceOne = Never,
                                !.oneMinusOne = Never,
                                !.lastGap = 0,
                                !.revolutionOne = FALSE]

\* In sync: the count jumps over a missing tooth, whose gap must be a long one.
inSync_HondaJ32(gap) ==
  LET s == [d EXCEPT !.sinceTooth = 0, !.toothCurrentCount = Counted]
  IN  CASE Counted = 25 -> [ToothOne(s) EXCEPT !.toothCurrentCount = 1]
        [] Counted \in {15, 23} ->
             IF gap < (d.lastGap \div 2) * 3
             THEN [s EXCEPT !.syncStatus = "None", !.toothCurrentCount = 1]
             ELSE [s EXCEPT !.toothCurrentCount = Counted + 1]
        [] Counted \in {14, 22} -> s
        [] OTHER -> [s EXCEPT !.lastGap = gap]

\* Without sync: fifteen teeth from one long gap to the next.
unsynced_HondaJ32(gap) ==
  LET s == [d EXCEPT !.sinceTooth = 0]
  IN  CASE gap < (d.lastGap \div 2) * 3 \/ d.lastGap = 0 ->
             [s EXCEPT !.toothCurrentCount = Counted, !.lastGap = gap]
        [] gap >= (d.lastGap \div 2) * 3 /\ d.lastGap # 0 /\ d.toothCurrentCount = 15 ->
             [s EXCEPT !.syncStatus = "Full",
                       !.toothCurrentCount = 16,
                       !.sinceOne = 15 * d.lastGap,
                       !.oneMinusOne = 24 * d.lastGap]
        [] OTHER -> [s EXCEPT !.toothCurrentCount = 1]

triggerPri_HondaJ32 ==
  d' = IF Full THEN inSync_HondaJ32(d.sinceTooth) ELSE unsynced_HondaJ32(d.sinceTooth)

\* What SetRevolutionTime was last given: nothing before the first tooth 1.
getRPM_HondaJ32 ==
  IF d.startRevolutions = 0 \/ d.oneMinusOne >= Never THEN 0 ELSE d.oneMinusOne

getCrankAngle_HondaJ32 ==
  CASE d.toothCurrentCount = 14 -> 213
    [] d.toothCurrentCount = 22 -> 333
    [] OTHER -> d.triggerToothAngle * d.toothCurrentCount

-----------------------------------------------------------------------------
(* Daihatsu: a tooth a cylinder and an extra one 30 degrees after tooth 1. *)

toothAngles_Daihatsu(cylinders) ==
  IF cylinders = 3 THEN <<0, 30, 240, 480>> ELSE <<0, 30, 180, 360, 540>>

Wheel_Daihatsu(cylinders) == Teeth(toothAngles_Daihatsu(cylinders))

triggerSetup_Daihatsu(cylinders, s) ==
  [sharedDecoderReset(s) EXCEPT !.triggerToothAngle = 720 \div (cylinders + 1),
                                !.triggerFilterTime = FilterAtMaxRPM]

\* The filter time is computed and not used.  Three seen teeth are enough.
triggerPri_Daihatsu(cylinders) ==
  LET s == [LastTooth(d) EXCEPT !.toothSystemCount = IF @ < 3 THEN @ + 1 ELSE @]
      targetTime == IF cylinders = 3 THEN d.minusOne \div 4 ELSE (d.minusOne * 3) \div 8
  IN  d' = CASE Full /\ d.toothCurrentCount = cylinders + 1 ->
                  [ToothOne(s) EXCEPT !.toothCurrentCount = 1]
             [] Full /\ d.toothCurrentCount # cylinders + 1 ->
                  [s EXCEPT !.toothCurrentCount = Counted,
                            !.triggerFilterTime = setFilter(d.sinceTooth)]
             [] ~Full /\ s.toothSystemCount >= 3 /\ d.sinceTooth < targetTime ->
                  [s EXCEPT !.toothCurrentCount = 2,
                            !.syncStatus = "Full",
                            !.triggerFilterTime = targetTime]
             [] OTHER -> s

getRPM_Daihatsu(slow) == stdRevolutionTime(TRUE, slow)

getCrankAngle_Daihatsu(cylinders) ==
  LET angles == toothAngles_Daihatsu(cylinders)
  IN  IF d.toothCurrentCount \in 1..Len(angles) THEN angles[d.toothCurrentCount] ELSE 0

-----------------------------------------------------------------------------
(* Harley: two teeth, 157 degrees apart; the longer gap ends at tooth 1.   *)

Wheel_Harley == Teeth(<<0, 157>>)

triggerSetup_Harley(s) ==
  [sharedDecoderReset(s) EXCEPT !.triggerToothAngle = 0,
                                !.sinceTooth = Never - 1,
                                !.triggerFilterTime = FilterAtMaxRPM]

\* The filter is set from this very gap before the gap is compared with it.
triggerPri_Harley(e) ==
  LET gap == d.sinceTooth
      s == [d EXCEPT !.lastGap = d.curGap, !.curGap = gap,
                     !.triggerFilterTime = setFilter(gap)]
      t == [LastTooth(s) EXCEPT
              !.startRevolutions = IF @ < RevolutionsMax THEN @ + 1 ELSE @]
  IN  \/ gap <= setFilter(gap) /\ d' = s
      \/ /\ gap > setFilter(gap) /\ e.priHigh /\ gap > d.curGap
         /\ d' = [t EXCEPT !.toothCurrentCount = 1, !.triggerToothAngle = 0,
                           !.oneMinusOne = d.sinceOne, !.sinceOne = 0,
                           !.syncStatus = "Full"]
      \/ /\ gap > setFilter(gap) /\ e.priHigh /\ gap <= d.curGap
         /\ d' = [t EXCEPT !.toothCurrentCount = 2, !.triggerToothAngle = 157]
      \/ /\ gap > setFilter(gap) /\ ~e.priHigh
         /\ d' = [s EXCEPT !.syncStatus = "None", !.toothCurrentCount = 0]

\* While cranking the revolution time is set from tooth 1 too.
getRPM_Harley(slow) ==
  IF ~Full THEN 0
  ELSE IF slow THEN (IF ~TwoTeethSeen \/ d.oneMinusOne >= Never THEN 0 ELSE d.oneMinusOne)
       ELSE stdRevolutionTime(FALSE, slow)

getCrankAngle_Harley == IF d.toothCurrentCount \in {1, 3} THEN 0 ELSE 157

-----------------------------------------------------------------------------
(* 36 slots with groups of two teeth missing: slot n is at 10 (n - 1).     *)

slots(present) == Teeth([i \in 1..Len(present) |-> 10 * (present[i] - 1)])
from(a, b) == [i \in 1..(b - a + 1) |-> a + i - 1]

\* Two missing, one present, two missing; and two missing elsewhere.
Wheel_ThirtySixMinus222(cylinders) ==
  IF cylinders = 4 THEN slots(from(1, 13) \o <<16>> \o from(19, 31) \o from(34, 36))
                   ELSE slots(from(1, 6) \o <<9>> \o from(12, 30) \o from(33, 36))

triggerSetup_ThirtySixMinus222(s) ==
  [sharedDecoderReset(s) EXCEPT !.triggerToothAngle = 10,
                                !.triggerFilterTime = FilterAtMaxRPM,
                                !.minusOne = Never,
                                !.toothCurrentCount = 0,
                                !.sinceOne = Never,
                                !.oneMinusOne = Never]

\* toothSystemCount is one after a long gap: another one, or none, tells which.
triggerPri_ThirtySixMinus222(cylinders) ==
  LET first == d.toothSystemCount = 0
      targetGap == IF first THEN (IF d.minusOne >= Never THEN Never ELSE 2 * d.minusOne)
                            ELSE d.targetGap
      gap == IF TwoTeethSeen THEN d.sinceTooth ELSE 0
      long == gap > targetGap
      s == [LastTooth(d) EXCEPT !.toothCurrentCount = Counted, !.targetGap = targetGap]
      t == [s EXCEPT !.toothAngleIsCorrect = FALSE, !.triggerFilterTime = 0]
      u == [s EXCEPT !.toothAngleIsCorrect = TRUE, !.toothSystemCount = 0,
                     !.triggerFilterTime = setFilter(gap)]
  IN  \/ d.sinceTooth < d.triggerFilterTime /\ UNCHANGED d
      \/ /\ d.sinceTooth >= d.triggerFilterTime /\ long
         /\ d' = IF first
                 THEN [t EXCEPT !.toothSystemCount = 1, !.toothCurrentCount = Counted + 2]
                 ELSE [t EXCEPT !.toothSystemCount = 0, !.syncStatus = "Full",
                                !.toothCurrentCount = IF cylinders = 4 THEN 19 ELSE 12]
      \/ /\ d.sinceTooth >= d.triggerFilterTime /\ ~long
         /\ d' = CASE Counted > 36 ->
                        [ToothOne(u) EXCEPT !.toothCurrentCount = 1, !.revolutionOne = ~@]
                   [] Counted <= 36 /\ ~first ->
                        [u EXCEPT !.toothCurrentCount = IF cylinders = 4 THEN 35 ELSE 34,
                                  !.syncStatus = "Full"]
                   [] OTHER -> u

getRPM_ThirtySixMinus222(cylinders, slow) ==
  IF ~slow THEN stdRevolutionTime(FALSE, slow)
  ELSE IF /\ d.toothCurrentCount \notin (IF cylinders = 4 THEN {19, 16, 34} ELSE {9, 12, 33})
          /\ d.toothAngleIsCorrect
       THEN crankingRevolutionTime(36, FALSE) ELSE 0

\* getCrankAngle_missingTooth.
getCrankAngle_slots ==
  (d.toothCurrentCount - 1) * d.triggerToothAngle + (IF d.revolutionOne THEN 360 ELSE 0)

\* Channel 1, 2 and, with six cylinders, 3.
endTeeth_ThirtySixMinus222(cylinders, advance) ==
  LET late == CASE advance < 10 -> 36 [] advance \in 10..19 -> 35
                [] advance \in 20..29 -> 34
                [] cylinders = 6 /\ advance \in 30..39 -> 33 [] OTHER -> 31
  IN  IF cylinders = 4 THEN <<late, IF advance < 30 THEN 16 ELSE 13>>
      ELSE <<late, IF advance < 20 THEN 9 ELSE 6,
             CASE advance < 10 -> 23 [] advance \in 10..19 -> 22
               [] advance \in 20..29 -> 21 [] advance \in 30..39 -> 20 [] OTHER -> 19>>

-----------------------------------------------------------------------------
(* 36-2-1: slot 19 missing, and slots 35 and 36.                           *)

Wheel_ThirtySixMinus21 == slots(from(1, 18) \o from(20, 34))

triggerSetup_ThirtySixMinus21(s) ==
  [sharedDecoderReset(s) EXCEPT !.triggerToothAngle = 10,
                                !.triggerFilterTime = FilterAtMaxRPM,
                                !.minusOne = Never,
                                !.toothCurrentCount = 0,
                                !.sinceOne = Never,
                                !.oneMinusOne = Never]

\* The branch for teeth with no gap hangs on the filter's condition: a pulse that
\* passes the filter never ends a revolution, and one that does not is a tooth.
triggerPri_ThirtySixMinus21 ==
  LET gap == IF TwoTeethSeen THEN d.sinceTooth ELSE 0
      targetGap2 == 3 * d.minusOne
      s == [LastTooth(d) EXCEPT !.toothCurrentCount = Counted]
      t == [LastTooth(d) EXCEPT !.triggerFilterTime = setFilter(d.sinceTooth),
                                !.toothAngleIsCorrect = TRUE]
  IN  \/ /\ d.sinceTooth >= d.triggerFilterTime
         /\ d' = IF gap <= targetGap2 \div 2 THEN s
                 ELSE [s EXCEPT !.toothCurrentCount = IF gap < targetGap2 THEN 20 ELSE 1,
                                !.syncStatus = "Full",
                                !.toothAngleIsCorrect = FALSE,
                                !.triggerFilterTime = 0]
      \/ /\ d.sinceTooth < d.triggerFilterTime
         /\ d' = IF d.toothCurrentCount > 36 \/ d.toothCurrentCount = 1
                 THEN [ToothOne(t) EXCEPT !.toothCurrentCount = 1, !.revolutionOne = ~@]
                 ELSE t

getRPM_ThirtySixMinus21(slow) ==
  IF ~slow THEN stdRevolutionTime(FALSE, slow)
  ELSE IF d.toothCurrentCount # 20 /\ d.toothAngleIsCorrect
       THEN crankingRevolutionTime(36, FALSE) ELSE 0

endTeeth_ThirtySixMinus21 == <<10, 28>>
=============================================================================
