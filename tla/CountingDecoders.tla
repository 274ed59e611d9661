-------------------------- MODULE CountingDecoders --------------------------
(***************************************************************************)
(* Decoders that count evenly spaced teeth, or look their angles up, from  *)
(* a reference on the other line: dual wheels (also those that do not      *)
(* divide 360), Webber and DRZ400, distributors, GM 24X, Jeep 2000 and     *)
(* Audi 135.                                                               *)
(***************************************************************************)
EXTENDS DecoderState

\* configPage4.triggerTeeth, configPage4.TrigAngMul, configPage2.nCylinders: the
\* smallest wheels on which teeth and cylinders differ.
triggerTeeth == 4
non360Teeth == 5
TrigAngMul == 2
nCylinders == 4

-----------------------------------------------------------------------------
(* Dual wheel.  The cam tooth comes before tooth 1 of the first turn.      *)

Wheel_DualWheel ==
  Append(Teeth(<<0, 90, 180, 270, 360, 450, 540, 630>>), Sec(675))

triggerSetup_DualWheel(s) ==
  [sharedDecoderReset(s) EXCEPT !.triggerToothAngle = 360 \div triggerTeeth,
                                !.toothCurrentCount = 255,
                                !.triggerFilterTime = FilterAtMaxRPM,
                                !.triggerSecFilterTime = FilterAtMaxRPM,
                                !.toothAngleIsCorrect = TRUE]

triggerPri_DualWheel(teeth) ==
  \/ /\ d.sinceTooth < d.triggerFilterTime
     /\ UNCHANGED d
  \/ /\ d.sinceTooth >= d.triggerFilterTime
     /\ ~Full
     /\ d' = [LastTooth(d) EXCEPT !.toothCurrentCount = Counted]
  \/ /\ d.sinceTooth >= d.triggerFilterTime
     /\ Full
     /\ LET s == [LastTooth(d) EXCEPT !.triggerFilterTime = setFilter(d.sinceTooth)]
        IN  d' = IF Counted = 1 \/ Counted > teeth
                 THEN [ToothOne(s) EXCEPT !.toothCurrentCount = 1,
                                          !.revolutionOne = ~@]
                 ELSE [s EXCEPT !.toothCurrentCount = Counted]

\* The main loop's revolution time, once it has one, to keep the filter in step.
triggerSec_DualWheel(teeth, revolutionTime) ==
  IF d.sinceSec < d.triggerSecFilterTime
  THEN d' = [d EXCEPT !.triggerSecFilterTime = revolutionTime \div 2]
  ELSE LET s == [d EXCEPT !.sinceSec = 0,
                          !.triggerSecFilterTime = d.sinceSec \div 4,
                          !.revolutionOne = TRUE]
       IN  d' = IF ~Full \/ d.startRevolutions <= StgCycles
                THEN [s EXCEPT !.sinceTooth = 0,
                               !.minusOne = Never,     \* stands for ten RPM
                               !.toothCurrentCount = teeth,
                               !.triggerFilterTime = 0,
                               !.syncStatus = "Full"]
                ELSE IF useResync THEN [s EXCEPT !.toothCurrentCount = teeth] ELSE s

getRPM_DualWheel(teeth, slow) ==
  IF ~Full THEN 0
  ELSE IF slow THEN crankingRevolutionTime(teeth, FALSE)
       ELSE stdRevolutionTime(FALSE, slow)

\* The angle at the last tooth, as the other getCrankAngle here: what passed since
\* is added from the speed.
getCrankAngle_DualWheel(teeth) ==
  LET n == IF d.toothCurrentCount = 0 THEN teeth ELSE d.toothCurrentCount
  IN  (n - 1) * d.triggerToothAngle + (IF d.revolutionOne THEN 360 ELSE 0)

\* Mutant: the tooth after the spark, not the one before.
MutantCalcEndTeeth_DualWheel(dischargeAngle) ==
  clampToToothCount(Quotient(dischargeAngle, 360 \div triggerTeeth) + 1,
                    IF sequential THEN 2 * triggerTeeth ELSE triggerTeeth)

\* The last tooth at or before the angle; the first is at 0, so that is a tooth earlier.
calcEndTeeth_DualWheel(dischargeAngle) ==
  clampToToothCount(Quotient(dischargeAngle, 360 \div triggerTeeth),
                    IF sequential THEN 2 * triggerTeeth ELSE triggerTeeth)

-----------------------------------------------------------------------------
(* Non-360: the handlers of the dual wheel, angles multiplied first.       *)

Wheel_non360 ==
  Append(Teeth(<<0, 72, 144, 216, 288, 360, 432, 504, 576, 648>>), Sec(684))

triggerSetup_non360(s) ==
  [sharedDecoderReset(s) EXCEPT
     !.triggerToothAngle = (360 * TrigAngMul) \div non360Teeth,
     !.toothCurrentCount = 255,
     !.triggerFilterTime = FilterAtMaxRPM,
     !.triggerSecFilterTime = FilterAtMaxRPM]

getRPM_non360(slow) ==
  IF ~Full \/ d.toothCurrentCount = 0 THEN 0
  ELSE IF slow THEN crankingRevolutionTime(non360Teeth, FALSE)
       ELSE stdRevolutionTime(FALSE, slow)

getCrankAngle_non360 ==
  LET n == IF d.toothCurrentCount = 0 THEN non360Teeth ELSE d.toothCurrentCount
  IN  ((n - 1) * d.triggerToothAngle) \div TrigAngMul

-----------------------------------------------------------------------------
(* DRZ400: the dual wheel's primary; its secondary starts turn one again.  *)

\* A wheel of six teeth: the secondary sets the count to six, whatever triggerTeeth is.
drzTeeth == 6
Wheel_DRZ400 == Append(Teeth(<<0, 60, 120, 180, 240, 300>>), Sec(330))

triggerSetup_DRZ400(s) ==
  [sharedDecoderReset(s) EXCEPT !.triggerToothAngle = 360 \div drzTeeth,
                                !.toothCurrentCount = 255,
                                !.triggerFilterTime = FilterAtMaxRPM,
                                !.triggerSecFilterTime = FilterAtMaxRPM,
                                !.toothAngleIsCorrect = TRUE]

triggerSec_DRZ400 ==
  LET s == [d EXCEPT !.triggerSecFilterTime = d.oneMinusOne \div 2]
      t == [s EXCEPT !.sinceSec = 0]
  IN  \/ d.sinceSec < d.triggerSecFilterTime /\ d' = s
      \/ /\ d.sinceSec >= d.triggerSecFilterTime
         /\ d' = IF Full THEN [t EXCEPT !.toothCurrentCount = 6]
                 ELSE [t EXCEPT !.sinceTooth = 0,
                                !.minusOne = Never,     \* stands for ten RPM
                                !.toothCurrentCount = drzTeeth,
                                !.syncStatus = "Full"]

-----------------------------------------------------------------------------
(* Webber: a dual wheel with two cam teeth, after tooth 1 and after tooth  *)
(* 3 of the second turn.                                                   *)

Wheel_Webber ==
  Teeth(<<0, 90, 180, 270, 360>>) \o <<Sec(405)>> \o Teeth(<<450, 540>>)
  \o <<Sec(585)>> \o Teeth(<<630>>)

oneAndAHalf(gap) == gap + gap \div 2

\* checkSyncToothCount counts the crank teeth since the cam tooth, itself one.
triggerPri_Webber ==
  LET check == IF d.checkSyncToothCount \in 1..8 THEN d.checkSyncToothCount + 1
               ELSE d.checkSyncToothCount
      s == [LastTooth(d) EXCEPT
              !.curGap = d.sinceTooth,
              !.toothCurrentCount = Counted,
              !.checkSyncToothCount = check,
              !.triggerSecFilterTime =
                 IF @ <= d.sinceTooth THEN oneAndAHalf(d.sinceTooth) ELSE @]
  IN  \/ d.sinceTooth < d.triggerFilterTime /\ d' = [d EXCEPT !.curGap = d.sinceTooth]
      \/ /\ d.sinceTooth >= d.triggerFilterTime
         /\ d' = CASE Full ->
                        [(IF Counted = 1 \/ Counted > triggerTeeth
                          THEN [ToothOne(s) EXCEPT !.toothCurrentCount = 1,
                                                   !.revolutionOne = ~@]
                          ELSE s)
                         EXCEPT !.triggerFilterTime = setFilter(d.sinceTooth)]
                   [] ~Full /\ d.secondaryToothCount = 1 /\ check = 4 ->
                        [s EXCEPT !.toothCurrentCount = 2,
                                  !.syncStatus = "Full",
                                  !.revolutionOne = FALSE]
                   [] OTHER -> s

\* The count of cam teeth matters up to three.
triggerSec_Webber ==
  LET s == [d EXCEPT !.sinceSec = 0]
      second == d.secondaryToothCount = 2 /\ d.checkSyncToothCount = 3
      first == ~Full /\ d.toothCurrentCount >= 3 /\ d.secondaryToothCount = 0
      atTooth(t, n) == [t EXCEPT !.sinceTooth = 0,
                                 !.minusOne = Never,     \* stands for ten RPM
                                 !.toothCurrentCount = n,
                                 !.syncStatus = "Full"]
  IN  \/ /\ d.sinceSec < d.triggerSecFilterTime
         /\ d' = [d EXCEPT !.triggerSecFilterTime = oneAndAHalf(d.curGap),
                           !.checkSyncToothCount = 1]
      \/ /\ d.sinceSec >= d.triggerSecFilterTime
         /\ d' = CASE second ->
                        [(CASE ~Full -> atTooth(s, triggerTeeth - 1)
                            [] Full /\ useResync ->
                                 [s EXCEPT !.toothCurrentCount = triggerTeeth - 1]
                            [] OTHER -> s)
                         EXCEPT !.revolutionOne = TRUE,
                                !.triggerSecFilterTime = 4 * d.curGap,
                                !.secondaryToothCount = 1]
                   [] ~second /\ first -> [atTooth(s, 1) EXCEPT !.revolutionOne = TRUE]
                   [] OTHER ->
                        [s EXCEPT !.triggerSecFilterTime = oneAndAHalf(d.curGap),
                                  !.secondaryToothCount = IF @ < 3 THEN @ + 1 ELSE @,
                                  !.checkSyncToothCount = 1]

-----------------------------------------------------------------------------
(* Basic distributor: one tooth a cylinder at cam speed, and no reference. *)

Wheel_BasicDistributor == Teeth(<<0, 180, 360, 540>>)

triggerSetup_BasicDistributor(s) ==
  [sharedDecoderReset(s) EXCEPT !.triggerToothAngle = 720 \div nCylinders,
                                !.toothCurrentCount = 0,
                                !.toothAngleIsCorrect = TRUE]

triggerPri_BasicDistributor ==
  \/ /\ d.sinceTooth < d.triggerFilterTime
     /\ UNCHANGED d
  \/ /\ d.sinceTooth >= d.triggerFilterTime
     /\ LET s == [LastTooth(d) EXCEPT
                    !.triggerFilterTime = IF Full THEN setFilter(d.sinceTooth) ELSE 0]
        IN  \/ /\ d.toothCurrentCount = nCylinders \/ ~Full
               /\ d' = [ToothOne(s) EXCEPT !.toothCurrentCount = 1, !.syncStatus = "Full"]
            \/ /\ d.toothCurrentCount < nCylinders /\ Full
               /\ d' = [s EXCEPT !.toothCurrentCount = @ + 1]
            \/ /\ d.toothCurrentCount > nCylinders /\ Full
               /\ d' = [s EXCEPT !.syncStatus = "None"]

\* currentStatus.RPM < crankRPM or < 1500 counts as slow here.
getRPM_BasicDistributor(slow) ==
  IF slow THEN crankingRevolutionTime(nCylinders, TRUE) ELSE stdRevolutionTime(TRUE, slow)

getCrankAngle_BasicDistributor == (d.toothCurrentCount - 1) * d.triggerToothAngle

\* triggerSetEndTeeth_BasicDistributor for four cylinders, channel 1.
endTooth_BasicDistributor(endAngle) == IF endAngle > 180 \/ endAngle <= 0 THEN 2 ELSE 1

-----------------------------------------------------------------------------
(* GM 24X: both edges of the cam's half moon say that tooth 1 is next.     *)

toothAngles_24X ==
  <<12, 18, 33, 48, 63, 78, 102, 108, 123, 138, 162, 177,
    183, 198, 222, 237, 252, 258, 282, 288, 312, 327, 342, 357>>

Wheel_24X == <<Sec(0)>> \o Teeth(toothAngles_24X)

\* 25 means no sync yet.  It is not set again after a stall, nor by the decoder's reset.
triggerSetup_24X(s) ==
  [sharedDecoderReset(s) EXCEPT !.triggerToothAngle = 15,
                                !.toothAngleIsCorrect = TRUE,
                                !.toothCurrentCount = 25,
                                !.sinceTooth = Never - 1]

\* toothAngles has 24 entries: what lies beyond is not part of any angle that is used.
toothStep(angles) ==
  IF Counted \in 2..Len(angles) THEN angles[Counted] - angles[Counted - 1] ELSE 0

triggerPri_24X ==
  \/ /\ d.toothCurrentCount = 25
     /\ d' = [d EXCEPT !.syncStatus = "None"]
  \/ /\ d.toothCurrentCount = 0
     /\ d' = [ToothOne(d) EXCEPT !.toothCurrentCount = 1,
                                 !.revolutionOne = ~@,
                                 !.syncStatus = "Full",
                                 !.triggerToothAngle = 15,
                                 !.sinceTooth = 0]
  \/ /\ d.toothCurrentCount \notin {0, 25}
     /\ d' = [d EXCEPT !.toothCurrentCount = Counted,
                       !.triggerToothAngle = toothStep(toothAngles_24X),
                       !.sinceTooth = 0]

triggerSec_24X == d' = [d EXCEPT !.toothCurrentCount = 0, !.revolutionOne = TRUE]

getCrankAngle_24X ==
  (IF d.toothCurrentCount \in 1..24 THEN toothAngles_24X[d.toothCurrentCount] ELSE 0)
  + (IF d.revolutionOne THEN 360 ELSE 0)

-----------------------------------------------------------------------------
(* Jeep 2000: groups of four teeth, the cam again marks each revolution.   *)

toothAngles_Jeep2000 == <<174, 194, 214, 234, 294, 314, 334, 354, 414, 434, 454, 474>>

Wheel_Jeep2000 == Append(Teeth(toothAngles_Jeep2000), Sec(510))

triggerSetup_Jeep2000(s) ==
  [sharedDecoderReset(s) EXCEPT !.triggerToothAngle = 0,
                                !.toothAngleIsCorrect = TRUE,
                                !.toothCurrentCount = 13,
                                !.sinceTooth = Never - 1]

triggerPri_Jeep2000 ==
  \/ /\ d.toothCurrentCount = 13
     /\ d' = [d EXCEPT !.syncStatus = "None"]
  \/ /\ d.toothCurrentCount # 13
     /\ d.sinceTooth < d.triggerFilterTime
     /\ UNCHANGED d
  \/ /\ d.toothCurrentCount # 13
     /\ d.sinceTooth >= d.triggerFilterTime
     /\ LET s == [LastTooth(d) EXCEPT !.triggerFilterTime = setFilter(d.sinceTooth)]
        IN  d' = IF d.toothCurrentCount = 0
                 THEN [ToothOne(s) EXCEPT !.toothCurrentCount = 1,
                                          !.syncStatus = "Full",
                                          !.triggerToothAngle = 60]
                 ELSE [s EXCEPT !.toothCurrentCount = Counted,
                                !.triggerToothAngle = toothStep(toothAngles_Jeep2000)]

triggerSec_Jeep2000 == d' = [d EXCEPT !.toothCurrentCount = 0]

getCrankAngle_Jeep2000 ==
  IF d.toothCurrentCount \in 1..12 THEN toothAngles_Jeep2000[d.toothCurrentCount] ELSE 114

-----------------------------------------------------------------------------
(* Audi 135: only every third of the 135 teeth counts.  Angles of this     *)
(* wheel are in thirds of a degree.                                        *)

Wheel_Audi135 == Append([i \in 1..270 |-> Pri(8 * (i - 1))], Sec(2156))

triggerSetup_Audi135(s) ==
  [sharedDecoderReset(s) EXCEPT !.triggerToothAngle = 8,
                                !.toothCurrentCount = 255,
                                !.triggerFilterTime = FilterAtMaxRPM,
                                !.triggerSecFilterTime = FilterAtMaxRPM,
                                !.toothAngleIsCorrect = TRUE]

triggerPri_Audi135 ==
  LET passes == d.sinceSystem > d.triggerFilterTime \/ d.startRevolutions = 0
      third  == d.toothSystemCount + 1 >= 3
      s == [LastTooth(d) EXCEPT !.sinceSystem = 0,
                                !.toothSystemCount = 0,
                                !.triggerFilterTime = setFilter(d.sinceSystem)]
  IN  \/ /\ ~passes
         /\ UNCHANGED d
      \/ /\ passes
         /\ ~Full
         /\ d' = [d EXCEPT !.toothSystemCount = IF @ < 3 THEN @ + 1 ELSE @,
                           !.sinceTooth = 0]
      \/ /\ passes
         /\ Full /\ ~third
         /\ d' = [d EXCEPT !.toothSystemCount = @ + 1]
      \/ /\ passes
         /\ Full /\ third
         /\ d' = IF Counted = 1 \/ Counted > 45
                 THEN [ToothOne(s) EXCEPT !.toothCurrentCount = 1, !.revolutionOne = ~@]
                 ELSE [s EXCEPT !.toothCurrentCount = Counted]

\* startRevolutions < 100 holds here: RevolutionsMax is the bound.
triggerSec_Audi135 ==
  d' = IF ~Full \/ useResync
       THEN [d EXCEPT !.toothCurrentCount = 0,
                      !.syncStatus = "Full",
                      !.toothSystemCount = 3,
                      !.revolutionOne = TRUE]
       ELSE [d EXCEPT !.toothCurrentCount = IF @ # 45 THEN 0 ELSE @,
                      !.revolutionOne = TRUE]

getCrankAngle_Audi135 ==
  LET n == IF d.toothCurrentCount = 0 THEN 45 ELSE d.toothCurrentCount
  IN  (n - 1) * d.triggerToothAngle + (IF d.revolutionOne THEN 360 ELSE 0)
=============================================================================
