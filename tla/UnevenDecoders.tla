--------------------------- MODULE UnevenDecoders ---------------------------
(***************************************************************************)
(* Decoders of wheels whose teeth are not evenly spaced and whose position *)
(* comes from a cam line: 4G63, Miata 99-05, Mazda AU, Subaru 6/7, Nissan  *)
(* 360 and DSM 420a.  An edge e says what both lines read after it.  Two   *)
(* effects on the outputs are left out: the forced end of a charge while   *)
(* cranking (ignCranklock) and checkPerToothTiming.                        *)
(***************************************************************************)
EXTENDS DecoderState

\* toothAngles[toothCurrentCount - 1], zero where nothing was written.
angleAt(toothAngles, n) == IF n \in 1..Len(toothAngles) THEN toothAngles[n] ELSE 0

\* The next tooth on a wheel of so many: tooth 1 starts a cycle.
NextOf(teeth, s) ==
  IF Counted = 1 \/ Counted > teeth
  THEN [ToothOne(s) EXCEPT !.toothCurrentCount = 1]
  ELSE [s EXCEPT !.toothCurrentCount = Counted]

\* What part of the last gap, in 32ths, becomes the filter time after an odd and
\* after an even tooth, with four cylinders or with six.
shareOfGap(cylinders, level) ==
  CASE level = 1 -> IF cylinders = 4 THEN <<32, 12>> ELSE <<8, 16>>
    [] level = 2 -> IF cylinders = 4 THEN <<40, 16>> ELSE <<16, 24>>
    [] level = 3 -> IF cylinders = 4 THEN <<44, 9>> ELSE <<16, 32>>
    [] OTHER -> <<0, 0>>

filterAfter(cylinders, tooth, gap, slow) ==
  LET share == shareOfGap(cylinders, IF slow THEN 1 ELSE triggerFilter)
  IN  (gap * share[2 - (tooth % 2)]) \div 32

-----------------------------------------------------------------------------
(* Mitsubishi 4G63: both edges of the crank teeth, the falling cam.        *)

toothAngles_4G63(cylinders) ==
  IF cylinders = 6 THEN <<715, 45, 115, 165, 235, 285, 355, 405, 475, 525, 595, 645>>
                   ELSE <<715, 105, 175, 285, 355, 465, 535, 645>>

\* The cam of four cylinders is high from 230 to 410 and from 590 to 680.
Wheel_4G63_4 ==
  <<Edge(105, "pri", TRUE, FALSE),  Edge(175, "pri", FALSE, FALSE),
    Edge(285, "pri", TRUE, TRUE),   Edge(355, "pri", FALSE, TRUE),
    Edge(410, "sec", FALSE, FALSE), Edge(465, "pri", TRUE, FALSE),
    Edge(535, "pri", FALSE, FALSE), Edge(645, "pri", TRUE, TRUE),
    Edge(680, "sec", TRUE, FALSE),  Edge(715, "pri", FALSE, FALSE)>>

\* The cam of six is high around 0 and around 360.
Wheel_4G63_6 ==
  <<Edge(45, "pri", FALSE, TRUE),   Edge(80, "sec", FALSE, FALSE),
    Edge(115, "pri", TRUE, FALSE),  Edge(165, "pri", FALSE, FALSE),
    Edge(235, "pri", TRUE, FALSE),  Edge(285, "pri", FALSE, FALSE),
    Edge(355, "pri", TRUE, TRUE),   Edge(380, "sec", TRUE, FALSE),
    Edge(405, "pri", FALSE, FALSE), Edge(475, "pri", TRUE, FALSE),
    Edge(525, "pri", FALSE, FALSE), Edge(595, "pri", TRUE, FALSE),
    Edge(645, "pri", FALSE, FALSE), Edge(715, "pri", TRUE, TRUE)>>

triggerSetup_4G63(s) ==
  [sharedDecoderReset(s) EXCEPT !.triggerToothAngle = 180,
                                !.toothCurrentCount = 99,
                                !.toothAngleIsCorrect = TRUE,
                                !.sinceTooth = Never - 1,
                                !.triggerFilterTime = FilterAtMaxRPM,
                                !.triggerSecFilterTime = FilterAtMaxRPM]

\* slow: currentStatus.RPM < 1400.
triggerPri_4G63(cylinders, e, slow) ==
  LET gap == d.sinceTooth
      passes == gap >= d.triggerFilterTime \/ d.startRevolutions = 0
      s == NextOf(2 * cylinders, LastTooth(d))
      t == [s EXCEPT !.triggerFilterTime = gap \div 4, !.triggerSecFilterTime = 0]
      odd == s.toothCurrentCount % 2 = 1
  IN  \/ ~passes /\ UNCHANGED d
      \/ /\ passes /\ Full
         /\ d' = [s EXCEPT
                    !.triggerToothAngle =
                       IF odd THEN 70 ELSE IF cylinders = 4 THEN 110 ELSE 50,
                    !.triggerFilterTime =
                       filterAfter(cylinders, s.toothCurrentCount, gap, slow)]
      \/ /\ passes /\ ~Full /\ e.priHigh
         /\ d' = [t EXCEPT !.revolutionOne = e.secHigh]
      \/ /\ passes /\ ~Full /\ ~e.priHigh
         /\ d' = CASE d.revolutionOne /\ cylinders = 4 ->
                        [t EXCEPT !.toothCurrentCount = IF e.secHigh THEN 5 ELSE 1]
                   [] d.revolutionOne /\ cylinders = 6 /\ e.secHigh ->
                        [t EXCEPT !.toothCurrentCount = 2, !.syncStatus = "Full"]
                   [] OTHER -> t

\* The cam falls after this many crank edges.
camTooth_4G63(cylinders, e) ==
  IF cylinders = 4 THEN (IF e.priHigh THEN 8 ELSE 5)
                   ELSE (IF e.priHigh THEN 7 ELSE 0)

\* slow: currentStatus.RPM < currentStatus.crankRPM.
triggerSec_4G63(cylinders, e, slow) ==
  LET fits == d.toothCurrentCount = camTooth_4G63(cylinders, e) /\ d.toothCurrentCount > 0
      s == [d EXCEPT !.sinceSec = 0, !.triggerSecFilterTime = d.sinceSec \div 2]
      t == IF Full THEN s
           ELSE [s EXCEPT !.triggerFilterTime = FilterAtMaxRPM,
                          !.triggerSecFilterTime = d.sinceSec \div 4,
                          !.syncStatus = IF fits THEN "Full" ELSE @]
      noise == /\ slow \/ useResync
               /\ t.syncStatus = "Full" /\ cylinders = 4
               /\ e.priHigh /\ d.toothCurrentCount # 8
  IN  \/ d.sinceSec < d.triggerSecFilterTime /\ UNCHANGED d
      \/ /\ d.sinceSec >= d.triggerSecFilterTime
         /\ d' = IF noise THEN [t EXCEPT !.syncStatus = "None"] ELSE t

getRPM_4G63(slow) ==
  IF ~Full THEN 0
  ELSE IF slow THEN toothRevolutionTime ELSE stdRevolutionTime(TRUE, slow)

getCrankAngle_4G63(cylinders) ==
  IF Full THEN angleAt(toothAngles_4G63(cylinders), d.toothCurrentCount) ELSE 0

\* triggerSetEndTeeth_4G63; six cylinders are never sequential.
endTeeth_4G63(cylinders) ==
  CASE cylinders = 4 /\ sequential -> <<8, 2, 4, 6>>
    [] cylinders = 4 /\ ~sequential -> <<4, 2>>
    [] OTHER -> <<6, 2, 4>>

-----------------------------------------------------------------------------
(* Miata 99-05: two cam pulses before tooth 6, one before tooth 2.         *)

toothAngles_Miata9905 == <<710, 100, 170, 280, 350, 460, 530, 640>>

Wheel_Miata9905 ==
  <<Sec(40), Pri(100), Pri(170), Pri(280), Pri(350), Sec(390), Sec(420),
    Pri(460), Pri(530), Pri(640), Pri(710)>>

triggerSetup_Miata9905(s) ==
  [sharedDecoderReset(s) EXCEPT !.triggerToothAngle = 90,
                                !.toothCurrentCount = 99,
                                !.sinceTooth = Never - 1,
                                !.minusOne = Never,
                                !.triggerFilterTime = FilterAtMaxRPM,
                                !.triggerSecFilterTime = 0,
                                !.toothAngleIsCorrect = TRUE]

triggerPri_Miata9905(slow) ==
  LET gap == d.sinceTooth
      double == d.secondaryToothCount = 2 /\ (~Full \/ useResync)
      s == CASE Counted = 9 -> [ToothOne(d) EXCEPT !.toothCurrentCount = 1]
             [] Counted # 9 /\ double -> [d EXCEPT !.toothCurrentCount = 6,
                                                   !.syncStatus = "Full"]
             [] OTHER -> [d EXCEPT !.toothCurrentCount = Counted]
      t == IF s.syncStatus = "Full"
           THEN [s EXCEPT !.triggerToothAngle = IF s.toothCurrentCount % 2 = 1 THEN 70 ELSE 110,
                          !.triggerFilterTime = filterAfter(4, s.toothCurrentCount, gap, slow)]
           ELSE s
  IN  \/ gap < d.triggerFilterTime /\ d.startRevolutions # 0 /\ UNCHANGED d
      \/ /\ gap >= d.triggerFilterTime \/ d.startRevolutions = 0
         /\ d' = [LastTooth(t) EXCEPT !.secondaryToothCount = 0]

\* slow stands for rotationStatus Cranking.
triggerSec_Miata9905(slow) ==
  LET s == IF slow \/ ~Full THEN [d EXCEPT !.triggerFilterTime = FilterAtMaxRPM] ELSE d
  IN  d' = IF d.sinceSec >= d.triggerSecFilterTime
           THEN [s EXCEPT !.sinceSec = 0, !.lastGap = d.sinceSec, !.secondaryToothCount = @ + 1]
           ELSE s

getRPM_Miata9905(slow) ==
  IF slow /\ Full THEN toothRevolutionTime ELSE stdRevolutionTime(TRUE, slow)

getCrankAngle_Miata9905 == angleAt(toothAngles_Miata9905, d.toothCurrentCount)

\* triggerSetEndTeeth_Miata9905; with no advance what was there before stays.
endTeeth_Miata9905(advance) ==
  CASE advance >= 10 -> IF sequential THEN <<8, 2, 4, 6>> ELSE <<4, 2>>
    [] advance \in 1..9 -> IF sequential THEN <<1, 3, 5, 7>> ELSE <<1, 3>>
    [] OTHER -> <<>>

-----------------------------------------------------------------------------
(* Mazda AU: three cam pulses, the third close after the second.           *)

toothAngles_MazdaAU == <<348, 96, 168, 276>>

Wheel_MazdaAU ==
  <<Sec(60), Pri(96), Pri(168), Pri(276), Pri(348), Sec(380), Sec(421),
    Pri(456), Pri(528), Pri(636), Pri(708)>>

triggerSetup_MazdaAU(s) ==
  [sharedDecoderReset(s) EXCEPT !.triggerToothAngle = 108,
                                !.toothCurrentCount = 99,
                                !.triggerFilterTime = FilterAtMaxRPM,
                                !.triggerSecFilterTime = FilterAtMaxRPM]

triggerPri_MazdaAU ==
  LET s == IF Counted \in {1, 5}
           THEN [ToothOne(d) EXCEPT !.toothCurrentCount = 1, !.syncStatus = "Full"]
           ELSE [d EXCEPT !.toothCurrentCount = Counted]
      odd == s.toothCurrentCount \in {1, 3}
  IN  \/ d.sinceTooth < d.triggerFilterTime /\ UNCHANGED d
      \/ /\ d.sinceTooth >= d.triggerFilterTime
         /\ d' = IF s.syncStatus # "Full" THEN s
                 ELSE [LastTooth(s) EXCEPT
                         !.triggerToothAngle = IF odd THEN 72 ELSE 108,
                         !.triggerFilterTime = IF odd THEN d.sinceTooth
                                               ELSE (d.sinceTooth * 3) \div 8]

\* Three stands for every count above two.
triggerSec_MazdaAU ==
  LET s == [d EXCEPT !.lastGap = d.curGap2, !.curGap2 = d.sinceSec, !.sinceSec = 0]
      close == d.sinceSec < d.curGap2 \div 2
  IN  d' = CASE Full -> s
             [] ~Full /\ d.secondaryToothCount = 2 ->
                  [s EXCEPT !.toothCurrentCount = 1, !.syncStatus = "Full",
                            !.secondaryToothCount = 3]
             [] OTHER ->
                  [s EXCEPT !.triggerFilterTime = FilterAtMaxRPM,
                            !.secondaryToothCount = IF close \/ @ > 2 THEN 3 ELSE @ + 1]

\* The angle between the two teeth is not divided by: kept as the code has it.
getRPM_MazdaAU(slow) ==
  IF ~Full THEN 0
  ELSE IF slow THEN (IF d.minusOne >= Never THEN 0 ELSE 36 * d.minusOne)
       ELSE stdRevolutionTime(FALSE, slow)

getCrankAngle_MazdaAU ==
  IF Full THEN angleAt(toothAngles_MazdaAU, d.toothCurrentCount) ELSE 0

-----------------------------------------------------------------------------
(* Subaru 6/7: one, two or three cam pulses between groups of three crank  *)
(* teeth tell the groups apart.                                            *)

toothAngles_Subaru67 == <<710, 83, 115, 170, 263, 295, 350, 443, 475, 530, 623, 655>>

Wheel_Subaru67 ==
  <<Sec(10), Sec(30), Sec(50), Pri(83), Pri(115), Pri(170), Sec(210),
    Pri(263), Pri(295), Pri(350), Sec(380), Sec(410), Pri(443), Pri(475), Pri(530),
    Sec(570), Pri(623), Pri(655), Pri(710)>>

triggerSetup_Subaru67(s) ==
  [sharedDecoderReset(s) EXCEPT !.triggerFilterTime = FilterAtMaxRPM,
                                !.triggerSecFilterTime = 0,
                                !.toothCurrentCount = 1,
                                !.triggerToothAngle = 2,
                                !.toothAngleIsCorrect = FALSE]

\* What the cam pulses since the last tooth say of this one.
checked_Subaru67(s) ==
  LET t == [s EXCEPT !.secondaryToothCount = 0]
      expect(teeth, guess) ==
        IF s.toothCurrentCount \in teeth
        THEN [t EXCEPT !.syncStatus = "Full"]
        ELSE [t EXCEPT !.syncStatus = "None", !.toothCurrentCount = guess]
  IN  CASE s.secondaryToothCount = 0 -> s
        [] s.secondaryToothCount = 1 -> expect({5, 11}, 5)
        [] s.secondaryToothCount = 2 -> expect({8}, 8)
        [] s.secondaryToothCount = 3 -> expect({2}, 2)
        [] OTHER -> [t EXCEPT !.syncStatus = "None", !.toothAngleIsCorrect = FALSE]

\* toothSystemCount stops at four: only equality with three and more than three count.
triggerPri_Subaru67 ==
  LET r == [LastTooth(d) EXCEPT !.toothCurrentCount = Counted,
                                !.toothSystemCount = IF @ < 4 THEN @ + 1 ELSE @]
      s == checked_Subaru67(IF Counted > 13
                            THEN [r EXCEPT !.toothCurrentCount = 0, !.syncStatus = "None"]
                            ELSE r)
      t == IF s.toothCurrentCount > 12
           THEN [ToothOne(s) EXCEPT !.toothCurrentCount = 1] ELSE s
      n == t.toothCurrentCount
      angle == CASE n = 1 -> 55 [] n = 2 -> 93
                 [] OTHER -> angleAt(toothAngles_Subaru67, n)
                             - angleAt(toothAngles_Subaru67, n - 1)
  IN  \/ d.sinceTooth < d.triggerFilterTime /\ UNCHANGED d
      \/ /\ d.sinceTooth >= d.triggerFilterTime
         /\ d' = IF s.syncStatus = "Full"
                 THEN [t EXCEPT !.triggerToothAngle = angle, !.toothAngleIsCorrect = TRUE]
                 ELSE s

triggerSec_Subaru67 ==
  LET n == d.secondaryToothCount + 1
  IN  \/ /\ d.toothSystemCount \in {0, 3}
         /\ d.sinceSec <= d.triggerSecFilterTime
         /\ UNCHANGED d
      \/ /\ d.toothSystemCount \in {0, 3}
         /\ d.sinceSec > d.triggerSecFilterTime
         /\ d' = [d EXCEPT !.sinceSec = 0,
                           !.secondaryToothCount = n,
                           !.toothSystemCount = 0,
                           !.triggerSecFilterTime = IF n > 1 THEN d.sinceSec \div 4 ELSE 0]
      \/ /\ d.toothSystemCount \in {1, 2}
         /\ d' = [d EXCEPT !.secondaryToothCount = 0]
      \/ /\ d.toothSystemCount > 3
         /\ d' = [d EXCEPT !.secondaryToothCount = 0,
                           !.toothSystemCount = 0,
                           !.syncStatus = "None"]

getRPM_Subaru67(slow) == IF d.startRevolutions > 0 THEN stdRevolutionTime(TRUE, slow) ELSE 0

getCrankAngle_Subaru67 ==
  IF Full THEN angleAt(toothAngles_Subaru67, d.toothCurrentCount) ELSE 0

endTeeth_Subaru67(advance) ==
  IF advance >= 10 THEN IF sequential THEN <<12, 3, 6, 9>> ELSE <<6, 3>>
                   ELSE IF sequential THEN <<1, 4, 7, 10>> ELSE <<1, 4>>

-----------------------------------------------------------------------------
(* Nissan 360: 360 slots on the cam, and windows of as many slots as tell  *)
(* the cylinder.                                                           *)

\* The windows known, with their slots: the fewest, the most, the count at the end.
windows_Nissan360(cylinders) ==
  CASE cylinders = 4 -> {<<15, 17, 16>>, <<11, 13, 102>>, <<7, 9, 188>>, <<3, 5, 274>>}
    [] cylinders = 6 -> {<<3, 5, 124>>}
    [] cylinders = 8 -> {<<6, 8, 56>>}
    [] OTHER -> {}

\* The first one only is used to correct a count while in sync.
resync_Nissan360(cylinders) ==
  CASE cylinders = 4 -> {<<15, 17, 16>>} [] cylinders = 6 -> {<<3, 5, 124>>} [] OTHER -> {}

\* Both edges of each window, a slot apart from the teeth around them.
Wheel_Nissan360(cylinders) ==
  LET length == IF cylinders = 4 THEN [w \in 0..3 |-> 16 - 4 * w]
                                 ELSE [w \in 0..5 |-> <<12, 8, 4, 24, 20, 16>>[w + 1]]
      every == 360 \div cylinders
      teeth(first, last) == [i \in 1..(last - first + 1) |-> Pri(2 * (first + i - 2))]
      window(w) ==
        LET shut == every * w + length[w]
            open == every * (w + 1)
        IN  teeth(every * w + 1, shut) \o <<Edge(2 * shut - 1, "sec", TRUE, FALSE)>>
              \o teeth(shut + 1, open) \o <<Edge(2 * open - 1, "sec", TRUE, TRUE)>>
      upTo[w \in 0..(cylinders - 1)] ==
        IF w = 0 THEN window(0) ELSE upTo[w - 1] \o window(w)
  IN  upTo[cylinders - 1]

triggerSetup_Nissan360(s) ==
  [sharedDecoderReset(s) EXCEPT !.triggerFilterTime = FilterAtMaxRPM,
                                !.triggerSecFilterTime = FilterAtMaxRPM,
                                !.toothCurrentCount = 1,
                                !.triggerToothAngle = 2]

triggerPri_Nissan360 ==
  \/ d.sinceTooth < d.triggerFilterTime /\ UNCHANGED d
  \/ /\ d.sinceTooth >= d.triggerFilterTime
     /\ d' = IF ~Full THEN [LastTooth(d) EXCEPT !.toothCurrentCount = Counted]
             ELSE [(IF Counted = 361
                    THEN [ToothOne(LastTooth(d)) EXCEPT !.toothCurrentCount = 1]
                    ELSE [LastTooth(d) EXCEPT !.toothCurrentCount = Counted])
                   EXCEPT !.triggerFilterTime = setFilter(d.sinceTooth)]

\* secondaryDuration is a byte.
triggerSec_Nissan360(cylinders, e) ==
  LET s == [d EXCEPT !.sinceSec = 0]
      secondaryDuration == (d.toothCurrentCount - d.secondaryToothCount) % 256
      known == IF Full THEN (IF useResync THEN resync_Nissan360(cylinders) ELSE {})
                       ELSE windows_Nissan360(cylinders)
      window == {w \in known : secondaryDuration \in w[1]..w[2]}
  IN  d' = CASE d.secondaryToothCount = 0 \/ e.secHigh ->
                  [s EXCEPT !.secondaryToothCount = d.toothCurrentCount]
             [] ~(d.secondaryToothCount = 0 \/ e.secHigh) /\ window # {} ->
                  [s EXCEPT !.toothCurrentCount = (CHOOSE w \in window : TRUE)[3],
                            !.syncStatus = "Full"]
             [] OTHER -> s

getRPM_Nissan360 ==
  IF ~Full \/ d.sinceTooth >= Never \/ d.minusOne >= Never THEN 0
  ELSE IF d.startRevolutions < 2 THEN 180 * d.minusOne
       ELSE IF d.oneMinusOne >= Never THEN 0 ELSE d.oneMinusOne \div 2

getCrankAngle_Nissan360 == 2 * (d.toothCurrentCount - 1)

calcEndTooth_Nissan360(dischargeAngle) ==
  (IF dischargeAngle - 4 > 0 THEN dischargeAngle ELSE dischargeAngle + 720) \div 2 - 4

-----------------------------------------------------------------------------
(* DSM 420a: groups of four crank teeth; whether the crank is high where   *)
(* the cam falls tells which.                                              *)

toothAngles_420a ==
  <<711, 111, 131, 151, 171, 291, 311, 331, 351, 471, 491, 511, 531, 651, 671, 691>>

\* Teeth are falling edges: the crank is low just after one.
Wheel_420a ==
  <<Pri(111), Pri(131), Pri(151), Pri(171), Edge(200, "sec", FALSE, FALSE),
    Pri(291), Pri(311), Pri(331), Pri(351), Pri(471), Pri(491), Pri(511), Pri(531),
    Edge(600, "sec", TRUE, FALSE), Pri(651), Pri(671), Pri(691), Pri(711)>>

triggerSetup_420a(s) ==
  [sharedDecoderReset(s) EXCEPT !.triggerFilterTime = FilterAtMaxRPM,
                                !.triggerSecFilterTime = 0,
                                !.toothCurrentCount = 1,
                                !.triggerToothAngle = 20,
                                !.toothAngleIsCorrect = FALSE]

triggerPri_420a ==
  LET s == [LastTooth(d) EXCEPT !.toothCurrentCount = Counted,
                                !.triggerFilterTime = 0,
                                !.toothAngleIsCorrect = FALSE]
  IN  \/ d.sinceTooth < d.triggerFilterTime /\ UNCHANGED d
      \/ /\ d.sinceTooth >= d.triggerFilterTime
         /\ d' = IF Counted > 16 /\ Full
                 THEN [ToothOne(s) EXCEPT !.toothCurrentCount = 1] ELSE s

triggerSec_420a(e) ==
  d' = [d EXCEPT !.toothCurrentCount = IF e.priHigh THEN 13 ELSE 5, !.syncStatus = "Full"]

\* The wheel's sixteen teeth are two turns of the crank.
getRPM_420a(slow) == stdRevolutionTime(TRUE, slow)

getCrankAngle_420a == angleAt(toothAngles_420a, d.toothCurrentCount)

endTeeth_420a(advance) == IF advance < 9 THEN <<1, 5, 9, 13>> ELSE <<16, 4, 8, 12>>
=============================================================================
