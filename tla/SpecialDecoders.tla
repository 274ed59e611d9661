--------------------------- MODULE SpecialDecoders ---------------------------
(***************************************************************************)
(* Decoders with a way of their own to find their position: the width of a *)
(* lobe or of a gap (Chrysler NGC, Yamaha Vmax, Ford TFI), the pattern of  *)
(* the gaps of a turn (Rover MEMS), gaps between groups of teeth (Renix)   *)
(* and three gaps in a row (Suzuki K6A).  checkPerToothTiming and the VVT  *)
(* angle are left out.                                                     *)
(***************************************************************************)
EXTENDS DecoderState, FiniteSets

TwoSeen == d.sinceTooth < Never /\ d.minusOne < Never

\* The line was high for the longer part of a gap that ends now with a fall.
MostlyHigh(sinceFall, sinceRise) == sinceRise <= sinceFall /\ sinceFall < 2 * sinceRise

byAngle(edges) ==
  [i \in 1..Cardinality(edges) |->
     CHOOSE e \in edges : Cardinality({f \in edges : f.angle < e.angle}) = i - 1]

-----------------------------------------------------------------------------
(* NGC: 36-2-2, the line high through one gap and low through the other;   *)
(* a cam of the same kind (4 cylinders) or of groups of one to three teeth.*)

teeth_NGC == (1..16) \cup (19..34)
crank_NGC ==
  UNION {{Edge(10 * (n - 1) + turn, "pri", FALSE, FALSE) : n \in teeth_NGC} \cup
         {Edge((IF n = 1 THEN 335 ELSE 10 * (n - 1) - 5) + turn, "pri", TRUE, FALSE) :
            n \in teeth_NGC} : turn \in {0, 360}}

Wheel_NGC4 ==
  byAngle(crank_NGC \cup
          {Edge(a, "sec", FALSE, TRUE) : a \in {32, 112, 272, 352, 512, 672}} \cup
          {Edge(a, "sec", FALSE, FALSE) : a \in {72, 152, 312, 392, 432, 632, 712}} \cup
          {Edge(a, "sec", FALSE, TRUE) : a \in {412}})

Wheel_NGC6 ==
  byAngle(crank_NGC \cup
          {Edge(a, "sec", FALSE, FALSE) :
             a \in {51, 72, 171, 192, 213, 291, 312, 411, 531, 552, 573, 651}})

triggerSetup_NGC(s) ==
  [sharedDecoderReset(s) EXCEPT !.triggerToothAngle = 10,
                                !.triggerFilterTime = FilterAtMaxRPM,
                                !.toothCurrentCount = 0,
                                !.sinceOne = Never,
                                !.oneMinusOne = Never,
                                !.minusOne = Never,
                                !.sinceRise = Never,
                                !.triggerSecFilterTime = FilterAtMaxRPM,
                                !.sinceSecRise = Never,
                                !.minusOneSec = Never]

\* The cam's count, of teeth or of groups, at tooth 1 or 19 of either turn.
camCounts_NGC(cylinders, tooth, revolutionOne) ==
  CASE cylinders = 4 -> IF tooth = 1 THEN (IF revolutionOne THEN {5} ELSE {1, 2})
                                     ELSE (IF revolutionOne THEN {7} ELSE {4})
    [] cylinders = 6 -> IF tooth = 1 THEN (IF revolutionOne THEN {4, 5} ELSE {1, 2})
                                     ELSE (IF revolutionOne THEN {5, 6} ELSE {2, 3})
    [] cylinders = 8 -> IF tooth = 1 THEN (IF revolutionOne THEN {5, 6} ELSE {1, 2})
                                     ELSE (IF revolutionOne THEN {7, 8} ELSE {3, 4})

synced_NGC(cylinders, s) ==
  LET cam == IF cylinders = 4 THEN s.secondaryToothCount ELSE s.toothSystemCount
      fits(r) == cam \in camCounts_NGC(cylinders, s.toothCurrentCount, r)
  IN  CASE ~sequential -> [s EXCEPT !.syncStatus = "Full"]
        [] sequential /\ (\E r \in BOOLEAN : fits(r)) ->
             [s EXCEPT !.syncStatus = "Full",
                       !.revolutionOne = CHOOSE r \in BOOLEAN : fits(r)]
        [] OTHER -> [s EXCEPT !.syncStatus = "Partial"]

\* The first tooth after a gap; the last tooth's gap is kept for the next comparison.
afterGap_NGC(cylinders) ==
  LET s == [d EXCEPT !.sinceTooth = 0,
                     !.triggerFilterTime = 0,
                     !.toothAngleIsCorrect = FALSE]
  IN  synced_NGC(cylinders,
        IF MostlyHigh(d.sinceTooth, d.sinceRise)
        THEN [ToothOne(s) EXCEPT !.toothCurrentCount = 1,
                                 !.startRevolutions = IF Full THEN @ ELSE 0]
        ELSE [s EXCEPT !.toothCurrentCount = 19])

triggerPri_NGC(cylinders, e) ==
  LET expected == TwoSeen /\ (Counted \in {17, 35} \/ d.syncStatus = "None")
      missing == expected /\ d.sinceTooth > 2 * d.minusOne
      s == [LastTooth(d) EXCEPT !.toothCurrentCount = Counted]
  IN  \/ e.priHigh /\ d' = [d EXCEPT !.sinceRise = 0]
      \/ ~e.priHigh /\ d.sinceTooth < d.triggerFilterTime /\ UNCHANGED d
      \/ /\ ~e.priHigh /\ d.sinceTooth >= d.triggerFilterTime
         /\ d' = CASE missing -> afterGap_NGC(cylinders)
                   [] ~missing /\ ~TwoSeen -> s
                   [] OTHER -> [s EXCEPT !.triggerFilterTime = setFilter(d.sinceTooth),
                                         !.toothAngleIsCorrect = TRUE,
                                         !.syncStatus = IF expected THEN "None" ELSE @]

triggerSec_NGC4(e) ==
  LET known == d.sinceSec < Never /\ d.minusOneSec < Never
      n == IF d.secondaryToothCount > 0 THEN d.secondaryToothCount + 1 ELSE 0
      long == d.sinceSec >= (3 * d.minusOneSec) \div 2
      afterLong == IF MostlyHigh(d.sinceSec, d.sinceSecRise)
                   THEN (IF n \in {0, 8} THEN 1 ELSE 0)
                   ELSE (IF n \in {0, 5} THEN 5 ELSE 0)
      s == [d EXCEPT !.minusOneSec = d.sinceSec, !.sinceSec = 0]
  IN  \/ ~sequential /\ UNCHANGED d
      \/ sequential /\ e.secHigh /\ d' = [d EXCEPT !.sinceSecRise = 0]
      \/ /\ sequential /\ ~e.secHigh
         /\ d.sinceSec <= d.triggerSecFilterTime
         /\ UNCHANGED d
      \/ /\ sequential /\ ~e.secHigh
         /\ d.sinceSec > d.triggerSecFilterTime
         /\ d' = CASE ~known -> s
                   [] known /\ long ->
                        [s EXCEPT !.secondaryToothCount = afterLong,
                                  !.triggerSecFilterTime = 0]
                   [] known /\ ~long ->
                        [s EXCEPT !.secondaryToothCount = n,
                                  !.triggerSecFilterTime =
                                     IF n > 0 THEN d.sinceSec \div 4 ELSE @]

\* How many teeth each group has, the last one first (toothAngles, from 0).
groups_NGC(cylinders) ==
  IF cylinders = 6 THEN <<1, 3, 1, 2, 3, 2, 1, 3>>
                   ELSE <<3, 1, 1, 2, 3, 2, 2, 1, 3, 1>>

\* The group that ended: the next one, or the first that fits with the one before.
group_NGC(cylinders) ==
  LET g == groups_NGC(cylinders)
      fits == {i \in 1..cylinders : /\ g[i + 1] = d.secondaryToothCount
                                    /\ g[i] = d.checkSyncToothCount}
      next == d.toothSystemCount + 1
  IN  CASE d.secondaryToothCount = 0 \/ d.checkSyncToothCount = 0 -> d.toothSystemCount
        [] /\ d.secondaryToothCount > 0 /\ d.checkSyncToothCount > 0
           /\ d.toothSystemCount > 0 /\ g[next + 1] = d.secondaryToothCount ->
             IF next > cylinders THEN 1 ELSE next
        [] OTHER -> IF fits = {} THEN 0 ELSE CHOOSE i \in fits : \A j \in fits : i <= j

triggerSec_NGC68(cylinders) ==
  LET known == d.sinceSec < Never /\ TwoSeen
      s == [d EXCEPT !.sinceSec = 0]
  IN  \/ /\ ~sequential \/ d.sinceSec <= d.triggerSecFilterTime
         /\ UNCHANGED d
      \/ /\ sequential /\ d.sinceSec > d.triggerSecFilterTime
         /\ d' = CASE ~known -> s
                   [] known /\ d.sinceSec >= 3 * d.minusOne ->
                        [s EXCEPT !.toothSystemCount = group_NGC(cylinders),
                                  !.checkSyncToothCount = d.secondaryToothCount,
                                  !.secondaryToothCount = 1,
                                  !.triggerSecFilterTime = 0]
                   [] known /\ d.sinceSec < 3 * d.minusOne /\ d.secondaryToothCount > 0 ->
                        [s EXCEPT !.secondaryToothCount = @ + 1,
                                  !.triggerSecFilterTime = d.sinceSec \div 4]
                   [] OTHER -> s

getRPM_NGC(slow) ==
  IF ~slow THEN stdRevolutionTime(FALSE, slow)
  ELSE IF d.toothAngleIsCorrect THEN crankingRevolutionTime(36, FALSE) ELSE 0

\* getCrankAngle_missingTooth, also of Renix and Rover.
getCrankAngle_teeth ==
  (d.toothCurrentCount - 1) * d.triggerToothAngle + (IF d.revolutionOne THEN 360 ELSE 0)

\* The tooth before a missing one instead.
skipMissing_NGC(tooth) ==
  CASE tooth \in {17, 18} -> 16 [] tooth \in {35, 36} -> 34
    [] tooth \in {53, 54} -> 52 [] tooth > 70 -> 70 [] OTHER -> tooth

endTooth_NGC(dischargeAngle) ==
  skipMissing_NGC(clampToToothCount(Quotient(dischargeAngle, 10) - 1,
                                    IF sequential THEN 72 ELSE 36))

-----------------------------------------------------------------------------
(* Vmax: six lobes, the sixth wide.  The rises are teeth; the falls tell   *)
(* which lobe it was.                                                      *)

toothAngles_Vmax == <<0, 40, 110, 180, 220, 290>>

Wheel_Vmax ==
  [i \in 1..12 |->
     LET rise == toothAngles_Vmax[(i + 1) \div 2]
     IN  IF i % 2 = 1 THEN Edge(rise, "pri", TRUE, FALSE)
         ELSE Edge(rise + (IF i = 12 THEN 45 ELSE 5), "pri", FALSE, FALSE)]

triggerSetup_Vmax(s) ==
  [sharedDecoderReset(s) EXCEPT !.triggerToothAngle = 0,
                                !.sinceTooth = Never - 1,
                                !.triggerFilterTime = FilterAtMaxRPM,
                                !.validTrigger = TRUE]

\* sinceSecRise is the age of the rise, which the code keeps in curGap2.
rise_Vmax(slow) ==
  LET s == [d EXCEPT !.sinceSecRise = 0]
      n == d.toothCurrentCount
      filter == setFilter(CASE n \in {1, 4} -> (d.sinceTooth * 4) \div 7
                            [] n \in {2, 5} -> (d.sinceTooth * 7) \div 4
                            [] OTHER -> d.sinceTooth)
      t == [LastTooth(s) EXCEPT
              !.validTrigger = TRUE,
              !.secondaryToothCount = n,
              !.triggerToothAngle = IF n \in {2, 5} THEN 40 ELSE 70,
              !.triggerFilterTime = IF slow \/ filter >= Never \div 4 THEN 0 ELSE filter]
  IN  CASE d.sinceTooth < d.triggerFilterTime -> [s EXCEPT !.validTrigger = FALSE]
        [] d.sinceTooth >= d.triggerFilterTime /\ n = 0 ->
             [s EXCEPT !.validTrigger = TRUE, !.triggerFilterTime = 0]
        [] d.sinceTooth >= d.triggerFilterTime /\ n = 1 ->
             [ToothOne(t) EXCEPT !.syncStatus = "Full"]
        [] OTHER -> t

\* slow: the filter time would be more than 50 ms.
triggerPri_Vmax(e, slow) ==
  LET width == d.sinceSecRise
      n == d.toothCurrentCount
      wide == width > 2 * d.lastGap
  IN  \/ e.priHigh /\ d' = rise_Vmax(slow)
      \/ ~e.priHigh /\ ~d.validTrigger /\ d' = [d EXCEPT !.validTrigger = TRUE]
      \/ /\ ~e.priHigh /\ d.validTrigger
         /\ d' = [d EXCEPT !.lastGap = width,
                           !.toothCurrentCount = IF wide \/ n = 6 THEN 1 ELSE n + 1,
                           !.syncStatus = IF wide /\ n \in {0, 6} THEN "Full" ELSE @]

getRPM_Vmax(slow) ==
  IF ~Full THEN 0
  ELSE IF slow THEN (IF ~TwoSeen \/ d.oneMinusOne >= Never THEN 0 ELSE d.oneMinusOne)
       ELSE stdRevolutionTime(FALSE, slow)

getCrankAngle_Vmax ==
  IF d.secondaryToothCount = 0 THEN 0 ELSE toothAngles_Vmax[d.secondaryToothCount]

-----------------------------------------------------------------------------
(* Renix: 44-2-2 or 66-2-2-2.  Eleven slots are one tooth of the wheel the *)
(* rest of the code sees.  In a unit of which the pitch of the slots is a  *)
(* whole number: 8 of 352, or 6 of 396 a turn.                             *)

pitch_Renix(cylinders) == IF cylinders = 4 THEN 8 ELSE 6
Wheel_Renix(cylinders) ==
  LET slots == {n \in 0..(11 * cylinders - 1) : n % 22 < 20}
  IN  byAngle({Pri(n * pitch_Renix(cylinders)) : n \in slots})

triggerSetup_Renix(cylinders, s) ==
  [sharedDecoderReset(s) EXCEPT !.triggerToothAngle = 360 \div cylinders,
                                !.triggerFilterTime = FilterAtMaxRPM,
                                !.toothSystemCount = 1,
                                !.toothCurrentCount = 1]

\* sinceRise is the age of the last slot's tooth (renixSystemLastToothTime); curGap is
\* not zero once one was seen, and curGap2 the gap before it, once two were.
triggerPri_Renix(cylinders) ==
  LET gap == d.sinceRise
      isGap == d.curGap2 > 0 /\ gap >= 2 * d.curGap2
      n == d.toothSystemCount + (IF isGap THEN 3 ELSE 1)
      lost == isGap /\ n # 12
      s == [d EXCEPT !.sinceRise = 0,
                     !.curGap2 = IF d.curGap > 0 THEN gap ELSE 0,
                     !.curGap = gap,
                     !.triggerFilterTime = IF isGap THEN @ ELSE setFilter(gap),
                     !.toothSystemCount = IF lost THEN 1 ELSE n,
                     !.toothCurrentCount = IF lost THEN 1 ELSE @,
                     !.syncStatus = IF lost THEN "None" ELSE @]
      t == [LastTooth(s) EXCEPT !.toothSystemCount = 1, !.toothCurrentCount = @ + 1]
  IN  \/ gap < d.triggerFilterTime /\ UNCHANGED d
      \/ /\ gap >= d.triggerFilterTime
         /\ d' = CASE n # 12 /\ d.sinceTooth < Never -> s
                   [] (n = 12 \/ d.sinceTooth >= Never)
                      /\ t.toothCurrentCount = cylinders + 1 ->
                        [ToothOne(t) EXCEPT !.toothCurrentCount = 1,
                                            !.syncStatus = "Full",
                                            !.revolutionOne = ~@]
                   [] OTHER -> t

\* calcEndTeeth_Renix; clampToActualTeeth keeps it within a turn.
endTooth_Renix(cylinders, dischargeAngle) ==
  LET range == IF sequential THEN 2 * cylinders ELSE cylinders
      n == clampToToothCount(Quotient(dischargeAngle, 360 \div cylinders) - 1, range)
  IN  IF n > range THEN range ELSE n

-----------------------------------------------------------------------------
(* Rover MEMS: the last 32 slots, as bits, are compared with each wheel's. *)

\* The zeros of each wheel's pattern, and the slots without a tooth behind it.
patterns_RoverMEMS ==
  {[id |-> 5, zeros |-> {6, 17, 25}, missing |-> {12, 20, 31}],
   [id |-> 4, zeros |-> {7, 10, 25, 29}, missing |-> {8, 12, 27, 30}],
   [id |-> 3, zeros |-> {7, 11, 26, 29}, missing |-> {8, 11, 26, 30}],
   [id |-> 2, zeros |-> {1, 6, 19, 25}, missing |-> {12, 18, 31, 36}],
   [id |-> 1, zeros |-> {1, 19}, missing |-> {18, 36}]}

\* The teeth that follow a gap, by which the cranking speed is not taken.
skipTeeth_RoverMEMS ==
  [id \in 1..5 |-> CASE id = 5 -> {1, 11, 19, 30} [] id = 4 -> {8, 11, 25, 27}
                     [] id = 3 -> {8, 10, 24, 27} [] id = 2 -> {1, 12, 17, 29}
                     [] id = 1 -> {1, 18}]

missing_RoverMEMS(id) ==
  (CHOOSE p \in patterns_RoverMEMS : p.id = id).missing
Wheel_RoverMEMS(id) ==
  byAngle({Pri(10 * (n - 1) + turn) : n \in (1..36) \ missing_RoverMEMS(id), turn \in {0, 360}}
          \cup {Sec(516)})

\* Unlike the others it does not call sharedDecoderReset.
triggerSetup_RoverMEMS(s) ==
  [s EXCEPT !.triggerFilterTime = FilterAtMaxRPM,
            !.triggerSecFilterTime = FilterAtMaxRPM,
            !.triggerToothAngle = 10,
            !.minusOne = Never,
            !.toothCurrentCount = 0,
            !.sinceOne = Never,
            !.oneMinusOne = Never,
            !.revolutionOne = FALSE]

\* Slots shifted in: one with a tooth, after one without when there was a gap.
shifted_RoverMEMS(zeros, isGap) ==
  IF isGap THEN {n + 2 : n \in zeros \cap (0..29)} \cup {1}
           ELSE {n + 1 : n \in zeros \cap (0..30)}

triggerRoverMEMSCommon(s) ==
  LET t == IF s.toothCurrentCount > 18
           THEN [ToothOne(s) EXCEPT !.toothCurrentCount = 1, !.revolutionOne = ~@]
           ELSE [s EXCEPT !.startRevolutions = IF @ < RevolutionsMax THEN @ + 1 ELSE @]
  IN  CASE sequential /\ t.secondaryToothCount > 0 ->
             [t EXCEPT !.syncStatus = "Full", !.secondaryToothCount = 0]
        [] sequential /\ t.secondaryToothCount = 0 /\ t.syncStatus = "Full" -> t
        [] OTHER -> [t EXCEPT !.syncStatus = "Partial"]

triggerPri_RoverMEMS ==
  LET isGap == d.sinceTooth > (3 * d.minusOne) \div 2
      s == [LastTooth(d) EXCEPT
              !.roverMEMSTeethSeen = shifted_RoverMEMS(@, isGap),
              !.toothCurrentCount = IF isGap THEN Counted + 1 ELSE Counted,
              !.triggerFilterTime = IF isGap THEN @ ELSE setFilter(d.sinceTooth)]
      matches == \E p \in patterns_RoverMEMS : p.zeros = s.roverMEMSTeethSeen
  IN  \/ d.sinceTooth < d.triggerFilterTime /\ UNCHANGED d
      \/ /\ d.sinceTooth >= d.triggerFilterTime
         /\ d' = CASE ~TwoSeen -> LastTooth(d)
                   [] TwoSeen /\ s.toothCurrentCount >= 36 /\ matches ->
                        triggerRoverMEMSCommon(s)
                   [] TwoSeen /\ s.toothCurrentCount > 37 /\ ~matches ->
                        [s EXCEPT !.syncStatus = "None"]
                   [] OTHER -> s

\* A cam of one tooth; the one of 5-3-2 is left out.  One or more: only zero matters.
triggerSec_RoverMEMS ==
  LET first == d.sinceSec >= Never
      gap == IF first THEN 0 ELSE d.sinceSec
  IN  \/ /\ gap < d.triggerSecFilterTime
         /\ d' = [d EXCEPT !.sinceSec = IF first THEN 0 ELSE @]
      \/ /\ gap >= d.triggerSecFilterTime
         /\ d' = [d EXCEPT !.secondaryToothCount = 1,
                           !.sinceSec = 0,
                           !.revolutionOne = TRUE,
                           !.triggerSecFilterTime = gap \div 2]

getRPM_RoverMEMS(id, slow) ==
  IF ~slow THEN stdRevolutionTime(FALSE, slow)
  ELSE IF d.toothCurrentCount \notin skipTeeth_RoverMEMS[id]
       THEN crankingRevolutionTime(36, FALSE) ELSE 0

\* calcEndTooth_RoverMEMS, and the tooth before one that follows a gap.
endTooth_RoverMEMS(id, dischargeAngle) ==
  LET range == IF sequential THEN 72 ELSE 36
      n == clampToToothCount(Quotient(dischargeAngle, 10) - 1, range)
      skip == skipTeeth_RoverMEMS[id]
  IN  IF n \in skip \/ (sequential /\ n - 36 \in skip) THEN n - 1 ELSE n

-----------------------------------------------------------------------------
(* Suzuki K6A: a small gap after a small one after a large one ends at     *)
(* tooth 6.                                                                *)

toothAngles_SuzukiK6A == <<0, 170, 240, 410, 480, 515, 650>>
Wheel_SuzukiK6A == Teeth(toothAngles_SuzukiK6A)

triggerSetup_SuzukiK6A(s) ==
  [sharedDecoderReset(s) EXCEPT !.triggerToothAngle = 90,
                                !.toothCurrentCount = 1,
                                !.curGap = 0, !.curGap2 = 0, !.lastGap = 0,
                                !.sinceTooth = Never - 1,
                                !.minusOne = Never,
                                !.triggerFilterTime = FilterAtMaxRPM,
                                !.triggerSecFilterTime = 0]

\* By the gap that comes next, in 16ths of the one that ended.
filter_SuzukiK6A(tooth, gap) ==
  LET share == CASE tooth \in {2, 4} -> <<2, 3, 5>>
                 [] tooth \in {5, 7} -> <<2, 4, 6>>
                 [] tooth = 6        -> <<16, 32, 48>>
                 [] tooth \in {1, 3} -> <<10, 20, 28>>
                 [] OTHER            -> <<0, 0, 0>>
  IN  IF triggerFilter \in 1..3 THEN (gap * share[triggerFilter]) \div 16 ELSE 0

\* lastGap is curGap3.  The check of each tooth's gap against the one before compares the
\* gap with itself, curGap2 having been set to it, and never finds anything.
triggerPri_SuzukiK6A ==
  LET gap == d.sinceTooth
      sync == gap <= d.curGap2 /\ d.curGap2 <= d.lastGap
      s == [LastTooth(d) EXCEPT !.toothCurrentCount = IF sync THEN 6 ELSE Counted,
                                !.syncStatus = IF sync THEN "Full" ELSE @,
                                !.lastGap = d.curGap2,
                                !.curGap2 = gap]
      filtered(t) == IF t.syncStatus # "Full" THEN t
        ELSE [t EXCEPT !.triggerFilterTime = filter_SuzukiK6A(t.toothCurrentCount, gap)]
  IN  \/ gap < d.triggerFilterTime /\ d.startRevolutions # 0 /\ UNCHANGED d
      \/ /\ gap >= d.triggerFilterTime \/ d.startRevolutions = 0
         /\ d' = CASE s.toothCurrentCount = 8 /\ s.syncStatus = "Full" ->
                        filtered([ToothOne(ToothOne(s)) EXCEPT
                                    !.toothCurrentCount = 1,
                                    !.oneMinusOne = d.sinceOne])
                   [] s.toothCurrentCount > 8 ->
                        [s EXCEPT !.syncStatus = "None",
                                  !.triggerFilterTime = 0,
                                  !.toothCurrentCount = 0]
                   [] OTHER -> filtered(s)

getRPM_SuzukiK6A(slow) == stdRevolutionTime(TRUE, slow)

getCrankAngle_SuzukiK6A ==
  CASE d.toothCurrentCount = 0 -> -70
    [] d.toothCurrentCount \in 1..7 -> toothAngles_SuzukiK6A[d.toothCurrentCount]
    [] OTHER -> 720

\* The last tooth before the angle; none but the seventh fits what lies beyond.
calcEndTeeth_SuzukiK6A(endAngle) ==
  LET before == {n \in 1..7 : toothAngles_SuzukiK6A[n] < endAngle}
  IN  IF before \in {{}, 1..7} THEN 7 ELSE CHOOSE n \in before : n + 1 \notin before

-----------------------------------------------------------------------------
(* Ford TFI: a tooth a cylinder, the first one narrow.  The fall of the    *)
(* second comes after a wide gap that follows a narrow one.                *)

Wheel_FordTFI ==
  <<Pri(0), Sec(45), Pri(180), Sec(270), Pri(360), Sec(450), Pri(540), Sec(630)>>

triggerSetup_FordTFI(cylinders, s) ==
  [sharedDecoderReset(s) EXCEPT !.triggerToothAngle = 720 \div cylinders,
                                !.toothCurrentCount = 0,
                                !.triggerFilterTime = FilterAtMaxRPM,
                                !.triggerSecFilterTime = FilterAtMaxRPM,
                                !.lastSyncRevolution = 0,
                                !.toothAngleIsCorrect = TRUE]

\* lastSyncRevolution counts the revolutions since then: more than three is too many.
triggerPri_FordTFI(cylinders) ==
  LET s == [LastTooth(d) EXCEPT
              !.curGap = d.sinceTooth,
              !.triggerFilterTime = IF Full THEN setFilter(d.sinceTooth) ELSE 0,
              !.toothCurrentCount = Counted]
  IN  \/ d.sinceTooth < d.triggerFilterTime /\ d' = [d EXCEPT !.curGap = d.sinceTooth]
      \/ /\ d.sinceTooth >= d.triggerFilterTime
         /\ d' = IF Counted <= cylinders THEN s
                 ELSE [ToothOne(s) EXCEPT
                         !.toothCurrentCount = 1,
                         !.lastSyncRevolution = IF @ < 4 THEN @ + 1 ELSE @,
                         !.syncStatus = IF Full /\ d.lastSyncRevolution > 3
                                        THEN "None" ELSE @]

percentage(percent, gap) == IF gap \in 1..(Never - 1) THEN (gap * percent) \div 100 ELSE 0

\* lastGap is the gap before curGap3.
triggerSec_FordTFI ==
  LET gap == IF d.sinceSec >= Never THEN 0 ELSE d.sinceSec
      wide == percentage(110, d.curGap)
      narrow == percentage(90, d.curGap)
      signature == gap > wide /\ d.curGap3 < narrow /\ d.lastGap < wide /\ d.lastGap > narrow
      unsure == ~Full \/ d.startRevolutions <= StgCycles
      f == [d EXCEPT !.triggerSecFilterTime = d.curGap \div 2]
      s == [f EXCEPT !.sinceSec = 0, !.lastGap = d.curGap3, !.curGap3 = gap]
  IN  \/ /\ gap < d.triggerSecFilterTime
         /\ d' = IF d.sinceSec >= Never THEN [f EXCEPT !.sinceSec = 0] ELSE f
      \/ /\ gap >= d.triggerSecFilterTime
         /\ d' = IF ~signature THEN s
                 ELSE [s EXCEPT
                         !.lastSyncRevolution = 0,
                         !.triggerFilterTime = IF unsure THEN 0 ELSE @,
                         !.toothCurrentCount = IF unsure \/ useResync THEN 2 ELSE @,
                         !.syncStatus = IF unsure \/ useResync THEN "Full" ELSE @]

\* slow: below the cranking speed or 1500 RPM.
getRPM_FordTFI(cylinders, slow) ==
  IF slow THEN crankingRevolutionTime(cylinders, TRUE) ELSE stdRevolutionTime(TRUE, slow)

getCrankAngle_FordTFI ==
  ((IF d.toothCurrentCount = 0 THEN 2 ELSE d.toothCurrentCount) - 1) * d.triggerToothAngle

\* triggerSetEndTeeth_FordTFI: the channels' teeth in turn, from the one whose sector
\* the angle lies in; channel 1's tooth.
endTooth_FordTFI(cylinders, endAngle) ==
  LET sector == 720 \div cylinders
      half == cylinders \div 2
      inside == {n \in 1..half : endAngle > sector * (n - 1) /\ endAngle <= sector * n}
  IN  IF inside = {} THEN (IF endAngle > sector * half \/ endAngle <= 0 THEN half ELSE 1)
      ELSE CHOOSE n \in inside : TRUE
=============================================================================
