---------------------------- MODULE DecoderState ----------------------------
(***************************************************************************)
(* The variables at the top of decoders.cpp that every decoder shares, and *)
(* the functions they share.  Times are kept as ages, in a unit of their   *)
(* own; angles are in degrees.  A time that was never set is as old as     *)
(* Never: the clock has run since the board was powered, and the code      *)
(* subtracts zero from it.                                                 *)
(***************************************************************************)
EXTENDS Integers, Sequences

CONSTANTS
  Never,           \* bound: an age no tooth of a turning wheel reaches
  StgCycles,       \* configPage4.StgCycles
  useResync,       \* configPage4.useResync
  sequential       \* is ignition sequential (configPage4.sparkMode)?

VARIABLES
  triggerFilter,   \* configPage4.triggerFilter
  d                \* the decoder's variables

ASSUME StateAssumption ==
  /\ Never \in Nat /\ StgCycles \in 1..2
  /\ useResync \in BOOLEAN /\ sequential \in BOOLEAN

\* Zero-initialised memory, before the first triggerSetup.
Blank ==
  [toothCurrentCount     |-> 0,
   toothSystemCount      |-> 0,
   secondaryToothCount   |-> 0,
   syncStatus            |-> "None",   \* decoderStatus.syncStatus
   toothAngleIsCorrect   |-> FALSE,    \* decoderStatus.toothAngleIsCorrect
   triggerToothAngle     |-> 0,
   revolutionOne         |-> FALSE,
   startRevolutions      |-> 0,        \* up to RevolutionsMax
   sinceTooth            |-> Never,    \* micros() - toothLastToothTime
   minusOne              |-> Never,    \* toothLastToothTime - toothLastMinusOneToothTime
   sinceSystem           |-> Never,    \* micros() - toothSystemLastToothTime
   sinceSec              |-> Never,    \* micros() - toothLastSecToothTime
   sinceOne              |-> Never,    \* micros() - toothOneTime
   oneMinusOne           |-> Never,    \* toothOneTime - toothOneMinusOneTime
   minusOneSec           |-> Never,    \* toothLastSecToothTime - toothLastMinusOneSecToothTime
   curGap                |-> 0,        \* the static curGap, curGap2, lastGap, targetGap:
   curGap2               |-> 0,        \* what an earlier call left there
   curGap3               |-> 0,
   lastGap               |-> 0,
   targetGap             |-> 0,
   checkSyncToothCount   |-> 0,
   sinceRise             |-> Never,    \* micros() - toothLastToothRisingTime
   sinceSecRise          |-> Never,    \* micros() - toothLastSecToothRisingTime
   validTrigger          |-> FALSE,    \* kept up to date only where it is read
   lastSyncRevolution    |-> 0,        \* revolutions since then, up to 4
   roverMEMSTeethSeen    |-> 0..31,    \* its bits that are zero
   triggerFilterTime     |-> 0,
   triggerSecFilterTime  |-> 0]

\* Only comparisons with StgCycles and with two are made.
RevolutionsMax == 3

\* A count that waits for sync goes on to 65535.  From CountMax on only its low byte
\* matters.
CountMax == 400
Counted ==
  IF d.toothCurrentCount < CountMax + 255 THEN d.toothCurrentCount + 1 ELSE CountMax

Full == d.syncStatus = "Full"

Old(age, dt) == IF age + dt < Never THEN age + dt ELSE Never

\* Time passes.
Aged(dt) ==
  [d EXCEPT !.sinceTooth  = Old(@, dt),
            !.sinceSystem = Old(@, dt),
            !.sinceSec    = Old(@, dt),
            !.sinceOne    = Old(@, dt),
            !.sinceRise   = Old(@, dt),
            !.sinceSecRise = Old(@, dt)]

\* toothLastMinusOneToothTime = toothLastToothTime; toothLastToothTime = curTime.
LastTooth(s) == [s EXCEPT !.minusOne = s.sinceTooth, !.sinceTooth = 0]

\* toothOneMinusOneTime = toothOneTime; toothOneTime = curTime; startRevolutions++.
ToothOne(s) ==
  [s EXCEPT !.oneMinusOne = s.sinceOne,
            !.sinceOne = 0,
            !.startRevolutions = IF @ < RevolutionsMax THEN @ + 1 ELSE @]

\* The shortest time, at the highest speed, that triggerSetup starts its filters
\* with: too short to keep out any pulse, and longer than no time at all.
FilterAtMaxRPM == 1

\* sharedDecoderReset's stores, one by one with interrupts on: those in which.
DecoderResetStores == 1..7

\* Mutant: the sync status survives the reset.
MutantResetKeepsSync(s, which) ==
  [s EXCEPT !.sinceSec             = IF 1 \in which THEN Never ELSE @,
            !.sinceTooth           = IF 2 \in which THEN Never ELSE @,
            !.toothSystemCount     = IF 3 \in which THEN 0 ELSE @,
            !.secondaryToothCount  = IF 4 \in which THEN 0 ELSE @,
            !.triggerFilterTime    = IF 6 \in which THEN 0 ELSE @,
            !.validTrigger         = IF 7 \in which THEN FALSE ELSE @]

ResetStores(s, which) ==
  [s EXCEPT !.sinceSec             = IF 1 \in which THEN Never ELSE @,
            !.sinceTooth           = IF 2 \in which THEN Never ELSE @,
            !.toothSystemCount     = IF 3 \in which THEN 0 ELSE @,
            !.secondaryToothCount  = IF 4 \in which THEN 0 ELSE @,
            !.syncStatus           = IF 5 \in which THEN "None" ELSE @,
            !.triggerFilterTime    = IF 6 \in which THEN 0 ELSE @,
            !.validTrigger         = IF 7 \in which THEN FALSE ELSE @]

sharedDecoderReset(s) == ResetStores(s, DecoderResetStores)

\* Mutant: a filter as long as the gap itself.
MutantSetFilter(gap) == IF triggerFilter = 0 THEN 0 ELSE gap

\* For evenly spaced teeth.
setFilter(gap) ==
  CASE triggerFilter = 1 -> gap \div 4
    [] triggerFilter = 2 -> gap \div 2
    [] triggerFilter = 3 -> (gap * 3) \div 4
    [] OTHER             -> 0

-----------------------------------------------------------------------------
(* How long a revolution takes.  Zero: the last value is kept.             *)

\* Mutant: a cam tooth taken for a crank tooth.
MutantRevolutionTime(isCamTeeth, slow) ==
  IF d.syncStatus = "None" \/ (slow /\ d.startRevolutions = 0) \/ d.oneMinusOne >= Never
  THEN 0 ELSE d.oneMinusOne

\* UpdateRevolutionTimeFromTeeth and stdGetRPM.
stdRevolutionTime(isCamTeeth, slow) ==
  IF \/ d.syncStatus = "None"
     \/ slow /\ d.startRevolutions = 0
     \/ d.oneMinusOne >= Never
  THEN 0
  ELSE d.oneMinusOne \div (IF isCamTeeth THEN 2 ELSE 1)

\* crankingGetRPM: from the last two teeth, which must be evenly spaced.
crankingRevolutionTime(totalTeeth, isCamTeeth) ==
  IF \/ d.startRevolutions < StgCycles
     \/ d.syncStatus = "None"
     \/ d.minusOne >= Never
  THEN 0
  ELSE (d.minusOne * totalTeeth) \div (IF isCamTeeth THEN 2 ELSE 1)

\* The decoders with uneven teeth: the last two are triggerToothAngle apart.
toothRevolutionTime ==
  IF d.minusOne >= Never \/ d.sinceTooth >= Never THEN 0
  ELSE (d.minusOne * 360) \div d.triggerToothAngle

\* clampToToothCount: nudge brings the number into 1..range.
clampToToothCount(tooth, range) ==
  IF tooth < 1 THEN tooth + range ELSE IF tooth > range THEN tooth - range ELSE tooth

\* C division rounds towards zero.
Quotient(a, b) == IF a < 0 THEN -((-a) \div b) ELSE a \div b

\* Edges of a wheel: where, which line, and what both lines read just after it.
Edge(angle, line, priHigh, secHigh) ==
  [angle |-> angle, line |-> line, priHigh |-> priHigh, secHigh |-> secHigh]
Pri(angle) == Edge(angle, "pri", TRUE, TRUE)
Sec(angle) == Edge(angle, "sec", TRUE, TRUE)

\* The primary teeth of a wheel at the angles of a sequence.
Teeth(angles) == [i \in 1..Len(angles) |-> Pri(angles[i])]
=============================================================================
