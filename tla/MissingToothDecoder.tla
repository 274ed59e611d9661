------------------------ MODULE MissingToothDecoder ------------------------
(***************************************************************************)
(* The missing tooth decoder of decoders.cpp: a crank wheel of             *)
(* triggerTeeth evenly spaced positions, the last triggerMissingTeeth of   *)
(* them empty, and a single tooth on the cam.  From the gaps between       *)
(* pulses the interrupt handlers count teeth, find tooth 1 and claim sync. *)
(*                                                                         *)
(* The wheel really is somewhere: position is its true place in the engine *)
(* cycle.  Speed varies from one slot to the next within SlotTimes, and a  *)
(* bounded number of faults may happen: lost crank and cam pulses, noise   *)
(* pulses, stalls.                                                         *)
(***************************************************************************)
EXTENDS Integers

CONSTANTS
  triggerTeeth,         \* configPage4.triggerTeeth
  triggerMissingTeeth,  \* configPage4.triggerMissingTeeth
  sequential,           \* is ignition or injection sequential?
  triggerFilter,        \* configPage4.triggerFilter: quarters of the last gap
  logging,              \* is a tooth or composite log running?
  SlotTimes,            \* how long the wheel may take from one position to the next
  RestPositions,        \* where the wheel may come to rest
  Speeds,               \* "slow": below 2000 RPM, "fast": at or above
  Faults,               \* the kinds of fault that may happen
  MaxFaults             \* bound: how many of them

ASSUME DecoderAssumption ==
  /\ triggerTeeth \in Nat /\ triggerMissingTeeth \in Nat \ {0}
  /\ triggerTeeth > triggerMissingTeeth
  /\ sequential \in BOOLEAN /\ logging \in BOOLEAN
  /\ triggerFilter \in 0..3
  /\ SlotTimes \subseteq Nat \ {0, 1}
  /\ RestPositions \subseteq 0..(2 * triggerTeeth - 1)
  /\ Speeds \subseteq {"slow", "fast"}
  /\ Faults \subseteq {"pulse", "cam", "noise", "stall"}
  /\ MaxFaults \in Nat

VARIABLES
  position,             \* true place in the cycle, two turns of the wheel
  edge,                 \* an edge waiting for its handler: "none", "primary", "cam"
  spent,                \* time of the present slot already gone by, when noise came
  sinceTooth,           \* micros() - toothLastToothTime
  lastGap,              \* toothLastToothTime - toothLastMinusOneToothTime, 0 until known
  seen,                 \* toothLastToothTime > 0
  toothCurrentCount,
  syncStatus,           \* decoderStatus.syncStatus
  toothAngleIsCorrect,  \* decoderStatus.toothAngleIsCorrect
  revolutionOne,        \* second turn of the cycle, as the decoder believes
  secondaryToothCount,  \* only whether it is zero is ever asked
  triggerFilterTime,
  camSeen,              \* toothLastSecToothTime > 0
  sinceCam,             \* micros() - toothLastSecToothTime, in cycles
  triggerSecFilterTime, \* half of the time of so many cycles; 0: what triggerSetup sets
  faults,               \* faults so far
  disturbed,            \* a pulse was lost or invented, no stall or QuietMax positions ago
  quiet                 \* positions passed since, or since the gap was last not looked for

wheel == <<position, edge, spent, faults, disturbed, quiet>>
cam == <<camSeen, sinceCam, triggerSecFilterTime>>
decoder == <<sinceTooth, lastGap, seen, toothCurrentCount, syncStatus,
             toothAngleIsCorrect, revolutionOne, secondaryToothCount, triggerFilterTime>>
vars == <<wheel, cam, decoder>>

triggerActualTeeth == triggerTeeth - triggerMissingTeeth

\* The place of the cam tooth: half way through the second turn.
CamPosition == triggerTeeth + triggerTeeth \div 2

\* Five turns of the wheel: enough to show that a fault has been forgotten, which four
\* are not.
QuietMax == 5 * triggerTeeth

TrueTooth == LET slot == (position % triggerTeeth) + 1
             IN  IF slot <= triggerActualTeeth THEN slot ELSE triggerActualTeeth

TrueRevolution == position >= triggerTeeth

TypeOK ==
  /\ position \in 0..(2 * triggerTeeth - 1)
  /\ edge \in {"none", "primary", "cam"}
  /\ spent \in {0, 1}
  /\ sinceTooth \in Nat /\ lastGap \in Nat /\ seen \in BOOLEAN
  /\ toothCurrentCount \in Nat
  /\ toothCurrentCount > triggerActualTeeth /\ toothCurrentCount > 2 => logging
  /\ syncStatus \in {"None", "Partial", "Full"}
  /\ toothAngleIsCorrect \in BOOLEAN
  /\ revolutionOne \in BOOLEAN
  /\ secondaryToothCount \in {0, 1}
  /\ triggerFilterTime \in Nat
  /\ camSeen \in BOOLEAN /\ sinceCam \in Nat /\ triggerSecFilterTime \in Nat
  /\ faults \in 0..MaxFaults
  /\ disturbed \in BOOLEAN
  /\ quiet \in 0..QuietMax

-----------------------------------------------------------------------------
(* The wheel turns.                                                        *)

Turn ==
  /\ edge = "none"
  /\ \E d \in SlotTimes : sinceTooth' = IF seen THEN sinceTooth + d - spent ELSE 0
  /\ spent' = 0
  /\ position' = (position + 1) % (2 * triggerTeeth)
  /\ edge' = IF position' % triggerTeeth < triggerActualTeeth THEN "primary" ELSE "none"
  /\ sinceCam' = IF camSeen /\ position' = CamPosition THEN sinceCam + 1 ELSE sinceCam
  /\ disturbed' = (disturbed /\ quiet < QuietMax)
  /\ quiet' = IF disturbed' THEN quiet + 1 ELSE 0
  /\ UNCHANGED <<lastGap, seen, toothCurrentCount, syncStatus, toothAngleIsCorrect,
                 revolutionOne, secondaryToothCount, triggerFilterTime, camSeen,
                 triggerSecFilterTime, faults>>

\* Once the handler of the primary is done the cam tooth of that position comes.
handled == edge' = IF position = CamPosition /\ spent = 0 THEN "cam" ELSE "none"

Fault(kind) ==
  /\ kind \in Faults
  /\ faults < MaxFaults
  /\ faults' = faults + 1
  /\ disturbed' = (kind # "stall")
  /\ quiet' = 0

LostPulse ==
  /\ edge = "primary"
  /\ Fault("pulse")
  /\ handled
  /\ UNCHANGED <<position, spent, cam, decoder>>

LostCamPulse ==
  /\ edge = "cam"
  /\ Fault("cam")
  /\ edge' = "none"
  /\ UNCHANGED <<position, spent, cam, decoder>>

\* A spurious edge shortly after the last one.
NoisePulse ==
  /\ edge = "none"
  /\ spent = 0
  /\ Fault("noise")
  /\ edge' = "primary"
  /\ spent' = 1
  /\ sinceTooth' = IF seen THEN sinceTooth + 1 ELSE 0
  /\ UNCHANGED <<position, lastGap, seen, toothCurrentCount, syncStatus,
                 toothAngleIsCorrect, revolutionOne, secondaryToothCount,
                 triggerFilterTime, cam>>

-----------------------------------------------------------------------------
(* triggerPri_missingTooth.                                                *)

setFilter(gap) == IF triggerFilter = 3 THEN (gap * 3) \div 4 ELSE (gap * triggerFilter) \div 4

targetGap == IF triggerMissingTeeth = 1 THEN (3 * lastGap) \div 2
                                        ELSE lastGap * triggerMissingTeeth

\* A pulse that passes the filter is counted.
Counted == toothCurrentCount + 1

validPulse == edge = "primary" /\ sinceTooth >= triggerFilterTime

twoTeethSeen == seen /\ lastGap > 0

\* The search for the gap is left out at speed in the first part of the wheel.
\* currentStatus.RPM belongs to the main loop and may be behind: the speed is free.
GapSearched(speed) ==
  \/ syncStatus # "Full"
  \/ speed = "slow"
  \/ Counted >= (3 * triggerActualTeeth) \div 4

GapFound(speed) ==
  /\ GapSearched(speed)
  /\ sinceTooth > targetGap \/ Counted > triggerActualTeeth

FilteredPulse ==
  /\ edge = "primary"
  /\ sinceTooth < triggerFilterTime
  /\ handled
  /\ UNCHANGED <<position, spent, faults, disturbed, quiet, cam, decoder>>

\* The pulse becomes the last tooth.
NewLastTooth ==
  /\ lastGap' = sinceTooth
  /\ sinceTooth' = 0
  /\ seen' = TRUE

FirstTeeth ==
  /\ validPulse
  /\ ~twoTeethSeen
  /\ NewLastTooth
  /\ toothCurrentCount' = Counted
  /\ handled
  /\ UNCHANGED <<position, spent, faults, disturbed, quiet, cam, syncStatus, toothAngleIsCorrect,
                 revolutionOne, secondaryToothCount, triggerFilterTime>>

\* Too few teeth before the gap.  The times of the last teeth are kept.
SyncLost(speed) ==
  /\ validPulse
  /\ twoTeethSeen
  /\ GapFound(speed)
  /\ Counted < triggerActualTeeth
  /\ syncStatus = "Full"
  /\ syncStatus' = "None"
  /\ toothCurrentCount' = Counted
  /\ handled
  /\ UNCHANGED <<position, spent, faults, disturbed, quiet, cam, sinceTooth, lastGap, seen,
                 toothAngleIsCorrect, revolutionOne, secondaryToothCount,
                 triggerFilterTime>>

MutantNeverOne(speed) ==
  /\ validPulse
  /\ twoTeethSeen
  /\ GapFound(speed)
  /\ Counted >= triggerActualTeeth \/ syncStatus # "Full"
  /\ NewLastTooth
  /\ toothCurrentCount' = Counted
  /\ revolutionOne' = ~revolutionOne
  /\ syncStatus' = IF ~sequential \/ secondaryToothCount > 0 THEN "Full"
                   ELSE IF syncStatus = "Full" THEN "Full" ELSE "Partial"
  /\ secondaryToothCount' = 0
  /\ triggerFilterTime' = 0
  /\ toothAngleIsCorrect' = FALSE
  /\ handled
  /\ UNCHANGED <<position, spent, faults, disturbed, quiet, cam>>

MutantAngleCorrect(speed) ==
  /\ validPulse
  /\ twoTeethSeen
  /\ GapFound(speed)
  /\ Counted >= triggerActualTeeth \/ syncStatus # "Full"
  /\ NewLastTooth
  /\ toothCurrentCount' = 1
  /\ revolutionOne' = ~revolutionOne
  /\ syncStatus' = IF ~sequential \/ secondaryToothCount > 0 THEN "Full"
                   ELSE IF syncStatus = "Full" THEN "Full" ELSE "Partial"
  /\ secondaryToothCount' = 0
  /\ triggerFilterTime' = 0
  /\ toothAngleIsCorrect' = TRUE
  /\ handled
  /\ UNCHANGED <<position, spent, faults, disturbed, quiet, cam>>

MutantFilterKept(speed) ==
  /\ validPulse
  /\ twoTeethSeen
  /\ GapFound(speed)
  /\ Counted >= triggerActualTeeth \/ syncStatus # "Full"
  /\ NewLastTooth
  /\ toothCurrentCount' = 1
  /\ revolutionOne' = ~revolutionOne
  /\ syncStatus' = IF ~sequential \/ secondaryToothCount > 0 THEN "Full"
                   ELSE IF syncStatus = "Full" THEN "Full" ELSE "Partial"
  /\ secondaryToothCount' = 0
  /\ triggerFilterTime' = setFilter(sinceTooth)
  /\ toothAngleIsCorrect' = FALSE
  /\ handled
  /\ UNCHANGED <<position, spent, faults, disturbed, quiet, cam>>

ToothOne(speed) ==
  /\ validPulse
  /\ twoTeethSeen
  /\ GapFound(speed)
  /\ Counted >= triggerActualTeeth \/ syncStatus # "Full"
  /\ NewLastTooth
  /\ toothCurrentCount' = 1
  /\ revolutionOne' = ~revolutionOne
  /\ syncStatus' = IF ~sequential \/ secondaryToothCount > 0 THEN "Full"
                   ELSE IF syncStatus = "Full" THEN "Full" ELSE "Partial"
  /\ secondaryToothCount' = 0
  /\ triggerFilterTime' = 0
  /\ toothAngleIsCorrect' = FALSE
  /\ handled
  /\ UNCHANGED <<position, spent, faults, disturbed, quiet, cam>>

RegularTooth(speed) ==
  /\ validPulse
  /\ twoTeethSeen
  /\ ~GapFound(speed)
  /\ NewLastTooth
  /\ toothCurrentCount' = Counted
  /\ triggerFilterTime' = setFilter(sinceTooth)
  /\ toothAngleIsCorrect' = TRUE
  /\ handled
  /\ quiet' = IF GapSearched(speed) THEN quiet ELSE 0
  /\ UNCHANGED <<position, spent, faults, disturbed, cam, syncStatus, revolutionOne,
                 secondaryToothCount>>

triggerPri_missingTooth ==
  \/ FilteredPulse
  \/ FirstTeeth
  \/ \E speed \in Speeds : SyncLost(speed) \/ ToothOne(speed) \/ RegularTooth(speed)

-----------------------------------------------------------------------------
(* triggerSec_missingTooth, SEC_TRIGGER_SINGLE.                            *)
(* The cam tooth comes once in a cycle, so the time since its last pulse   *)
(* is that of whole cycles, and so was the gap that the filter is half of. *)
(* now and before are the mean times of a slot in the two.                 *)

\* The first pulse after a reset has no gap, and a filter time is never zero.
InCamFilter ==
  ~camSeen \/ \E now, before \in SlotTimes : 2 * sinceCam * now < triggerSecFilterTime * before

MutantFirstCounts ==
  ~camSeen \/ \E now, before \in SlotTimes : 2 * sinceCam * now >= triggerSecFilterTime * before

PastCamFilter ==
  camSeen /\ \E now, before \in SlotTimes : 2 * sinceCam * now >= triggerSecFilterTime * before

\* Only the very first pulse is kept as the last one.
FilteredCamPulse ==
  /\ InCamFilter
  /\ UNCHANGED <<revolutionOne, secondaryToothCount, sinceCam, triggerSecFilterTime>>

CountedCamPulse ==
  /\ PastCamFilter
  /\ revolutionOne' = TRUE
  /\ secondaryToothCount' = 1
  /\ triggerSecFilterTime' = sinceCam
  /\ sinceCam' = 0

triggerSec_missingTooth ==
  /\ edge = "cam"
  /\ edge' = "none"
  /\ FilteredCamPulse \/ CountedCamPulse
  /\ camSeen' = TRUE
  /\ UNCHANGED <<position, spent, faults, disturbed, quiet, sinceTooth, lastGap, seen,
                 toothCurrentCount, syncStatus, toothAngleIsCorrect, triggerFilterTime>>

-----------------------------------------------------------------------------
(* The engine stops.                                                       *)

\* The engine stands still, the main loop resets the decoder, and sets it up anew
\* unless a log has taken over the interrupts.  The filter times triggerSetup sets
\* are shorter than any gap between two pulses.
resetDecoder ==
  /\ seen' = FALSE
  /\ sinceTooth' = 0
  /\ lastGap' = 0
  /\ syncStatus' = "None"
  /\ secondaryToothCount' = 0
  /\ triggerFilterTime' = 0
  /\ toothCurrentCount' = IF logging THEN toothCurrentCount ELSE 0
  /\ camSeen' = FALSE
  /\ sinceCam' = 0
  /\ triggerSecFilterTime' = IF logging THEN triggerSecFilterTime ELSE 0
  /\ UNCHANGED <<toothAngleIsCorrect, revolutionOne>>

Stall ==
  /\ edge = "none"
  /\ seen
  /\ position \in RestPositions
  /\ Fault("stall")
  /\ resetDecoder
  /\ spent' = 0
  /\ UNCHANGED <<position, edge>>

Init ==
  /\ position \in RestPositions
  /\ edge = "none" /\ spent = 0
  /\ sinceTooth = 0 /\ lastGap = 0 /\ seen = FALSE
  /\ toothCurrentCount = 0
  /\ syncStatus = "None"
  /\ toothAngleIsCorrect = FALSE
  /\ revolutionOne = FALSE
  /\ secondaryToothCount = 0
  /\ triggerFilterTime = 0
  /\ camSeen = FALSE /\ sinceCam = 0 /\ triggerSecFilterTime = 0
  /\ faults = 0
  /\ disturbed = FALSE
  /\ quiet = 0

Next ==
  \/ Turn
  \/ triggerPri_missingTooth
  \/ triggerSec_missingTooth
  \/ LostPulse
  \/ LostCamPulse
  \/ NoisePulse
  \/ Stall

Spec == Init /\ [][Next]_vars

\* The wheel keeps turning and its edges are served.
FairSpec == Spec /\ WF_vars(Turn \/ triggerPri_missingTooth \/ triggerSec_missingTooth)

-----------------------------------------------------------------------------
(* Properties.                                                             *)

\* What getCrankAngle works from is where the wheel is.
Aligned ==
  /\ toothCurrentCount = TrueTooth
  /\ sequential => revolutionOne = TrueRevolution

\* Full sync is never claimed at the wrong place while the sensors work, wherever in
\* RestPositions the engine starts and stops, however often its speed changes.  And
\* whatever pulses were lost or invented, also at speed, QuietMax positions later full
\* sync means the right place again.  Positions count only while the gap is looked for:
\* at speed it is not in the first three quarters of a turn, and the decoder may stay at
\* the wrong place for as long as the speed stays high.
FullMeansAligned ==
  syncStatus = "Full" /\ edge = "none" /\ ~disturbed => Aligned

\* The two last teeth are one tooth angle apart when the decoder says so:
\* timeToAngleIntervalTooth divides by the gap.
AngleCorrectMeansOneSlot ==
  toothAngleIsCorrect /\ syncStatus = "Full" /\ ~disturbed => lastGap \in SlotTimes

\* Full sync comes back (faults are bounded, so they do stop).
SyncReturns == <>[](syncStatus = "Full")
=============================================================================
