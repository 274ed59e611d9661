------------------------ MODULE EngineProtection_proofs ------------------------
(* Proofs about the rolling cut, for every number of channels and every cut *)
(* type.                                                                    *)
EXTENDS EngineProtection, TLAPS

\* Spark is only awaited while rolling: every other cut clears it.  Without
\* this a late return of spark could follow a cut that was not rolled.
PendingOnlyRolling == cutStatus # "Rolling" => ignitionChannelsPending = {}

\* Where spark waits: a channel that has its fuel and no spark got the fuel from the last
\* roll or one before it.  So the count of revolutions has not left the roll's behind by
\* more than the channel was fuelled for, until that is two revolutions.
FuelSinceRoll ==
  /\ \A c \in AllChannels : c \notin fuelChannels => fuelledFor[c] = 0
  /\ supportPendingIgnitionCut =>
       \A c \in (fuelChannels \intersect IgnOutputs) \ ignitionChannels :
         fuelledFor[c] = 2 \/ startRevolutions <= rollingCutLastRev + fuelledFor[c]

IInv == TypeOK /\ PendingOnlyRolling /\ CutChannelsStayCut /\ FuelSinceRoll

ParamTypes ==
  /\ IgnWidths \subseteq 1..8 /\ InjWidths \subseteq 1..8
  /\ MaxRevs \in Nat /\ MaxResyncs \in Nat

LEMMA Parameters == ParamTypes
BY ProtectionAssumption DEF ProtectionAssumption, ParamTypes

LEMMA Channels ==
  ASSUME TypeOK
  PROVE  IgnOutputs \subseteq AllChannels /\ InjOutputs \subseteq AllChannels /\ Rolled \subseteq AllChannels
BY Parameters DEF ParamTypes, TypeOK, IgnOutputs, InjOutputs, Rolled, AllChannels

\* A pass of the main loop keeps how long the channels have had their fuel.
FuelKept ==
  fuelledFor' = [c \in AllChannels |-> IF c \in fuelChannels' THEN fuelledFor[c] ELSE 0]

LEMMA FuelKeptType ==
  ASSUME TypeOK, FuelKept
  PROVE  /\ fuelledFor' \in [AllChannels -> 0..2]
         /\ \A c \in AllChannels : c \notin fuelChannels' => fuelledFor'[c] = 0
         /\ \A c \in AllChannels : c \in fuelChannels' => fuelledFor'[c] = fuelledFor[c]
BY DEF TypeOK, FuelKept

\* A cut that no dice decide leaves nothing pending and is not "Rolling"; where fuel and
\* spark are both cut it gives spark to every channel in use or fuel to none.
LEMMA FixedCutIsPlain ==
  ASSUME FixedCut
  PROVE  /\ ignitionChannels' \subseteq IgnOutputs'
         /\ fuelChannels' \subseteq InjOutputs'
         /\ ignitionChannelsPending' = {}
         /\ cutStatus' \in {"None", "Full"}
         /\ supportPendingIgnitionCut =>
              fuelChannels' = {} \/ ignitionChannels' = AllChannels \intersect IgnOutputs'
BY DEF FixedCut, NoCut, applyFullCut, maskUnusedChannels, IgnOutputs, InjOutputs, widths, supportPendingIgnitionCut

\* What applyPendingIgnitionCuts makes of a cut state.
LEMMA PendingApplied ==
  ASSUME NEW ign, NEW fuel, NEW pending, NEW status, NEW lastRev,
         applyPendingIgnitionCuts(ign, fuel, pending, status, lastRev)
  PROVE  /\ fuelChannels' = fuel \intersect InjOutputs
         /\ \/ /\ pending # {} /\ PendingDue(lastRev)
               /\ ignitionChannels' = fuel \intersect IgnOutputs
               /\ ignitionChannelsPending' = {} /\ cutStatus' = "Rolling"
            \/ /\ ignitionChannels' = ign \intersect IgnOutputs
               /\ ignitionChannelsPending' = pending /\ cutStatus' = status
BY DEF applyPendingIgnitionCuts, maskUnusedChannels

\* The dice are due two revolutions at least after the last roll, and not in the pass that
\* first comes to the window.
LEMMA RollIsLate ==
  ASSUME IInv, RollDue
  PROVE  rollingCutLastRev # 0 /\ startRevolutions > rollingCutLastRev
         /\ (supportPendingIgnitionCut => startRevolutions >= rollingCutLastRev + 4)
<1>1. startRevolutions \in Nat /\ rollingCutLastRev \in Nat
  BY Parameters DEF ParamTypes, IInv, TypeOK
<1>2. calcRollingCutRevolutions \in Nat /\ calcRollingCutRevolutions >= 1
      /\ (supportPendingIgnitionCut => calcRollingCutRevolutions = 4)
  BY DEF calcRollingCutRevolutions, calcBaseCutRevolutions, supportPendingIgnitionCut
<1> QED BY <1>1, <1>2 DEF RollDue, lastRevOr

LEMMA RollPreserves ==
  ASSUME IInv, Roll, FuelKept, UNCHANGED <<zone, synced, widths, startRevolutions, resyncs>>
  PROVE  IInv'
<1> USE Parameters DEF ParamTypes
<1>1. PICK off \in SUBSET Rolled :
        rolledOff' = off /\ applyRollingCutPercentage(off, startRevolutions)
  BY DEF Roll
<1> DEFINE on == Rolled \ off
           waiting == IF supportPendingIgnitionCut THEN on \ fuelChannels ELSE {}
           ign == IF protectType = "FUEL" THEN ignitionChannels ELSE ignitionChannels \ off
           fuel == IF protectType = "IGN" THEN fuelChannels ELSE fuelChannels \ off
           nextIgn == ign \union (on \ waiting)
           nextFuel == fuel \union on
           pending == ignitionChannelsPending \union waiting
<1>2. applyPendingIgnitionCuts(nextIgn, nextFuel, pending, "Rolling", startRevolutions)
  BY <1>1 DEF applyRollingCutPercentage
<1>3. ~PendingDue(startRevolutions)
  BY DEF PendingDue, IInv, TypeOK
<1> HIDE DEF nextIgn, nextFuel, pending
<1>4. /\ fuelChannels' = nextFuel \intersect InjOutputs
      /\ ignitionChannels' = nextIgn \intersect IgnOutputs
      /\ ignitionChannelsPending' = pending
      /\ cutStatus' = "Rolling"
  BY <1>2, <1>3, PendingApplied
<1>5. pending \subseteq Rolled
  BY DEF pending, IInv, TypeOK
<1>6. /\ IgnOutputs' = IgnOutputs /\ InjOutputs' = InjOutputs /\ Rolled' = Rolled
      /\ maxIgnOutputs' = maxIgnOutputs /\ injChannelCount' = injChannelCount
  BY DEF widths, IgnOutputs, InjOutputs, Rolled
<1>7. TypeOK'
  <2>1. fuelledFor' \in [AllChannels -> 0..2]
    BY FuelKeptType DEF IInv
  <2>2. rollingCutLastRev' = startRevolutions
    BY DEF Roll
  <2> QED BY <1>1, <1>4, <1>5, <1>6, <2>1, <2>2 DEF TypeOK, IInv
<1>8. PendingOnlyRolling'
  BY <1>4 DEF PendingOnlyRolling
<1>9. CutChannelsStayCut'
  <2> SUFFICES ASSUME protectType = "BOTH"
               PROVE  rolledOff' \intersect fuelChannels' = {}
                      /\ rolledOff' \intersect ignitionChannels' = {}
    BY DEF CutChannelsStayCut
  <2>1. nextFuel \intersect off = {}
    BY DEF nextFuel
  <2>2. nextIgn \intersect off = {}
    BY DEF nextIgn
  <2> QED BY <1>1, <1>4, <2>1, <2>2
<1>10. FuelSinceRoll'
  <2>1. \A c \in AllChannels : c \notin fuelChannels' => fuelledFor'[c] = 0
    BY FuelKeptType DEF IInv
  <2>2. ASSUME supportPendingIgnitionCut,
               NEW c \in (fuelChannels' \intersect IgnOutputs') \ ignitionChannels'
        PROVE  startRevolutions' <= rollingCutLastRev' + fuelledFor'[c]
    <3>1. rollingCutLastRev' = startRevolutions /\ startRevolutions' = startRevolutions
          /\ startRevolutions \in Nat
      BY DEF Roll, IInv, TypeOK
    <3>2. c \in AllChannels
      BY <1>6, Channels DEF IInv
    <3>3. fuelledFor'[c] \in Nat
      BY <3>2, FuelKeptType DEF IInv
    <3> QED BY <3>1, <3>3
  <2> QED BY <2>1, <2>2 DEF FuelSinceRoll, supportPendingIgnitionCut
<1> QED BY <1>7, <1>8, <1>9, <1>10 DEF IInv

\* Between two rolls the spark that returns is that of a channel fuelled two revolutions ago.
LEMMA KeepRollApplied ==
  ASSUME IInv, KeepRoll
  PROVE  /\ rollingCutLastRev' \in 0..MaxRevs /\ rollingCutLastRev <= rollingCutLastRev'
         /\ rolledOff' = rolledOff
         /\ fuelChannels' = fuelChannels \intersect InjOutputs
         /\ \/ /\ ignitionChannelsPending # {}
               /\ startRevolutions >= rollingCutLastRev + 2
               /\ ignitionChannels' = fuelChannels \intersect IgnOutputs
               /\ ignitionChannelsPending' = {} /\ cutStatus' = "Rolling"
            \/ /\ ignitionChannels' = ignitionChannels \intersect IgnOutputs
               /\ ignitionChannelsPending' = ignitionChannelsPending
               /\ cutStatus' = cutStatus
<1> USE Parameters DEF ParamTypes
<1>1. startRevolutions \in 0..MaxRevs /\ rollingCutLastRev \in 0..MaxRevs
  BY DEF IInv, TypeOK
<1>2. rollingCutLastRev' = lastRevOr(startRevolutions) /\ rolledOff' = rolledOff
      /\ applyPendingIgnitionCuts(ignitionChannels, fuelChannels, ignitionChannelsPending,
                                  cutStatus, rollingCutLastRev')
  BY DEF KeepRoll
<1>3. rollingCutLastRev' \in 0..MaxRevs /\ rollingCutLastRev <= rollingCutLastRev'
  BY <1>1, <1>2 DEF lastRevOr
<1>4. PendingDue(rollingCutLastRev') => startRevolutions >= rollingCutLastRev + 2
  <2> SUFFICES ASSUME NEW r \in Nat, rollingCutLastRev <= r, PendingDue(r)
               PROVE  startRevolutions >= rollingCutLastRev + 2
    BY <1>1, <1>3
  <2> QED BY <1>1 DEF PendingDue
<1> QED BY <1>2, <1>3, <1>4, PendingApplied

LEMMA KeepRollPreserves ==
  ASSUME IInv, KeepRoll, FuelKept, UNCHANGED <<zone, synced, widths, startRevolutions, resyncs>>
  PROVE  IInv'
<1> USE Parameters DEF ParamTypes
<1>1. /\ fuelChannels' = fuelChannels \intersect InjOutputs
      /\ \/ /\ ignitionChannelsPending # {}
            /\ ignitionChannels' = fuelChannels \intersect IgnOutputs
            /\ ignitionChannelsPending' = {} /\ cutStatus' = "Rolling"
         \/ /\ ignitionChannels' = ignitionChannels \intersect IgnOutputs
            /\ ignitionChannelsPending' = ignitionChannelsPending
            /\ cutStatus' = cutStatus
  BY KeepRollApplied
<1>2. rollingCutLastRev' \in 0..MaxRevs /\ rollingCutLastRev <= rollingCutLastRev' /\ rolledOff' = rolledOff
  BY KeepRollApplied
<1>3. /\ IgnOutputs' = IgnOutputs /\ InjOutputs' = InjOutputs /\ Rolled' = Rolled
      /\ maxIgnOutputs' = maxIgnOutputs /\ injChannelCount' = injChannelCount
  BY DEF widths, IgnOutputs, InjOutputs, Rolled
<1>4. TypeOK'
  <2>1. fuelledFor' \in [AllChannels -> 0..2]
    BY FuelKeptType DEF IInv
  <2> QED BY <1>1, <1>2, <1>3, <2>1 DEF TypeOK, IInv
<1>5. PendingOnlyRolling'
  BY <1>1 DEF PendingOnlyRolling, IInv
<1>6. CutChannelsStayCut'
  BY <1>1, <1>2 DEF CutChannelsStayCut, PendingOnlyRolling, IInv
<1>7. FuelSinceRoll'
  <2>1. \A c \in AllChannels : c \notin fuelChannels' => fuelledFor'[c] = 0
    BY FuelKeptType DEF IInv
  <2>2. ASSUME supportPendingIgnitionCut,
               NEW c \in (fuelChannels' \intersect IgnOutputs') \ ignitionChannels'
        PROVE  fuelledFor'[c] = 2 \/ startRevolutions' <= rollingCutLastRev' + fuelledFor'[c]
    <3>1. c \in (fuelChannels \intersect IgnOutputs) \ ignitionChannels /\ c \in fuelChannels'
      BY <1>1, <1>3
    <3>2. c \in AllChannels
      BY <3>1, Channels DEF IInv
    <3>3. fuelledFor'[c] = fuelledFor[c] /\ fuelledFor[c] \in Nat
      BY <3>1, <3>2, FuelKeptType DEF IInv, TypeOK
    <3>4. fuelledFor[c] = 2 \/ startRevolutions <= rollingCutLastRev + fuelledFor[c]
      BY <2>2, <3>1 DEF IInv, FuelSinceRoll
    <3>5. startRevolutions' = startRevolutions /\ startRevolutions \in Nat /\ rollingCutLastRev \in Nat
      BY DEF IInv, TypeOK
    <3> QED BY <1>2, <3>3, <3>4, <3>5
  <2> QED BY <2>1, <2>2 DEF FuelSinceRoll, supportPendingIgnitionCut
<1> QED BY <1>4, <1>5, <1>6, <1>7 DEF IInv

LEMMA FixedCutPreserves ==
  ASSUME IInv, FixedCut, FuelKept
  PROVE  IInv'
<1>1. TypeOK'
  <2>1. fuelledFor' \in [AllChannels -> 0..2]
    BY FuelKeptType DEF IInv
  <2>2. rolledOff' = {} /\ UNCHANGED <<zone, synced, widths, startRevolutions, rollingCutLastRev, resyncs>>
    BY DEF FixedCut
  <2> QED BY <2>1, <2>2, Parameters, FixedCutIsPlain DEF ParamTypes, IInv, TypeOK, widths
<1>2. PendingOnlyRolling' /\ CutChannelsStayCut'
  BY FixedCutIsPlain DEF PendingOnlyRolling, CutChannelsStayCut
<1>3. FuelSinceRoll'
  <2>1. \A c \in AllChannels : c \notin fuelChannels' => fuelledFor'[c] = 0
    BY FuelKeptType DEF IInv
  <2>2. IgnOutputs' \subseteq AllChannels
    BY <1>1, Parameters DEF ParamTypes, TypeOK, IgnOutputs, AllChannels
  <2>3. ASSUME supportPendingIgnitionCut
        PROVE  (fuelChannels' \intersect IgnOutputs') \ ignitionChannels' = {}
    BY <2>2, <2>3, FixedCutIsPlain
  <2> QED BY <2>1, <2>3 DEF FuelSinceRoll, supportPendingIgnitionCut
<1> QED BY <1>1, <1>2, <1>3 DEF IInv

LEMMA EnginePreserves ==
  ASSUME IInv, SpeedChanges \/ Revolution \/ SyncLost \/ UNCHANGED vars
  PROVE  IInv'
<1>1. UNCHANGED <<widths, cut, rolledOff, rollingCutLastRev>>
  BY DEF SpeedChanges, Revolution, SyncLost, vars, history
<1>2. /\ IgnOutputs' = IgnOutputs /\ InjOutputs' = InjOutputs /\ Rolled' = Rolled
      /\ maxIgnOutputs' = maxIgnOutputs /\ injChannelCount' = injChannelCount
  BY <1>1 DEF widths, IgnOutputs, InjOutputs, Rolled
<1>3. /\ startRevolutions \in Nat /\ rollingCutLastRev \in Nat
      /\ \A c \in AllChannels : fuelledFor[c] \in 0..2
  BY Parameters DEF ParamTypes, IInv, TypeOK
<1>4. zone' \in {"below", "window", "above"} /\ synced' \in BOOLEAN /\ resyncs' \in 0..MaxResyncs
  <2>1. zone' \in {"below", "window", "above"}
    BY DEF SpeedChanges, Revolution, SyncLost, vars, IInv, TypeOK
  <2>2. synced' \in BOOLEAN
    BY DEF SpeedChanges, Revolution, SyncLost, vars, IInv, TypeOK
  <2>3. resyncs' \in 0..MaxResyncs
    BY Parameters DEF ParamTypes, SpeedChanges, Revolution, SyncLost, vars, IInv, TypeOK
  <2> QED BY <2>1, <2>2, <2>3
<1>5. /\ startRevolutions' \in 0..MaxRevs
      /\ fuelledFor' \in [AllChannels -> 0..2]
      /\ \A c \in AllChannels : c \notin fuelChannels => fuelledFor'[c] = fuelledFor[c]
      /\ \A c \in fuelChannels \intersect AllChannels :
           \/ fuelledFor'[c] = 2
           \/ startRevolutions' <= startRevolutions /\ fuelledFor[c] <= fuelledFor'[c]
           \/ startRevolutions' = startRevolutions + 1 /\ fuelledFor'[c] = fuelledFor[c] + 1
  <2>1. CASE Revolution
    <3>1. startRevolutions < MaxRevs
          /\ startRevolutions' = IF synced THEN startRevolutions + 1 ELSE 0
      BY <2>1 DEF Revolution
    <3>2. fuelledFor' = [c \in AllChannels |-> IF c \in fuelChannels /\ fuelledFor[c] < 2
                                               THEN fuelledFor[c] + 1 ELSE fuelledFor[c]]
      BY <2>1 DEF Revolution
    <3>3. fuelledFor' \in [AllChannels -> 0..2]
      BY <1>3, <3>2
    <3> QED BY <1>3, <3>1, <3>2, <3>3, Parameters DEF ParamTypes
  <2>2. CASE ~Revolution
    <3>1. startRevolutions' = startRevolutions /\ fuelledFor' = fuelledFor
      BY <2>2 DEF SpeedChanges, SyncLost, vars, history
    <3> QED BY <1>3, <3>1 DEF IInv, TypeOK
  <2> QED BY <2>1, <2>2
<1>6. TypeOK'
  BY <1>1, <1>2, <1>4, <1>5 DEF IInv, TypeOK, cut
<1>7. PendingOnlyRolling' /\ CutChannelsStayCut'
  BY <1>1 DEF PendingOnlyRolling, CutChannelsStayCut, IInv, cut
<1>8. FuelSinceRoll'
  <2>1. fuelChannels' = fuelChannels /\ ignitionChannels' = ignitionChannels
        /\ rollingCutLastRev' = rollingCutLastRev
    BY <1>1 DEF cut
  <2>2. \A c \in AllChannels : c \notin fuelChannels => fuelledFor'[c] = 0
    BY <1>5 DEF IInv, FuelSinceRoll
  <2>3. ASSUME supportPendingIgnitionCut,
               NEW c \in (fuelChannels \intersect IgnOutputs) \ ignitionChannels
        PROVE  fuelledFor'[c] = 2 \/ startRevolutions' <= rollingCutLastRev + fuelledFor'[c]
    <3>1. c \in AllChannels
      BY Channels DEF IInv
    <3>2. fuelledFor[c] = 2 \/ startRevolutions <= rollingCutLastRev + fuelledFor[c]
      BY <2>3 DEF IInv, FuelSinceRoll
    <3>3. fuelledFor[c] \in 0..2 /\ fuelledFor'[c] \in 0..2 /\ startRevolutions' \in Nat
      BY <1>3, <1>5, <3>1, Parameters DEF ParamTypes
    <3>4. \/ fuelledFor'[c] = 2
          \/ startRevolutions' <= startRevolutions /\ fuelledFor[c] <= fuelledFor'[c]
          \/ startRevolutions' = startRevolutions + 1 /\ fuelledFor'[c] = fuelledFor[c] + 1
      BY <1>5, <3>1
    <3> QED BY <1>3, <3>2, <3>3, <3>4
  <2> QED BY <1>2, <2>1, <2>2, <2>3 DEF FuelSinceRoll, supportPendingIgnitionCut
<1> QED BY <1>6, <1>7, <1>8 DEF IInv

-----------------------------------------------------------------------------
LEMMA Initially == Init => IInv
<1> SUFFICES ASSUME Init PROVE IInv
  OBVIOUS
<1>1. synced \in BOOLEAN
  BY DEF Init
<1>2. TypeOK
  BY <1>1, Parameters DEF ParamTypes, Init, TypeOK
<1>3. PendingOnlyRolling /\ CutChannelsStayCut
  BY DEF Init, PendingOnlyRolling, CutChannelsStayCut
<1>4. FuelSinceRoll
  BY DEF Init, FuelSinceRoll
<1> QED BY <1>2, <1>3, <1>4 DEF IInv

LEMMA Step == IInv /\ [Next]_vars => IInv'
<1> SUFFICES ASSUME IInv, [Next]_vars PROVE IInv'
  OBVIOUS
<1>1. CASE calculateFuelIgnitionChannelCut
  <2>1. FuelKept
    BY <1>1 DEF calculateFuelIgnitionChannelCut, FuelKept
  <2>2. CASE applyRollingCut
    BY <2>1, <2>2, RollPreserves, KeepRollPreserves DEF applyRollingCut
  <2>3. CASE FixedCut
    BY <2>1, <2>3, FixedCutPreserves
  <2> QED BY <1>1, <2>2, <2>3 DEF calculateFuelIgnitionChannelCut
<1>2. CASE SpeedChanges \/ Revolution \/ SyncLost \/ UNCHANGED vars
  BY <1>2, EnginePreserves
<1> QED BY <1>1, <1>2 DEF Next

LEMMA Invariant == Spec => []IInv
BY Initially, Step, PTL DEF Spec

\* The bookkeeping stays in range and the masks within the channels in use.
THEOREM ProtectionTypes == Spec => []TypeOK
<1>1. IInv => TypeOK BY DEF IInv
<1> QED BY <1>1, Invariant, PTL

\* Channels the dice cut get neither fuel nor spark before the next roll.
THEOREM CutIsKept == Spec => []CutChannelsStayCut
<1>1. IInv => CutChannelsStayCut BY DEF IInv
<1> QED BY <1>1, Invariant, PTL

\* Where both are cut and do not come once per cycle, no pass of the main loop in the
\* window returns the spark of a channel (applyPendingIgnitionCuts, channelOn) before two
\* revolutions of the engine have passed since its fuel came back.
THEOREM SparkIsLast == Spec => SparkWaitsForFuel
<1> DEFINE Waits == supportPendingIgnitionCut /\ applyRollingCut
                    => \A c \in ignitionChannels' \ ignitionChannels :
                         c \in fuelChannels' /\ fuelledFor[c] = 2
<1>1. IInv /\ [Next]_vars => [Waits]_vars
  <2> SUFFICES ASSUME IInv, applyRollingCut, supportPendingIgnitionCut,
                      NEW c \in ignitionChannels' \ ignitionChannels
               PROVE  c \in fuelChannels' /\ fuelledFor[c] = 2
    OBVIOUS
  <2>1. /\ startRevolutions \in Nat /\ rollingCutLastRev \in Nat
        /\ fuelChannels \subseteq InjOutputs /\ fuelChannels \subseteq AllChannels
        /\ \A k \in fuelChannels : fuelledFor[k] \in 0..2
    BY Channels, Parameters DEF ParamTypes, IInv, TypeOK
  <2>2. ASSUME c \in fuelChannels, c \in IgnOutputs, startRevolutions >= rollingCutLastRev + 2
        PROVE  fuelledFor[c] = 2
    <3>1. fuelledFor[c] = 2 \/ startRevolutions <= rollingCutLastRev + fuelledFor[c]
      BY <2>2 DEF IInv, FuelSinceRoll
    <3>2. fuelledFor[c] \in 0..2
      BY <2>1, <2>2
    <3> QED BY <2>1, <2>2, <3>1, <3>2
  <2>3. CASE Roll
    <3>1. PICK off \in SUBSET Rolled : applyRollingCutPercentage(off, startRevolutions)
      BY <2>3 DEF Roll
    <3> DEFINE on == Rolled \ off
               ign == (ignitionChannels \ off) \union (on \ (on \ fuelChannels))
               fuel == (fuelChannels \ off) \union on
               pending == ignitionChannelsPending \union (on \ fuelChannels)
    <3>2. applyPendingIgnitionCuts(ign, fuel, pending, "Rolling", startRevolutions)
      BY <3>1 DEF applyRollingCutPercentage, supportPendingIgnitionCut
    <3>3. ~PendingDue(startRevolutions)
      BY <2>1 DEF PendingDue
    <3> HIDE DEF pending
    <3>4. ignitionChannels' = ign \intersect IgnOutputs /\ fuelChannels' = fuel \intersect InjOutputs
      BY <3>2, <3>3, PendingApplied
    <3>5. c \in fuelChannels /\ c \in on /\ c \in IgnOutputs
      BY <3>4
    <3>6. startRevolutions >= rollingCutLastRev + 2
      BY <2>1, <2>3, RollIsLate DEF Roll
    <3> QED BY <2>1, <2>2, <3>4, <3>5, <3>6
  <2>4. CASE KeepRoll
    <3>1. /\ startRevolutions >= rollingCutLastRev + 2
          /\ c \in fuelChannels /\ c \in IgnOutputs
          /\ fuelChannels' = fuelChannels \intersect InjOutputs
      BY <2>4, KeepRollApplied
    <3> QED BY <2>1, <2>2, <3>1
  <2> QED BY <2>3, <2>4 DEF applyRollingCut
<1>2. Spec => [][Waits]_vars
  BY <1>1, Invariant, PTL DEF Spec
<1> QED BY <1>2 DEF SparkWaitsForFuel
=============================================================================
