--------------------------- MODULE EngineProtection ---------------------------
(***************************************************************************)
(* The hard and the rolling rev limiter of engineProtection.cpp: which     *)
(* fuel and ignition channels the main loop may arm.  In the window below  *)
(* the limit a roll of the dice every few revolutions decides channel by   *)
(* channel; where fuel and spark are both cut and do not come once per     *)
(* cycle, the spark returns two revolutions after the fuel.                *)
(*                                                                         *)
(* The decoder counts revolutions, and counts anew after a stall or a loss *)
(* of sync.  Speed is reduced to the three zones the code tells apart.     *)
(***************************************************************************)
EXTENDS Integers

CONSTANTS
  IgnWidths,        \* how many ignition channels may be in use
  InjWidths,        \* how many injection channels may be
  protectType,      \* configPage6.engineProtectType: "IGN", "FUEL" or "BOTH"
  nonSequential,    \* is ignition or injection not sequential?
  fourStroke,       \* configPage2.strokes
  StgCycles,        \* configPage4.StgCycles: revolutions before the first spark
  MaxRevs,          \* bound: revolutions counted
  MaxResyncs        \* bound: losses of sync and stalls

ASSUME ProtectionAssumption ==
  /\ IgnWidths \subseteq 1..8 /\ InjWidths \subseteq 1..8
  /\ protectType \in {"IGN", "FUEL", "BOTH"}
  /\ nonSequential \in BOOLEAN /\ fourStroke \in BOOLEAN
  /\ StgCycles \in Nat /\ MaxRevs \in Nat /\ MaxResyncs \in Nat

VARIABLES
  zone,               \* RPM: "below" the window, in the "window", "above" the limit
  synced,             \* syncStatus is not None
  maxIgnOutputs,      \* ignition channels in use
  injChannelCount,    \* getTotalInjChannelCount
  startRevolutions,
  rollingCutLastRev,
  ignitionChannels, fuelChannels, ignitionChannelsPending, cutStatus,  \* schedulerCutState
  rolledOff,          \* channels the last roll cut
  fuelledFor,         \* revolutions a channel has had its fuel for, up to two
  resyncs

cut == <<ignitionChannels, fuelChannels, ignitionChannelsPending, cutStatus>>
widths == <<maxIgnOutputs, injChannelCount>>
history == <<rolledOff, fuelledFor>>
vars == <<zone, synced, widths, startRevolutions, rollingCutLastRev, cut, history, resyncs>>

AllChannels == 1..8
IgnOutputs == 1..maxIgnOutputs
InjOutputs == 1..injChannelCount
Rolled == IgnOutputs \union InjOutputs

TypeOK ==
  /\ zone \in {"below", "window", "above"}
  /\ synced \in BOOLEAN
  /\ maxIgnOutputs \in IgnWidths /\ injChannelCount \in InjWidths
  /\ startRevolutions \in 0..MaxRevs
  /\ rollingCutLastRev \in 0..MaxRevs
  /\ ignitionChannels \subseteq IgnOutputs
  /\ fuelChannels \subseteq InjOutputs
  /\ ignitionChannelsPending \subseteq Rolled
  /\ cutStatus \in {"None", "Rolling", "Full"}
  /\ rolledOff \subseteq Rolled
  /\ fuelledFor \in [AllChannels -> 0..2]
  /\ resyncs \in 0..MaxResyncs

-----------------------------------------------------------------------------
(* calculateFuelIgnitionChannelCut, once per pass of the main loop.        *)

calcBaseCutRevolutions == IF fourStroke THEN 2 ELSE 1

calcRollingCutRevolutions ==
  IF nonSequential THEN 2 * calcBaseCutRevolutions ELSE calcBaseCutRevolutions

supportPendingIgnitionCut == fourStroke /\ nonSequential /\ protectType = "BOTH"

MutantUnmasked(ign, fuel) ==
  /\ ignitionChannels' = ign
  /\ fuelChannels' = fuel

maskUnusedChannels(ign, fuel) ==
  /\ ignitionChannels' = ign \intersect IgnOutputs
  /\ fuelChannels' = fuel \intersect InjOutputs

NoCut ==
  /\ maskUnusedChannels(AllChannels, AllChannels)
  /\ ignitionChannelsPending' = {}
  /\ cutStatus' = "None"

applyFullCut(type) ==
  /\ maskUnusedChannels(IF type = "FUEL" THEN AllChannels ELSE {},
                        IF type = "IGN" THEN AllChannels ELSE {})
  /\ ignitionChannelsPending' = {}
  /\ cutStatus' = "Full"

MutantOneRevolution(lastRev) == startRevolutions >= lastRev + 1

\* Have two revolutions passed since the fuel came back?
PendingDue(lastRev) == startRevolutions >= lastRev + 2

MutantReturnsAll(ign, fuel, pending, status, lastRev) ==
  IF pending # {} /\ PendingDue(lastRev)
  THEN /\ maskUnusedChannels(AllChannels, fuel)
       /\ ignitionChannelsPending' = {}
       /\ cutStatus' = "Rolling"
  ELSE /\ maskUnusedChannels(ign, fuel)
       /\ ignitionChannelsPending' = pending
       /\ cutStatus' = status

MutantForgetsPending(ign, fuel, pending, status, lastRev) ==
  /\ maskUnusedChannels(ign, fuel)
  /\ ignitionChannelsPending' = pending
  /\ cutStatus' = status

applyPendingIgnitionCuts(ign, fuel, pending, status, lastRev) ==
  IF pending # {} /\ PendingDue(lastRev)
  THEN /\ maskUnusedChannels(fuel, fuel)
       /\ ignitionChannelsPending' = {}
       /\ cutStatus' = "Rolling"
  ELSE /\ maskUnusedChannels(ign, fuel)
       /\ ignitionChannelsPending' = pending
       /\ cutStatus' = status

\* channelOff for the channels of off, channelOn for the others.  Those whose
\* fuel was off wait for their spark.
applyRollingCutPercentage(off, lastRev) ==
  LET on == Rolled \ off
      waiting == IF supportPendingIgnitionCut THEN on \ fuelChannels ELSE {}
      ign == IF protectType = "FUEL" THEN ignitionChannels ELSE ignitionChannels \ off
      fuel == IF protectType = "IGN" THEN fuelChannels ELSE fuelChannels \ off
  IN  applyPendingIgnitionCuts(ign \union (on \ waiting), fuel \union on,
                               ignitionChannelsPending \union waiting, "Rolling", lastRev)

\* rollingCutLastRev, zero until the window is first reached.
lastRevOr(revs) == IF rollingCutLastRev = 0 THEN revs ELSE rollingCutLastRev

RollDue == startRevolutions >= lastRevOr(startRevolutions) + calcRollingCutRevolutions

Roll ==
  /\ RollDue
  /\ rollingCutLastRev' = startRevolutions
  /\ \E off \in SUBSET Rolled :
       /\ rolledOff' = off
       /\ applyRollingCutPercentage(off, startRevolutions)

KeepRoll ==
  /\ ~RollDue
  /\ rollingCutLastRev' = lastRevOr(startRevolutions)
  /\ applyPendingIgnitionCuts(ignitionChannels, fuelChannels, ignitionChannelsPending,
                              cutStatus, rollingCutLastRev')
  /\ UNCHANGED rolledOff

CutWhileStarting == ~synced \/ startRevolutions < StgCycles

applyRollingCut ==
  /\ ~CutWhileStarting
  /\ zone = "window"
  /\ Roll \/ KeepRoll
  /\ UNCHANGED <<zone, synced, widths, startRevolutions, resyncs>>

\* The branches without dice.
FixedCut ==
  /\ \/ CutWhileStarting /\ applyFullCut("BOTH")
     \/ ~CutWhileStarting /\ zone = "above" /\ applyFullCut(protectType)
     \/ ~CutWhileStarting /\ zone = "below" /\ NoCut
  /\ rolledOff' = {}
  /\ UNCHANGED <<zone, synced, widths, startRevolutions, rollingCutLastRev, resyncs>>

calculateFuelIgnitionChannelCut ==
  /\ applyRollingCut \/ FixedCut
  /\ fuelledFor' = [c \in AllChannels |-> IF c \in fuelChannels' THEN fuelledFor[c] ELSE 0]

-----------------------------------------------------------------------------
(* The engine.                                                             *)

SpeedChanges ==
  /\ \E z \in {"below", "window", "above"} \ {zone} : zone' = z
  /\ UNCHANGED <<synced, widths, startRevolutions, rollingCutLastRev, cut, history, resyncs>>

\* Tooth one of the next revolution; with sync just found the count starts.
Revolution ==
  /\ startRevolutions < MaxRevs
  /\ IF synced
     THEN startRevolutions' = startRevolutions + 1
     ELSE startRevolutions' = 0
  /\ synced' = TRUE
  /\ fuelledFor' = [c \in AllChannels |-> IF c \in fuelChannels /\ fuelledFor[c] < 2
                                         THEN fuelledFor[c] + 1 ELSE fuelledFor[c]]
  /\ UNCHANGED <<zone, widths, rollingCutLastRev, cut, rolledOff, resyncs>>

\* A loss of sync, or a stall.
SyncLost ==
  /\ synced
  /\ resyncs < MaxResyncs
  /\ resyncs' = resyncs + 1
  /\ synced' = FALSE
  /\ UNCHANGED <<zone, widths, startRevolutions, rollingCutLastRev, cut, history>>

Init ==
  /\ zone = "below"
  /\ synced = FALSE
  /\ maxIgnOutputs \in IgnWidths /\ injChannelCount \in InjWidths
  /\ startRevolutions = 0
  /\ rollingCutLastRev = 0
  /\ ignitionChannels = {} /\ fuelChannels = {} /\ ignitionChannelsPending = {}
  /\ cutStatus = "None"
  /\ rolledOff = {}
  /\ fuelledFor = [c \in AllChannels |-> 0]
  /\ resyncs = 0

Next ==
  \/ calculateFuelIgnitionChannelCut
  \/ SpeedChanges
  \/ Revolution
  \/ SyncLost

Spec == Init /\ [][Next]_vars

\* The main loop works out the cut in every pass.
FairSpec == Spec /\ WF_vars(calculateFuelIgnitionChannelCut)

-----------------------------------------------------------------------------
(* Properties.                                                             *)

\* In the window the channels the last roll cut get neither fuel nor spark
\* before the next roll: no half cycle comes through.
CutChannelsStayCut ==
  cutStatus = "Rolling" /\ protectType = "BOTH" =>
    /\ rolledOff \intersect fuelChannels = {}
    /\ rolledOff \intersect ignitionChannels = {}

\* Where both are cut and do not come once per cycle: two revolutions after a roll the
\* spark is that of the channels which the dice left on and which have an injection
\* channel, unless the speed leaves the window, sync is lost or the dice are due again.  A
\* channel left on and fuelled is not without spark for longer, whichever of the two masks
\* is wider; one that has no injection channel of its own loses its spark by the copy.
SparkFollowsFuel ==
  /\ supportPendingIgnitionCut
  /\ zone = "window" /\ ~CutWhileStarting /\ cutStatus = "Rolling" /\ PendingDue(rollingCutLastRev)
    ~> \/ zone # "window" \/ ~synced \/ RollDue
       \/ ignitionChannels = (IgnOutputs \intersect InjOutputs) \ rolledOff

\* ... and in the window no pass returns the spark of a channel before its fuel has been
\* back for two revolutions of the engine, also when the count of revolutions starts anew.
SparkWaitsForFuel ==
  [][ supportPendingIgnitionCut /\ applyRollingCut
      => \A c \in ignitionChannels' \ ignitionChannels :
           c \in fuelChannels' /\ fuelledFor[c] = 2 ]_vars
=============================================================================
