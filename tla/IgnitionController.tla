------------------------- MODULE IgnitionController -------------------------
(***************************************************************************)
(* scheduler_ignition_controller.cpp: which coils the ignition schedules   *)
(* drive in each spark mode, and the switch between wasted and sequential  *)
(* operation when the decoder gains or loses full sync.                    *)
(*                                                                         *)
(* The main loop compares the layout with the sync state, then changes it  *)
(* in an ATOMIC block, then works out which channels are cut, then arms    *)
(* the others one by one.  Between these steps the decoder's interrupt may *)
(* change the sync state, and the schedules' interrupts start and end      *)
(* outputs.                                                                *)
(***************************************************************************)
EXTENDS ScheduledOutputs

CONSTANTS
  sparkMode,    \* configPage4.sparkMode
  nCylinders,   \* configPage2.nCylinders
  rotaryType    \* configPage10.rotaryType

ASSUME IgnitionAssumption ==
  /\ nCylinders \in {1, 2, 3, 4, 5, 6, 8}
  /\ sparkMode \in {"WASTED", "SINGLE", "WASTEDCOP", "SEQUENTIAL", "ROTARY"}
  /\ rotaryType \in {"FC", "FD", "RX8"}
  /\ Outputs = 1..8

VARIABLES
  maxAngle,      \* CRANK_ANGLE_MAX_IGN
  maxIgnOutputs, \* current.maxIgnOutputs
  syncStatus,    \* current.decoder.getStatus().syncStatus
  pc,            \* where the main loop is
  cutMask        \* schedulerCutState.ignitionChannels, channels still to arm

ctrlVars == <<maxAngle, maxIgnOutputs, syncStatus, pc, cutMask>>
vars == <<outputVars, ctrlVars>>

SyncStatus == {"None", "Partial", "Full"}

TypeOK ==
  /\ OutputsTypeOK
  /\ maxAngle \in {360, 720}
  /\ maxIgnOutputs \in 1..8
  /\ syncStatus \in SyncStatus
  /\ pc \in {"match", "full", "half", "cut", "arm"}
  /\ cutMask \subseteq Channels

-----------------------------------------------------------------------------
(* Callback tables.                                                        *)

Smaller(a, b) == IF a <= b THEN a ELSE b

setSequentialCallbacks(n) == [c \in 1..Smaller(n, NumChannels) |-> Drive({c})]

setWastedSparkCallbacks == setSequentialCallbacks(5)

setSingleChannelCallbacks == [c \in Channels |-> Drive({1})]

\* Channel c fires its own coil and that of the cylinder half a cycle away.
Paired == [c \in 1..Smaller(nCylinders \div 2, NumChannels) |->
             Drive({c, c + nCylinders \div 2})]

setWastedCOPCallbacks ==
  IF nCylinders \in {4, 6, 8} THEN Paired ELSE setWastedSparkCallbacks

\* Coil 3 is the trailing select line of the FC, not a coil.
RotaryFC ==
  <<Drive({1}), Drive({1}),
    [begin |-> {2}, drop |-> {2}, raise |-> {3}],
    [begin |-> {2}, drop |-> {2, 3}, raise |-> {}]>>

RotaryFD == <<Drive({1}), Drive({1}), Drive({2}), Drive({3})>>

setRotaryCallbacks ==
  CASE rotaryType = "FC" -> [c \in 1..Smaller(4, NumChannels) |-> RotaryFC[c]]
    [] rotaryType = "FD" -> [c \in 1..Smaller(4, NumChannels) |-> RotaryFD[c]]
    [] OTHER -> setSequentialCallbacks(4)

setCallbacks(mode) ==
  CASE mode = "SINGLE" -> setSingleChannelCallbacks
    [] mode = "WASTEDCOP" -> setWastedCOPCallbacks
    [] mode = "SEQUENTIAL" -> setSequentialCallbacks(NumChannels)
    [] mode = "ROTARY" -> setRotaryCallbacks
    [] OTHER -> setWastedSparkCallbacks

-----------------------------------------------------------------------------
(* Matching the layout to the sync state.                                  *)

isSwitchableCylinderCount == nCylinders \in {4, 6, 8}

isSemiSequentialIgnition ==
  /\ sparkMode = "SEQUENTIAL"
  /\ isSwitchableCylinderCount
  /\ syncStatus = "Partial"

isFullSequentialIgnition == sparkMode = "SEQUENTIAL" /\ syncStatus = "Full"

\* The main loop's comparison: which change, if any, is called for.
matchIgnitionSchedulersToSyncState ==
  /\ pc = "match"
  /\ syncStatus # "None"
  /\ pc' = IF isFullSequentialIgnition /\ maxAngle # 720 THEN "full"
           ELSE IF isSemiSequentialIgnition /\ maxAngle # 360 THEN "half"
           ELSE "cut"
  /\ UNCHANGED <<outputVars, maxAngle, maxIgnOutputs, syncStatus, cutMask>>

MutantSwitchWhileRunning(angle, outputs, mode) ==
  /\ maxAngle' = angle
  /\ maxIgnOutputs' = outputs
  /\ callback' = WithCallbacks(setCallbacks(mode))
  /\ pc' = "cut"
  /\ UNCHANGED <<status, level, syncStatus, cutMask>>

SwitchLayout(angle, outputs, mode) ==
  /\ IF ~AnyRunning /\ isSwitchableCylinderCount
     THEN /\ maxAngle' = angle
          /\ maxIgnOutputs' = outputs
          /\ callback' = WithCallbacks(setCallbacks(mode))
     ELSE UNCHANGED <<maxAngle, maxIgnOutputs, callback>>
  /\ pc' = "cut"
  /\ UNCHANGED <<status, level, syncStatus, cutMask>>

MutantHalfSyncWasted ==
  /\ pc = "half"
  /\ SwitchLayout(360, nCylinders \div 2, "WASTED")

changeIgnitionToHalfSync ==
  /\ pc = "half"
  /\ SwitchLayout(360, nCylinders \div 2, "WASTEDCOP")

MutantKeepsAngle ==
  /\ pc = "full"
  /\ SwitchLayout(360, Smaller(NumChannels, nCylinders), "SEQUENTIAL")

changeIgnitionToFullSequential ==
  /\ pc = "full"
  /\ SwitchLayout(720, Smaller(NumChannels, nCylinders), "SEQUENTIAL")

MutantUnmasked ==
  /\ pc = "cut"
  /\ pc' = "arm"
  /\ \E mask \in SUBSET (1..8) : cutMask' = mask
  /\ UNCHANGED <<outputVars, maxAngle, maxIgnOutputs, syncStatus>>

MutantMasksByBoard ==
  /\ pc = "cut"
  /\ pc' = "arm"
  /\ \E mask \in SUBSET Channels : cutMask' = mask
  /\ UNCHANGED <<outputVars, maxAngle, maxIgnOutputs, syncStatus>>

\* Any of the channels in use may be cut, all of them without sync.
calculateFuelIgnitionChannelCut ==
  /\ pc = "cut"
  /\ pc' = "arm"
  /\ \E mask \in SUBSET (1..Smaller(maxIgnOutputs, NumChannels)) :
       /\ syncStatus = "None" => mask = {}
       /\ cutMask' = mask
  /\ UNCHANGED <<outputVars, maxAngle, maxIgnOutputs, syncStatus>>

\* One channel of setIgnitionChannels, each with its own ATOMIC block.  The
\* schedule may be passed over: too near, too far, or running and not queued.
setIgnitionChannel(c) ==
  /\ pc = "arm"
  /\ c \in cutMask
  /\ cutMask' = cutMask \ {c}
  /\ \/ setSchedule(c, TRUE)
     \/ UNCHANGED outputVars
  /\ UNCHANGED <<maxAngle, maxIgnOutputs, syncStatus, pc>>

\* All channels have been looked at: the loop comes round again.
EndOfLoop ==
  /\ pc = "arm"
  /\ cutMask = {}
  /\ pc' = "match"
  /\ UNCHANGED <<outputVars, maxAngle, maxIgnOutputs, syncStatus, cutMask>>

-----------------------------------------------------------------------------
(* Interrupts and commands.                                                *)

ScheduleInterrupt(c) == moveToNextState(c) /\ UNCHANGED ctrlVars

DecoderInterrupt(s) ==
  /\ s # syncStatus
  /\ syncStatus' = s
  /\ UNCHANGED <<outputVars, maxAngle, maxIgnOutputs, pc, cutMask>>

\* Called by the decoder of a distributor and by the output test commands.
stopAllCoilsCharging == stopAll /\ UNCHANGED ctrlVars

-----------------------------------------------------------------------------
\* The outputs initialiseAll gives each mode, four strokes and even fire.
InitialMaxIgnOutputs ==
  IF /\ nCylinders \in {4, 6, 8}
     /\ sparkMode = "SEQUENTIAL" => nCylinders > 4 /\ NumChannels < nCylinders
     /\ sparkMode = "ROTARY" => nCylinders # 4
  THEN nCylinders \div 2
  ELSE nCylinders

InitialMaxAngle ==
  IF /\ sparkMode = "SEQUENTIAL"
     /\ nCylinders \in {6, 8} => NumChannels >= nCylinders
  THEN 720
  ELSE 360

Init ==
  /\ OutputsInit(setCallbacks(sparkMode))
  /\ maxAngle = InitialMaxAngle
  /\ maxIgnOutputs = InitialMaxIgnOutputs
  /\ syncStatus = "None"
  /\ pc = "match"
  /\ cutMask = {}

MainLoop ==
  \/ matchIgnitionSchedulersToSyncState
  \/ changeIgnitionToHalfSync
  \/ changeIgnitionToFullSequential
  \/ calculateFuelIgnitionChannelCut
  \/ \E c \in Channels : setIgnitionChannel(c)
  \/ EndOfLoop

Next ==
  \/ MainLoop
  \/ \E c \in Channels : ScheduleInterrupt(c)
  \/ \E s \in SyncStatus : DecoderInterrupt(s)
  \/ stopAllCoilsCharging

\* The main loop keeps running; every output that starts is ended.
Fairness ==
  /\ WF_vars(MainLoop)
  /\ \A c \in Channels : WF_vars(EndOutput(c) /\ UNCHANGED ctrlVars)

Spec == Init /\ [][Next]_vars

FairSpec == Spec /\ Fairness

-----------------------------------------------------------------------------
(* Properties.                                                             *)

\* No coil is left charging by a change of layout: the callbacks of a schedule
\* that has started a coil are still the ones that end it.  The change is made
\* only while nothing runs, which changeIgnitionToHalfSync and
\* changeIgnitionToFullSequential test inside their ATOMIC blocks.
NoOrphanCharge == NoOrphan

\* In sequential mode every cylinder's coil belongs to a channel that may be
\* armed, in both layouts and through every change of sync.
EveryCylinderSparks ==
  sparkMode = "SEQUENTIAL" =>
    1..nCylinders \subseteq
      UNION {Driven(c) : c \in 1..Smaller(maxIgnOutputs, NumChannels)}

\* A channel the layout no longer uses is not armed again: what was pending when
\* the engine fell back to half sync runs out, and then only the paired channels
\* fire.  (calculateFuelIgnitionChannelCut masks with the new maxIgnOutputs.)
UnusedChannelsRunOut ==
  [][\A c \in Channels :
       c > maxIgnOutputs /\ status'[c] = "PENDING" => status[c] = "PENDING"]_vars

\* When full sync stays, the layout becomes fully sequential, unless again and
\* again some coil is charging at the moment the loop tries to change it.
FullSyncAdopted ==
  <>[](syncStatus = "Full") =>
    \/ <>[](maxAngle = 720)
    \/ []<>(pc = "full" /\ AnyRunning)
=============================================================================
