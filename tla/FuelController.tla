--------------------------- MODULE FuelController ---------------------------
(***************************************************************************)
(* scheduler_fuel_controller.cpp and its caller in the main loop: a pulse  *)
(* width is worked out for the layout of the moment, the layout is matched *)
(* to the sync state, the pulse widths are given to the channels and the   *)
(* channels are armed, while schedules open and close injectors and the    *)
(* decoder gains and loses full sync.                                      *)
(***************************************************************************)
EXTENDS ScheduledOutputs

CONSTANTS
  injLayout,      \* configPage2.injLayout
  nCylinders,     \* configPage2.nCylinders
  inj4cylPairing  \* configPage4.inj4cylPairing

ASSUME FuelAssumption ==
  /\ NumChannels \in 4..8
  /\ nCylinders \in {1, 2, 3, 4, 5, 6, 8}
  /\ injLayout \in {"PAIRED", "SEMISEQUENTIAL", "SEQUENTIAL"}
  /\ inj4cylPairing \in {"13_24", "14_23"}
  /\ Outputs = 1..8

VARIABLES
  maxAngle,            \* CRANK_ANGLE_MAX_INJ
  numPrimary,          \* current.numPrimaryInjOutputs, no staging
  layout,              \* current.injLayout
  syncStatus,          \* current.decoder.getStatus().syncStatus
  pc,                  \* where the main loop is
  dose,                \* what computePulseWidths returned: all of a cycle's fuel or half
  pw,                  \* FuelSchedule::pw of each channel, "none" when zero
  fuelMask             \* schedulerCutState.fuelChannels, channels still to arm

ctrlVars == <<maxAngle, numPrimary, layout, syncStatus, pc, dose, pw, fuelMask>>
vars == <<outputVars, ctrlVars>>

SyncStatus == {"None", "Partial", "Full"}
Layouts == {"PAIRED", "SEMISEQUENTIAL", "SEQUENTIAL"}
Steps == {"pulse", "match", "full", "semi", "assign", "cut", "arm"}

TypeOK ==
  /\ OutputsTypeOK
  /\ maxAngle \in {360, 720}
  /\ numPrimary \in 1..8
  /\ layout \in Layouts
  /\ syncStatus \in SyncStatus
  /\ pc \in Steps
  /\ dose \in {"all", "half"}
  /\ pw \in [Channels -> {"none", "all", "half"}]
  /\ fuelMask \subseteq Channels

Smaller(a, b) == IF a <= b THEN a ELSE b

-----------------------------------------------------------------------------
(* Callback tables.                                                        *)

setupSequentialCallbacks == [c \in Channels |-> Drive({c})]

\* Channel c also opens the injector of the cylinder that is half a cycle away.
Mirrored == [c \in 1..(nCylinders \div 2) |-> Drive({c, c + nCylinders \div 2})]

setupSemiSequentialCallbacks(pairing) ==
  CASE nCylinders = 4 ->
         IF pairing = "13_24" THEN <<Drive({1, 3}), Drive({2, 4})>>
                              ELSE <<Drive({1, 4}), Drive({2, 3})>>
    [] nCylinders = 5 -> <<Drive({1}), Drive({2}), Drive({3, 5}), Drive({4})>>
    [] nCylinders \in {6, 8} -> Mirrored
    [] OTHER -> setupSequentialCallbacks

setupCallbacks(lay, pairing) ==
  IF lay = "SEMISEQUENTIAL" THEN setupSemiSequentialCallbacks(pairing)
                            ELSE setupSequentialCallbacks

-----------------------------------------------------------------------------
(* One pass of the main loop's fuelling.                                   *)

\* calculateRequiredFuel, four strokes: half of a cycle's fuel at a time unless
\* the layout is sequential.
computePulseWidths ==
  /\ pc = "pulse"
  /\ syncStatus # "None"
  /\ dose' = IF layout = "SEQUENTIAL" THEN "all" ELSE "half"
  /\ pc' = "match"
  /\ UNCHANGED <<outputVars, maxAngle, numPrimary, layout, syncStatus, pw, fuelMask>>

isSwitchableCylinderCount == nCylinders \in {4, 6, 8}

changeToFullSequentialInjection ==
  injLayout = "SEQUENTIAL" /\ syncStatus = "Full" /\ maxAngle # 720

changeToSemiSequentialInjection ==
  /\ injLayout = "SEQUENTIAL"
  /\ isSwitchableCylinderCount
  /\ syncStatus = "Partial"
  /\ maxAngle # 360

matchFuelSchedulersToSyncState ==
  /\ pc = "match"
  /\ pc' = IF isSwitchableCylinderCount /\ changeToFullSequentialInjection THEN "full"
           ELSE IF isSwitchableCylinderCount /\ changeToSemiSequentialInjection THEN "semi"
           ELSE "assign"
  /\ layout' = IF isSwitchableCylinderCount /\ pc' = "assign" THEN injLayout ELSE layout
  /\ UNCHANGED <<outputVars, maxAngle, numPrimary, syncStatus, dose, pw, fuelMask>>

MutantSwitchWhileRunning(angle, primaries, lay, pairing) ==
  /\ maxAngle' = angle
  /\ numPrimary' = primaries
  /\ layout' = lay
  /\ callback' = WithCallbacks(setupCallbacks(lay, pairing))
  /\ pc' = "assign"
  /\ UNCHANGED <<status, level, syncStatus, dose, pw, fuelMask>>

SwitchLayout(angle, primaries, lay, pairing) ==
  /\ IF AnyRunning
     THEN UNCHANGED <<maxAngle, numPrimary, layout, callback>>
     ELSE /\ maxAngle' = angle
          /\ numPrimary' = primaries
          /\ layout' = lay
          /\ callback' = WithCallbacks(setupCallbacks(lay, pairing))
  /\ pc' = "assign"
  /\ UNCHANGED <<status, level, syncStatus, dose, pw, fuelMask>>

MutantKeepsPairs ==
  /\ pc = "full"
  /\ SwitchLayout(720, nCylinders \div 2, "SEQUENTIAL", "13_24")

MutantKeepsAngle ==
  /\ pc = "full"
  /\ SwitchLayout(360, nCylinders, "SEQUENTIAL", "13_24")

changeFuellingToFullSequential ==
  /\ pc = "full"
  /\ SwitchLayout(720, nCylinders, "SEQUENTIAL", "13_24")

changeFuellingToSemiSequential ==
  /\ pc = "semi"
  /\ SwitchLayout(360, nCylinders \div 2, "SEMISEQUENTIAL", inj4cylPairing)

MutantNotZeroed ==
  /\ pc = "assign"
  /\ pw' = [c \in Channels |-> IF c <= numPrimary THEN dose ELSE pw[c]]
  /\ pc' = "cut"
  /\ UNCHANGED <<outputVars, maxAngle, numPrimary, layout, syncStatus, dose, fuelMask>>

\* zeroAllChannels, assignPrimaryPws and, without staging, nothing more.
assignPulseWidths ==
  /\ pc = "assign"
  /\ pw' = [c \in Channels |-> IF c <= numPrimary THEN dose ELSE "none"]
  /\ pc' = "cut"
  /\ UNCHANGED <<outputVars, maxAngle, numPrimary, layout, syncStatus, dose, fuelMask>>

MutantUnmasked ==
  /\ pc = "cut"
  /\ pc' = "arm"
  /\ \E mask \in SUBSET (1..8) : fuelMask' = mask
  /\ UNCHANGED <<outputVars, maxAngle, numPrimary, layout, syncStatus, dose, pw>>

\* Any of the channels in use may be cut, all of them without sync.
calculateFuelIgnitionChannelCut ==
  /\ pc = "cut"
  /\ pc' = "arm"
  /\ \E mask \in SUBSET (1..Smaller(numPrimary, NumChannels)) :
       /\ syncStatus = "None" => mask = {}
       /\ fuelMask' = mask
  /\ UNCHANGED <<outputVars, maxAngle, numPrimary, layout, syncStatus, dose, pw>>

\* One channel of setFuelChannelSchedules.  A zero timeout, a zero pulse width
\* or a busy schedule that may not queue leaves it as it is.
setFuelChannelSchedule(c) ==
  /\ pc = "arm"
  /\ c \in fuelMask
  /\ fuelMask' = fuelMask \ {c}
  /\ \/ pw[c] # "none" /\ setSchedule(c, TRUE)
     \/ UNCHANGED outputVars
  /\ UNCHANGED <<maxAngle, numPrimary, layout, syncStatus, pc, dose, pw>>

EndOfLoop ==
  /\ pc = "arm"
  /\ fuelMask = {}
  /\ pc' = "pulse"
  /\ UNCHANGED <<outputVars, maxAngle, numPrimary, layout, syncStatus, dose, pw, fuelMask>>

-----------------------------------------------------------------------------
(* Interrupts and commands.                                                *)

ScheduleInterrupt(c) == moveToNextState(c) /\ UNCHANGED ctrlVars

DecoderInterrupt(s) ==
  /\ s # syncStatus
  /\ syncStatus' = s
  /\ UNCHANGED <<outputVars, maxAngle, numPrimary, layout, pc, dose, pw, fuelMask>>

\* The output test commands of the tuning program.
closeAllInjectors == stopAll /\ UNCHANGED ctrlVars

\* The outputs initialiseAll gives each layout, four strokes, one squirt per
\* revolution, no staging.
SequentialAtStart ==
  injLayout = "SEQUENTIAL" /\ (nCylinders \in {5, 6, 8} => NumChannels >= nCylinders)

InitialNumPrimary ==
  IF SequentialAtStart THEN nCylinders
  ELSE IF nCylinders \in {4, 6, 8} THEN nCylinders \div 2
  ELSE Smaller(nCylinders, 4)

InitialMaxAngle == IF SequentialAtStart THEN 720 ELSE 360

Init ==
  /\ OutputsInit(setupCallbacks(injLayout, inj4cylPairing))
  /\ maxAngle = InitialMaxAngle
  /\ numPrimary = InitialNumPrimary
  /\ layout = injLayout
  /\ syncStatus = "None"
  /\ pc = "pulse"
  /\ dose = "half"
  /\ pw = [c \in Channels |-> "none"]
  /\ fuelMask = {}

MainLoop ==
  \/ computePulseWidths
  \/ matchFuelSchedulersToSyncState
  \/ changeFuellingToFullSequential
  \/ changeFuellingToSemiSequential
  \/ assignPulseWidths
  \/ calculateFuelIgnitionChannelCut
  \/ \E c \in Channels : setFuelChannelSchedule(c)
  \/ EndOfLoop

Next ==
  \/ MainLoop
  \/ \E c \in Channels : ScheduleInterrupt(c)
  \/ \E s \in SyncStatus : DecoderInterrupt(s)
  \/ closeAllInjectors

Fairness ==
  /\ WF_vars(MainLoop)
  /\ \A c \in Channels : WF_vars(EndOutput(c) /\ UNCHANGED ctrlVars)

Spec == Init /\ [][Next]_vars

FairSpec == Spec /\ Fairness

-----------------------------------------------------------------------------
(* Properties.                                                             *)

\* No injector is left open by a change of layout: the schedule that opened it
\* still has the callback that closes it.
NoOrphanInjector == NoOrphan

\* When the channels are armed every cylinder's injector belongs to one that has
\* a pulse width, in every layout and after every change of sync.
EveryCylinderFed ==
  pc \in {"cut", "arm"} =>
    1..nCylinders \subseteq UNION {Driven(c) : c \in {d \in Channels : pw[d] # "none"}}

\* Each cylinder is fed by one channel: a channel of the other layout keeps no
\* pulse width, so an injector of a pair is not opened a second time.
FedOnce ==
  pc \in {"cut", "arm"} =>
    \A c, d \in Channels :
      c # d /\ pw[c] # "none" /\ pw[d] # "none" => Driven(c) \cap Driven(d) = {}

\* When full sync stays, every cycle's fuel is in the end given in one squirt per
\* cycle, unless again and again an injector is open when the loop tries to
\* change the layout.
FullDoseAdopted ==
  <>[](syncStatus = "Full") =>
    \/ <>[](maxAngle = 720 /\ dose = "all")
    \/ []<>(pc = "full" /\ AnyRunning)
=============================================================================
