---------------------- MODULE IgnitionController_proofs ----------------------
(***************************************************************************)
(* Proofs about IgnitionController for every board (NumChannels), spark    *)
(* mode, number of cylinders and rotary type.                              *)
(***************************************************************************)
EXTENDS IgnitionController, TLAPS

\* The callback tables are well formed: a coil that a start callback charges is
\* one the end callback of the same schedule discharges, and only a rotary
\* engine's end callbacks raise a line.  A change of layout is attempted in
\* sequential mode only.
WellFormed ==
  /\ \A c \in Channels : callback[c].begin \subseteq callback[c].drop
  /\ sparkMode # "ROTARY" => \A c \in Channels : callback[c].raise = {}
  /\ pc \in {"full", "half"} => sparkMode = "SEQUENTIAL"

IInv == TypeOK /\ WellFormed /\ NoOrphan

\* The lines an end callback may raise in a mode.
Raised(mode) == IF mode = "ROTARY" THEN Outputs ELSE {}

Table(t, lines) ==
  \A c \in DOMAIN t \cap Channels :
    /\ t[c] \in Callback
    /\ t[c].begin \subseteq t[c].drop
    /\ t[c].raise \subseteq lines

LEMMA DriveCallback ==
  ASSUME NEW outs \in SUBSET Outputs
  PROVE  /\ Drive(outs) \in Callback
         /\ Drive(outs).begin \subseteq Drive(outs).drop
         /\ Drive(outs).raise = {}
BY DEF Drive, Callback

LEMMA SequentialTable ==
  ASSUME NEW n \in 1..8, NumChannels <= 8
  PROVE  Table(setSequentialCallbacks(n), {})
<1> SUFFICES ASSUME NEW c \in (1..Smaller(n, NumChannels)) \cap Channels
             PROVE  /\ Drive({c}) \in Callback
                    /\ Drive({c}).begin \subseteq Drive({c}).drop
                    /\ Drive({c}).raise = {}
  BY DEF Table, setSequentialCallbacks
<1>1. {c} \in SUBSET Outputs
  BY IgnitionAssumption, ChannelsAssumption DEF Channels
<1> QED BY <1>1, DriveCallback

\* Whatever the mode, the table it installs is well formed.
LEMMA SetCallbacksTable ==
  ASSUME NEW mode \in {"WASTED", "SINGLE", "WASTEDCOP", "SEQUENTIAL", "ROTARY"},
         NumChannels <= 8
  PROVE  Table(setCallbacks(mode), Raised(mode))
<1> USE IgnitionAssumption, ChannelsAssumption
<1>1. CASE mode = "SINGLE"
  <2>1. {1} \in SUBSET Outputs OBVIOUS
  <2> QED BY <1>1, <2>1, DriveCallback DEF Table, Raised, setCallbacks, setSingleChannelCallbacks
<1>2. Table(setWastedSparkCallbacks, {})
  BY SequentialTable DEF setWastedSparkCallbacks
<1>3. CASE mode = "WASTEDCOP"
  <2>1. CASE nCylinders \in {4, 6, 8}
    <3> SUFFICES ASSUME NEW c \in (1..Smaller(nCylinders \div 2, NumChannels)) \cap Channels
                 PROVE  /\ Paired[c] \in Callback
                        /\ Paired[c].begin \subseteq Paired[c].drop
                        /\ Paired[c].raise = {}
      BY <1>3, <2>1 DEF Table, Raised, setCallbacks, setWastedCOPCallbacks, Paired
    <3>1. c \in 1..(nCylinders \div 2) /\ nCylinders \div 2 \in 2..4
      BY <2>1 DEF Smaller, Channels
    <3>2. {c, c + nCylinders \div 2} \in SUBSET Outputs
      BY <2>1, <3>1
    <3>3. Paired[c] = Drive({c, c + nCylinders \div 2})
      BY DEF Paired
    <3> QED BY <3>2, <3>3, DriveCallback
  <2>2. CASE nCylinders \notin {4, 6, 8}
    BY <1>2, <1>3, <2>2 DEF Table, Raised, setCallbacks, setWastedCOPCallbacks
  <2> QED BY <2>1, <2>2
<1>4. CASE mode = "SEQUENTIAL"
  BY <1>4, SequentialTable DEF Table, Raised, setCallbacks
<1>5. CASE mode = "ROTARY"
  <2>1. CASE rotaryType = "FC"
    <3> SUFFICES ASSUME NEW c \in (1..Smaller(4, NumChannels)) \cap Channels
                 PROVE  RotaryFC[c] \in Callback /\ RotaryFC[c].begin \subseteq RotaryFC[c].drop
      BY <1>5, <2>1 DEF Table, Raised, setCallbacks, setRotaryCallbacks, Callback
    <3>1. c \in {1, 2, 3, 4} BY DEF Smaller, Channels
    <3> QED BY <3>1 DEF RotaryFC, Drive, Callback
  <2>2. CASE rotaryType = "FD"
    <3> SUFFICES ASSUME NEW c \in (1..Smaller(4, NumChannels)) \cap Channels
                 PROVE  RotaryFD[c] \in Callback /\ RotaryFD[c].begin \subseteq RotaryFD[c].drop
      BY <1>5, <2>2 DEF Table, Raised, setCallbacks, setRotaryCallbacks, Callback
    <3>1. c \in {1, 2, 3, 4} BY DEF Smaller, Channels
    <3> QED BY <3>1 DEF RotaryFD, Drive, Callback
  <2>3. CASE rotaryType = "RX8"
    <3>1. Table(setSequentialCallbacks(4), {}) BY SequentialTable
    <3> QED BY <1>5, <2>3, <3>1 DEF Table, Raised, setCallbacks, setRotaryCallbacks
  <2> QED BY <2>1, <2>2, <2>3
<1>6. CASE mode = "WASTED"
  BY <1>2, <1>6 DEF Table, Raised, setCallbacks
<1> QED BY <1>1, <1>3, <1>4, <1>5, <1>6

-----------------------------------------------------------------------------
LEMMA InitInv == ASSUME NumChannels <= 8, Init PROVE IInv
<1> USE IgnitionAssumption, ChannelsAssumption
<1>1. Table(setCallbacks(sparkMode), Raised(sparkMode))
  BY SetCallbacksTable
<1>2. {} \in SUBSET Outputs /\ nullCallback \in Callback
      /\ nullCallback.begin \subseteq nullCallback.drop /\ nullCallback.raise = {}
  BY DriveCallback DEF nullCallback
<1>3. \A c \in Channels :
        /\ callback[c] \in Callback
        /\ callback[c].begin \subseteq callback[c].drop
        /\ sparkMode # "ROTARY" => callback[c].raise = {}
  BY <1>1, <1>2 DEF Init, OutputsInit, Table, Raised
<1>4. callback \in [Channels -> Callback]
  BY <1>3 DEF Init, OutputsInit
<1>5. OutputsTypeOK
  BY <1>4 DEF Init, OutputsInit, OutputsTypeOK
<1>6. maxIgnOutputs \in 1..8 /\ maxAngle \in {360, 720}
  BY DEF Init, InitialMaxIgnOutputs, InitialMaxAngle
<1> QED BY <1>3, <1>5, <1>6 DEF Init, OutputsInit, IInv, TypeOK, SyncStatus, WellFormed, NoOrphan

\* The schedules' interrupts: the end callback discharges what the start charged.
LEMMA InterruptInv ==
  ASSUME IInv, NEW c \in Channels, ScheduleInterrupt(c)
  PROVE  IInv'
<1>1. CASE StartOutput(c)
  BY <1>1 DEF StartOutput, ScheduleInterrupt, ctrlVars, IInv, TypeOK, OutputsTypeOK,
              WellFormed, NoOrphan, isRunning, Callback
<1>2. CASE EndOutput(c)
  BY <1>2 DEF EndOutput, ScheduleInterrupt, ctrlVars, IInv, TypeOK, OutputsTypeOK,
              WellFormed, NoOrphan, isRunning, Callback
<1> QED BY <1>1, <1>2 DEF ScheduleInterrupt, moveToNextState

\* A change of layout: nothing runs, so no coil is on that a callback must end.
LEMMA SwitchInv ==
  ASSUME IInv, NumChannels <= 8, sparkMode = "SEQUENTIAL",
         NEW angle \in {360, 720}, NEW outputs \in 1..8,
         NEW mode \in {"WASTEDCOP", "SEQUENTIAL"},
         SwitchLayout(angle, outputs, mode)
  PROVE  IInv'
<1>1. CASE ~AnyRunning /\ isSwitchableCylinderCount
  <2>1. Table(setCallbacks(mode), {})
    BY SetCallbacksTable DEF Raised
  <2>2. \A c \in Channels :
          /\ callback'[c] \in Callback
          /\ callback'[c].begin \subseteq callback'[c].drop
          /\ callback'[c].raise = {}
    BY <1>1, <2>1 DEF SwitchLayout, WithCallbacks, Table, IInv, TypeOK, OutputsTypeOK, WellFormed
  <2>3. callback' \in [Channels -> Callback]
    BY <1>1, <2>2 DEF SwitchLayout, WithCallbacks
  <2>4. \A o \in Outputs : ~level[o]
    BY <1>1 DEF IInv, NoOrphan, WellFormed, AnyRunning
  <2> QED BY <1>1, <2>2, <2>3, <2>4
          DEF SwitchLayout, IInv, TypeOK, OutputsTypeOK, WellFormed, NoOrphan
<1>2. CASE ~(~AnyRunning /\ isSwitchableCylinderCount)
  BY <1>2 DEF SwitchLayout, IInv, TypeOK, OutputsTypeOK, WellFormed, NoOrphan, isRunning
<1> QED BY <1>1, <1>2

LEMMA MainLoopInv ==
  ASSUME IInv, NumChannels <= 8, MainLoop
  PROVE  IInv'
<1> USE IgnitionAssumption, ChannelsAssumption
<1>1. CASE matchIgnitionSchedulersToSyncState
  BY <1>1 DEF matchIgnitionSchedulersToSyncState, outputVars, IInv, TypeOK, OutputsTypeOK,
              WellFormed, NoOrphan, isRunning, isFullSequentialIgnition, isSemiSequentialIgnition
<1>2. CASE changeIgnitionToHalfSync
  <2>1. CASE isSwitchableCylinderCount
    <3>1. nCylinders \div 2 \in 1..8
      BY <2>1 DEF isSwitchableCylinderCount
    <3> QED BY <1>2, <3>1, SwitchInv DEF changeIgnitionToHalfSync, IInv, WellFormed
  <2>2. CASE ~isSwitchableCylinderCount
    BY <1>2, <2>2 DEF changeIgnitionToHalfSync, SwitchLayout, IInv, TypeOK, OutputsTypeOK,
                      WellFormed, NoOrphan, isRunning
  <2> QED BY <2>1, <2>2
<1>3. CASE changeIgnitionToFullSequential
  <2>1. Smaller(NumChannels, nCylinders) \in 1..8
    BY DEF Smaller
  <2> QED BY <1>3, <2>1, SwitchInv DEF changeIgnitionToFullSequential, IInv, WellFormed
<1>4. CASE calculateFuelIgnitionChannelCut
  <2>1. cutMask' \subseteq Channels
    BY <1>4 DEF calculateFuelIgnitionChannelCut, Smaller, Channels, IInv, TypeOK
  <2> QED BY <1>4, <2>1 DEF calculateFuelIgnitionChannelCut, outputVars, IInv, TypeOK, OutputsTypeOK,
              WellFormed, NoOrphan, isRunning
<1>5. ASSUME NEW c \in Channels, setIgnitionChannel(c) PROVE IInv'
  <2>1. CASE setSchedule(c, TRUE)
    BY <1>5, <2>1 DEF setIgnitionChannel, setSchedule, IInv, TypeOK, OutputsTypeOK,
              WellFormed, NoOrphan, isRunning
  <2>2. CASE UNCHANGED outputVars
    BY <1>5, <2>2 DEF setIgnitionChannel, outputVars, IInv, TypeOK, OutputsTypeOK,
              WellFormed, NoOrphan, isRunning
  <2> QED BY <1>5, <2>1, <2>2 DEF setIgnitionChannel
<1>6. CASE EndOfLoop
  BY <1>6 DEF EndOfLoop, outputVars, IInv, TypeOK, OutputsTypeOK, WellFormed, NoOrphan, isRunning
<1> QED BY <1>1, <1>2, <1>3, <1>4, <1>5, <1>6 DEF MainLoop

LEMMA NextInv ==
  ASSUME IInv, NumChannels <= 8, [Next]_vars
  PROVE  IInv'
<1>1. CASE MainLoop
  BY <1>1, MainLoopInv
<1>2. ASSUME NEW c \in Channels, ScheduleInterrupt(c) PROVE IInv'
  BY <1>2, InterruptInv
<1>3. ASSUME NEW s \in SyncStatus, DecoderInterrupt(s) PROVE IInv'
  BY <1>3 DEF DecoderInterrupt, outputVars, IInv, TypeOK, OutputsTypeOK, WellFormed, NoOrphan, isRunning
<1>4. CASE stopAllCoilsCharging
  BY <1>4 DEF stopAllCoilsCharging, stopAll, ctrlVars, IInv, TypeOK, OutputsTypeOK, WellFormed, NoOrphan
<1>5. CASE UNCHANGED vars
  BY <1>5 DEF vars, outputVars, ctrlVars, IInv, TypeOK, OutputsTypeOK, WellFormed, NoOrphan, isRunning
<1> QED BY <1>1, <1>2, <1>3, <1>4, <1>5 DEF Next

LEMMA Invariance == ASSUME NumChannels <= 8 PROVE Spec => []IInv
<1>1. Init => IInv BY InitInv
<1>2. IInv /\ [Next]_vars => IInv' BY NextInv
<1> QED BY <1>1, <1>2, PTL DEF Spec

\* On any board of at most eight channels no change of layout, however it falls
\* between the schedules' interrupts, leaves a coil charging with no running
\* schedule to end it.
THEOREM NoChargeOrphaned == ASSUME NumChannels <= 8 PROVE Spec => []NoOrphanCharge
<1>1. IInv => NoOrphanCharge BY DEF IInv, NoOrphanCharge
<1> QED BY <1>1, Invariance, PTL

\* Layout, sync state, channel mask and callbacks keep their types.
THEOREM ControllerTypes == ASSUME NumChannels <= 8 PROVE Spec => []TypeOK
<1>1. IInv => TypeOK BY DEF IInv
<1> QED BY <1>1, Invariance, PTL

-----------------------------------------------------------------------------
(* The schedules the controller works with are those the timers implement.  *)

\* The schedules as the state machine sees them: a step of a schedule is one of
\* its steps, every other step leaves them alone.
LEMMA ScheduleStep ==
  ASSUME OutputsTypeOK, NEW c \in Channels,
         StartOutput(c) \/ EndOutput(c) \/ setSchedule(c, TRUE)
  PROVE  Schedules!Next
<1> DEFINE driven == {d \in Channels : isRunning(d)}
<1>1. CASE StartOutput(c)
  <2>1. driven' = driven \union {c}
    BY <1>1 DEF StartOutput, isRunning, OutputsTypeOK
  <2>2. Schedules!Start(c)
    BY <1>1, <2>1 DEF StartOutput, Schedules!Start
  <2> QED BY <2>2 DEF Schedules!Next
<1>2. CASE EndOutput(c)
  <2>1. driven' = driven \ {c}
    BY <1>2 DEF EndOutput, isRunning, OutputsTypeOK
  <2>2. Schedules!Finish(c)
    BY <1>2, <2>1 DEF EndOutput, isRunning, Schedules!Finish, Schedules!Running
  <2> QED BY <2>2 DEF Schedules!Next
<1>3. CASE setSchedule(c, TRUE)
  <2>1. driven' = driven
    BY <1>3 DEF setSchedule, isRunning, OutputsTypeOK
  <2>2. CASE isRunning(c)
    <3>1. Schedules!Queue(c)
      BY <1>3, <2>1, <2>2 DEF setSchedule, isRunning, Schedules!Queue, Schedules!Running
    <3> QED BY <3>1 DEF Schedules!Next
  <2>3. CASE ~isRunning(c)
    <3>1. Schedules!Arm(c)
      BY <1>3, <2>1, <2>3 DEF setSchedule, isRunning, Schedules!Arm, Schedules!Running
    <3> QED BY <3>1 DEF Schedules!Next
  <2> QED BY <2>2, <2>3
<1> QED BY <1>1, <1>2, <1>3

LEMMA ScheduleKept ==
  ASSUME UNCHANGED status
  PROVE  UNCHANGED Schedules!vars
BY DEF Schedules!vars, isRunning

\* Every step of the controller, its interrupts and commands moves one schedule
\* as ScheduleStateMachine allows, or none.
THEOREM FollowsSchedules ==
  ASSUME NumChannels <= 8
  PROVE  Spec => Schedules!Init /\ [][Schedules!Next]_(Schedules!vars)
<1>1. Init => Schedules!Init
  BY DEF Init, OutputsInit, isRunning, Schedules!Init
<1>2. IInv /\ [Next]_vars => [Schedules!Next]_(Schedules!vars)
  <2> SUFFICES ASSUME IInv, [Next]_vars
               PROVE  [Schedules!Next]_(Schedules!vars)
    OBVIOUS
  <2>1. OutputsTypeOK
    BY DEF IInv, TypeOK
  <2>2. CASE UNCHANGED status
    BY <2>2, ScheduleKept
  <2>3. ASSUME NEW c \in Channels, StartOutput(c) \/ EndOutput(c) \/ setSchedule(c, TRUE)
        PROVE  Schedules!Next
    BY <2>1, <2>3, ScheduleStep
  <2>4. \/ UNCHANGED status
        \/ \E c \in Channels : StartOutput(c) \/ EndOutput(c) \/ setSchedule(c, TRUE)
    BY DEF Next, MainLoop, matchIgnitionSchedulersToSyncState, changeIgnitionToHalfSync,
           changeIgnitionToFullSequential, SwitchLayout, calculateFuelIgnitionChannelCut,
           setIgnitionChannel, EndOfLoop, ScheduleInterrupt, moveToNextState,
           DecoderInterrupt, stopAllCoilsCharging, stopAll, outputVars, vars
  <2> QED BY <2>2, <2>3, <2>4
<1>3. Spec => []IInv
  BY Invariance
<1> QED BY <1>1, <1>2, <1>3, PTL DEF Spec

-----------------------------------------------------------------------------
(* Every cylinder has a coil in every layout.                               *)

\* A sequential engine works in one of two layouts, and the channels that may be
\* armed carry the callbacks of that layout: the two are only changed together.
LayoutWhole ==
  sparkMode = "SEQUENTIAL" =>
    \/ /\ maxIgnOutputs = nCylinders
       /\ \A c \in 1..nCylinders : callback[c].begin = {c}
    \/ /\ isSwitchableCylinderCount
       /\ maxIgnOutputs = nCylinders \div 2
       /\ \A c \in 1..(nCylinders \div 2) : callback[c].begin = {c, c + nCylinders \div 2}

LEMMA SwitchKeepsWhole ==
  ASSUME LayoutWhole, nCylinders <= NumChannels,
         changeIgnitionToHalfSync \/ changeIgnitionToFullSequential
  PROVE  LayoutWhole'
<1> USE IgnitionAssumption, ChannelsAssumption
<1> SUFFICES ASSUME sparkMode = "SEQUENTIAL", callback' # callback \/ maxIgnOutputs' # maxIgnOutputs
             PROVE  LayoutWhole'
  BY DEF LayoutWhole
<1>1. isSwitchableCylinderCount
  BY DEF changeIgnitionToHalfSync, changeIgnitionToFullSequential, SwitchLayout
<1>2. CASE changeIgnitionToHalfSync
  <2>1. /\ maxIgnOutputs' = nCylinders \div 2
        /\ callback' = WithCallbacks(setCallbacks("WASTEDCOP"))
    BY <1>2 DEF changeIgnitionToHalfSync, SwitchLayout
  <2>2. setCallbacks("WASTEDCOP") = Paired
    BY <1>1 DEF setCallbacks, setWastedCOPCallbacks, isSwitchableCylinderCount
  <2>3. /\ nCylinders \div 2 \in Nat /\ nCylinders \div 2 <= NumChannels
        /\ Smaller(nCylinders \div 2, NumChannels) = nCylinders \div 2
    BY <1>1 DEF Smaller, isSwitchableCylinderCount
  <2>4. ASSUME NEW c \in 1..(nCylinders \div 2)
        PROVE  callback'[c].begin = {c, c + nCylinders \div 2}
    <3>1. c \in Channels /\ c \in DOMAIN Paired
      BY <2>3 DEF Channels, Paired
    <3>2. callback'[c] = Drive({c, c + nCylinders \div 2})
      BY <2>1, <2>2, <2>3, <3>1 DEF WithCallbacks, Paired
    <3> QED BY <3>2 DEF Drive
  <2> QED BY <1>1, <2>1, <2>4 DEF LayoutWhole, isSwitchableCylinderCount
<1>3. CASE changeIgnitionToFullSequential
  <2>1. /\ maxIgnOutputs' = Smaller(NumChannels, nCylinders)
        /\ callback' = WithCallbacks(setSequentialCallbacks(NumChannels))
    BY <1>3 DEF changeIgnitionToFullSequential, SwitchLayout, setCallbacks
  <2>2. maxIgnOutputs' = nCylinders
    BY <2>1 DEF Smaller
  <2>3. ASSUME NEW c \in 1..nCylinders
        PROVE  callback'[c].begin = {c}
    <3>1. callback'[c] = Drive({c})
      BY <2>1 DEF WithCallbacks, setSequentialCallbacks, Smaller, Channels
    <3> QED BY <3>1 DEF Drive
  <2> QED BY <2>2, <2>3 DEF LayoutWhole
<1> QED BY <1>2, <1>3

LEMMA WholeAtStart ==
  ASSUME Init, nCylinders <= NumChannels
  PROVE  LayoutWhole
<1> USE IgnitionAssumption, ChannelsAssumption
<1> SUFFICES ASSUME sparkMode = "SEQUENTIAL" PROVE LayoutWhole
  BY DEF LayoutWhole
<1>1. maxIgnOutputs = nCylinders
  BY DEF Init, InitialMaxIgnOutputs
<1>2. ASSUME NEW c \in 1..nCylinders
      PROVE  callback[c].begin = {c}
  <2>1. callback[c] = Drive({c})
    BY DEF Init, OutputsInit, setCallbacks, setSequentialCallbacks, Smaller, Channels
  <2> QED BY <2>1 DEF Drive
<1> QED BY <1>1, <1>2 DEF LayoutWhole

\* The channels of a whole layout reach every coil.
LEMMA WholeMeansSparks ==
  ASSUME LayoutWhole, nCylinders <= NumChannels
  PROVE  EveryCylinderSparks
<1> USE IgnitionAssumption, ChannelsAssumption
<1> SUFFICES ASSUME sparkMode = "SEQUENTIAL", NEW n \in 1..nCylinders
             PROVE  \E c \in 1..Smaller(maxIgnOutputs, NumChannels) : n \in callback[c].begin
  BY DEF EveryCylinderSparks, Driven
<1>1. CASE /\ maxIgnOutputs = nCylinders
           /\ \A c \in 1..nCylinders : callback[c].begin = {c}
  BY <1>1 DEF Smaller
<1>2. CASE /\ isSwitchableCylinderCount
           /\ maxIgnOutputs = nCylinders \div 2
           /\ \A c \in 1..(nCylinders \div 2) : callback[c].begin = {c, c + nCylinders \div 2}
  <2> DEFINE half == nCylinders \div 2
             first == IF n <= half THEN n ELSE n - half
  <2>1. half \in Nat /\ half + half = nCylinders /\ half <= NumChannels
    BY <1>2 DEF isSwitchableCylinderCount
  <2>2. first \in 1..half /\ (n = first \/ n = first + half)
    BY <2>1
  <2>3. n \in callback[first].begin
    BY <1>2, <2>2
  <2>4. first \in 1..Smaller(maxIgnOutputs, NumChannels)
    BY <1>2, <2>1, <2>2 DEF Smaller
  <2> QED BY <2>3, <2>4
<1> QED BY <1>1, <1>2 DEF LayoutWhole

\* On a board with a channel for each cylinder, losing and regaining full sync
\* never leaves a cylinder without a coil that may be fired.
THEOREM EveryCylinderHasCoil ==
  ASSUME nCylinders <= NumChannels
  PROVE  Spec => []EveryCylinderSparks
<1>1. Init => LayoutWhole
  BY WholeAtStart
<1>2. LayoutWhole /\ [Next]_vars => LayoutWhole'
  <2> SUFFICES ASSUME LayoutWhole, [Next]_vars PROVE LayoutWhole'
    OBVIOUS
  <2>1. CASE UNCHANGED <<callback, maxIgnOutputs>>
    BY <2>1 DEF LayoutWhole
  <2>2. \/ UNCHANGED <<callback, maxIgnOutputs>>
        \/ changeIgnitionToHalfSync \/ changeIgnitionToFullSequential
    BY DEF Next, MainLoop, matchIgnitionSchedulersToSyncState, calculateFuelIgnitionChannelCut,
           setIgnitionChannel, setSchedule, EndOfLoop, ScheduleInterrupt, moveToNextState,
           StartOutput, EndOutput, DecoderInterrupt, stopAllCoilsCharging, stopAll,
           outputVars, ctrlVars, vars
  <2> QED BY <2>1, <2>2, SwitchKeepsWhole
<1>3. LayoutWhole => EveryCylinderSparks
  BY WholeMeansSparks
<1> QED BY <1>1, <1>2, <1>3, PTL DEF Spec

-----------------------------------------------------------------------------
(* A channel the layout does not use is not armed again.                    *)

\* What is still to be armed, and what is queued behind a running schedule, are
\* channels in use: the mask is made after the layout has changed, and a layout
\* changes only while nothing runs.
ArmedInUse ==
  /\ status \in [Channels -> {"OFF", "PENDING", "RUNNING", "RUNNING_WITHNEXT"}]
  /\ maxIgnOutputs \in Nat
  /\ pc = "arm" => \A c \in cutMask : c <= maxIgnOutputs
  /\ \A c \in Channels : status[c] = "RUNNING_WITHNEXT" => c <= maxIgnOutputs

LEMMA InUseAtStart == Init => ArmedInUse
BY IgnitionAssumption DEF Init, OutputsInit, ArmedInUse, InitialMaxIgnOutputs

\* A change of layout finds no schedule running, so none is queued.
LEMMA SwitchKeepsUse ==
  ASSUME ArmedInUse, NEW angle, NEW outputs, isSwitchableCylinderCount => outputs \in Nat,
         NEW mode, SwitchLayout(angle, outputs, mode)
  PROVE  ArmedInUse'
BY DEF ArmedInUse, SwitchLayout, AnyRunning, isRunning

LEMMA InUseKept == ArmedInUse /\ [Next]_vars => ArmedInUse'
<1> SUFFICES ASSUME ArmedInUse, [Next]_vars PROVE ArmedInUse'
  OBVIOUS
<1>1. CASE changeIgnitionToHalfSync
  <2>1. isSwitchableCylinderCount => nCylinders \div 2 \in Nat
    BY DEF isSwitchableCylinderCount
  <2> QED BY <1>1, <2>1, SwitchKeepsUse DEF changeIgnitionToHalfSync
<1>2. CASE changeIgnitionToFullSequential
  <2>1. Smaller(NumChannels, nCylinders) \in Nat
    BY IgnitionAssumption, ChannelsAssumption DEF Smaller
  <2> QED BY <1>2, <2>1, SwitchKeepsUse DEF changeIgnitionToFullSequential
<1>3. CASE calculateFuelIgnitionChannelCut
  <2>1. \A c \in cutMask' : c <= maxIgnOutputs
    BY <1>3, ChannelsAssumption DEF calculateFuelIgnitionChannelCut, Smaller, ArmedInUse
  <2> QED BY <1>3, <2>1 DEF calculateFuelIgnitionChannelCut, ArmedInUse, outputVars
<1>4. ASSUME NEW c \in Channels, setIgnitionChannel(c)
      PROVE  ArmedInUse'
  BY <1>4 DEF setIgnitionChannel, setSchedule, isRunning, ArmedInUse, outputVars
<1>5. ASSUME NEW c \in Channels, ScheduleInterrupt(c)
      PROVE  ArmedInUse'
  BY <1>5 DEF ScheduleInterrupt, moveToNextState, StartOutput, EndOutput, ctrlVars, ArmedInUse
<1>6. CASE \/ matchIgnitionSchedulersToSyncState \/ EndOfLoop \/ stopAllCoilsCharging
           \/ (\E s \in SyncStatus : DecoderInterrupt(s)) \/ UNCHANGED vars
  BY <1>6 DEF matchIgnitionSchedulersToSyncState, EndOfLoop, stopAllCoilsCharging, stopAll,
              DecoderInterrupt, vars, outputVars, ctrlVars, ArmedInUse
<1> QED BY <1>1, <1>2, <1>3, <1>4, <1>5, <1>6 DEF Next, MainLoop

\* On any board and in any spark mode, whatever is queued when the engine falls
\* back to half sync: a channel the new layout leaves out is not armed again.
THEOREM UnusedRunOut == Spec => UnusedChannelsRunOut
<1>1. ArmedInUse /\ [Next]_vars =>
        [\A c \in Channels :
           c > maxIgnOutputs /\ status'[c] = "PENDING" => status[c] = "PENDING"]_vars
  <2> SUFFICES ASSUME ArmedInUse, Next, NEW c \in Channels,
                      c > maxIgnOutputs, status'[c] = "PENDING"
               PROVE  status[c] = "PENDING"
    OBVIOUS
  <2>1. ~(c <= maxIgnOutputs)
    BY DEF ArmedInUse, Channels
  <2>2. ASSUME NEW d \in Channels, setIgnitionChannel(d)
        PROVE  status[c] = "PENDING"
    BY <2>1, <2>2 DEF setIgnitionChannel, setSchedule, ArmedInUse, outputVars
  <2>3. ASSUME NEW d \in Channels, ScheduleInterrupt(d)
        PROVE  status[c] = "PENDING"
    BY <2>1, <2>3 DEF ScheduleInterrupt, moveToNextState, StartOutput, EndOutput, isRunning, ArmedInUse
  <2>4. \/ UNCHANGED status
        \/ \E d \in Channels : setIgnitionChannel(d) \/ ScheduleInterrupt(d)
    BY DEF Next, MainLoop, matchIgnitionSchedulersToSyncState, changeIgnitionToHalfSync,
           changeIgnitionToFullSequential, SwitchLayout, calculateFuelIgnitionChannelCut,
           EndOfLoop, DecoderInterrupt, stopAllCoilsCharging, stopAll, outputVars
  <2> QED BY <2>2, <2>3, <2>4
<1> QED BY <1>1, InUseAtStart, InUseKept, PTL DEF Spec, UnusedChannelsRunOut
=============================================================================
