------------------------- MODULE FuelController_proofs -------------------------
(***************************************************************************)
(* Proofs about FuelController for every board of four to eight channels,  *)
(* number of cylinders, injection layout and pairing.                      *)
(***************************************************************************)
EXTENDS FuelController, TLAPS

\* The end callback of every schedule closes the injectors its start callback
\* opens, and no end callback opens one.
Pairs(table) ==
  \A c \in DOMAIN table \cap Channels :
    /\ table[c] \in Callback
    /\ table[c].begin \subseteq table[c].drop
    /\ table[c].raise = {}

\* Only cylinder counts with two layouts come to a change of layout.
Switchable == pc \in {"full", "semi"} => isSwitchableCylinderCount

IInv == TypeOK /\ Pairs(callback) /\ NoOrphan /\ Switchable

LEMMA DrivePairs ==
  ASSUME NEW outs \in SUBSET Outputs
  PROVE  /\ Drive(outs) \in Callback
         /\ Drive(outs).begin \subseteq Drive(outs).drop
         /\ Drive(outs).raise = {}
BY DEF Drive, Callback

LEMMA SequentialPairs == Pairs(setupSequentialCallbacks)
<1> SUFFICES ASSUME NEW c \in Channels
             PROVE  /\ Drive({c}) \in Callback
                    /\ Drive({c}).begin \subseteq Drive({c}).drop
                    /\ Drive({c}).raise = {}
  BY DEF Pairs, setupSequentialCallbacks
<1>1. {c} \in SUBSET Outputs
  BY FuelAssumption DEF Channels
<1> QED BY <1>1, DrivePairs

\* Whatever the layout and the pairing, the table it installs pairs opening with
\* closing.
LEMMA CallbackPairs ==
  ASSUME NEW lay \in Layouts, NEW pairing \in {"13_24", "14_23"}
  PROVE  Pairs(setupCallbacks(lay, pairing))
<1>1. CASE lay # "SEMISEQUENTIAL"
  BY <1>1, SequentialPairs DEF setupCallbacks
<1>2. CASE lay = "SEMISEQUENTIAL"
  <2> DEFINE table == setupSemiSequentialCallbacks(pairing)
  <2>1. CASE nCylinders = 4 /\ pairing = "13_24"
    <3>1. {1, 3} \in SUBSET Outputs /\ {2, 4} \in SUBSET Outputs
      BY FuelAssumption
    <3>2. table = <<Drive({1, 3}), Drive({2, 4})>>
      BY <2>1 DEF setupSemiSequentialCallbacks
    <3> HIDE DEF table
    <3>3. Pairs(table)
      BY <3>1, <3>2, DrivePairs DEF Pairs
    <3> QED BY <1>2, <3>3 DEF setupCallbacks, table
  <2>2. CASE nCylinders = 4 /\ pairing = "14_23"
    <3>1. {1, 4} \in SUBSET Outputs /\ {2, 3} \in SUBSET Outputs
      BY FuelAssumption
    <3>2. table = <<Drive({1, 4}), Drive({2, 3})>>
      BY <2>2 DEF setupSemiSequentialCallbacks
    <3> HIDE DEF table
    <3>3. Pairs(table)
      BY <3>1, <3>2, DrivePairs DEF Pairs
    <3> QED BY <1>2, <3>3 DEF setupCallbacks, table
  <2>3. CASE nCylinders = 5
    <3>1. /\ {1} \in SUBSET Outputs /\ {2} \in SUBSET Outputs
          /\ {3, 5} \in SUBSET Outputs /\ {4} \in SUBSET Outputs
      BY FuelAssumption
    <3>2. table = <<Drive({1}), Drive({2}), Drive({3, 5}), Drive({4})>>
      BY <2>3 DEF setupSemiSequentialCallbacks
    <3> HIDE DEF table
    <3>3. Pairs(table)
      BY <3>1, <3>2, DrivePairs DEF Pairs
    <3> QED BY <1>2, <3>3 DEF setupCallbacks, table
  <2>4. CASE nCylinders \in {6, 8}
    <3>1. table = Mirrored
      BY <2>4 DEF setupSemiSequentialCallbacks
    <3>2. ASSUME NEW c \in DOMAIN Mirrored \cap Channels
          PROVE  /\ Mirrored[c] \in Callback
                 /\ Mirrored[c].begin \subseteq Mirrored[c].drop
                 /\ Mirrored[c].raise = {}
      <4>1. Mirrored[c] = Drive({c, c + nCylinders \div 2})
        BY DEF Mirrored
      <4>2. {c, c + nCylinders \div 2} \in SUBSET Outputs
        BY <2>4, FuelAssumption DEF Mirrored
      <4> QED BY <4>1, <4>2, DrivePairs
    <3> QED BY <1>2, <3>1, <3>2 DEF setupCallbacks, Pairs
  <2>5. CASE nCylinders \in {1, 2, 3}
    BY <1>2, <2>5, SequentialPairs DEF setupCallbacks, setupSemiSequentialCallbacks
  <2> QED BY <2>1, <2>2, <2>3, <2>4, <2>5, FuelAssumption
<1> QED BY <1>1, <1>2

-----------------------------------------------------------------------------
(* The steps.                                                              *)

LEMMA InitHolds == Init => IInv
<1> SUFFICES ASSUME Init PROVE IInv
  OBVIOUS
<1>1. Pairs(setupCallbacks(injLayout, inj4cylPairing))
  BY CallbackPairs, FuelAssumption DEF Layouts
<1>2. /\ nullCallback \in Callback
      /\ nullCallback.begin \subseteq nullCallback.drop /\ nullCallback.raise = {}
  BY DrivePairs DEF nullCallback
<1>3. callback = [c \in Channels |->
                    IF c \in DOMAIN setupCallbacks(injLayout, inj4cylPairing)
                    THEN setupCallbacks(injLayout, inj4cylPairing)[c] ELSE nullCallback]
  BY DEF Init, OutputsInit
<1>4. callback \in [Channels -> Callback] /\ Pairs(callback)
  BY <1>1, <1>2, <1>3 DEF Pairs
<1>5. status = [c \in Channels |-> "OFF"] /\ level = [o \in Outputs |-> FALSE]
  BY DEF Init, OutputsInit
<1>6. OutputsTypeOK /\ NoOrphan
  BY <1>4, <1>5 DEF OutputsTypeOK, NoOrphan
<1>7. numPrimary \in 1..8 /\ maxAngle \in {360, 720}
  BY FuelAssumption DEF Init, InitialNumPrimary, InitialMaxAngle, SequentialAtStart, Smaller
<1>8. TypeOK
  BY <1>6, <1>7, FuelAssumption DEF Init, TypeOK, Layouts, SyncStatus, Steps
<1> QED BY <1>4, <1>6, <1>8 DEF IInv, Init, Switchable

\* A schedule's end closes what its start opened.
LEMMA InterruptHolds ==
  ASSUME IInv, NEW c \in Channels, ScheduleInterrupt(c)
  PROVE  IInv'
<1>1. CASE StartOutput(c)
  BY <1>1 DEF StartOutput, ScheduleInterrupt, ctrlVars, IInv, TypeOK, OutputsTypeOK,
              Pairs, NoOrphan, isRunning, Callback, Switchable
<1>2. CASE EndOutput(c)
  BY <1>2 DEF EndOutput, ScheduleInterrupt, ctrlVars, IInv, TypeOK, OutputsTypeOK,
              Pairs, NoOrphan, isRunning, Callback, Switchable
<1> QED BY <1>1, <1>2 DEF ScheduleInterrupt, moveToNextState

\* A change of layout: it is made only while no schedule runs, and then no
\* injector is open.
LEMMA SwitchHolds ==
  ASSUME IInv, NEW angle \in {360, 720}, NEW primaries \in 1..8,
         NEW lay \in Layouts, NEW pairing \in {"13_24", "14_23"},
         SwitchLayout(angle, primaries, lay, pairing)
  PROVE  IInv'
<1>1. CASE AnyRunning
  <2>1. UNCHANGED <<maxAngle, numPrimary, layout, callback, status, level, syncStatus, dose,
                    pw, fuelMask>> /\ pc' = "assign"
    BY <1>1 DEF SwitchLayout
  <2> QED BY <2>1 DEF IInv, TypeOK, OutputsTypeOK, Pairs, NoOrphan, isRunning, Switchable, Steps
<1>2. CASE ~AnyRunning
  <2>1. Pairs(setupCallbacks(lay, pairing))
    BY CallbackPairs
  <2>2. callback' = WithCallbacks(setupCallbacks(lay, pairing))
    BY <1>2 DEF SwitchLayout
  <2>3. callback' \in [Channels -> Callback] /\ Pairs(callback)'
    BY <2>1, <2>2 DEF WithCallbacks, Pairs, IInv, TypeOK, OutputsTypeOK
  <2>4. \A o \in Outputs : ~level[o]
    BY <1>2 DEF IInv, TypeOK, OutputsTypeOK, NoOrphan, Pairs, AnyRunning
  <2>5. UNCHANGED <<status, level, syncStatus, dose, pw, fuelMask>> /\ pc' = "assign"
        /\ maxAngle' = angle /\ numPrimary' = primaries /\ layout' = lay
    BY <1>2 DEF SwitchLayout
  <2>6. NoOrphan'
    BY <2>4, <2>5 DEF NoOrphan
  <2>7. TypeOK'
    BY <2>3, <2>5 DEF IInv, TypeOK, OutputsTypeOK, Steps
  <2> QED BY <2>3, <2>5, <2>6, <2>7 DEF IInv, Switchable
<1> QED BY <1>1, <1>2

LEMMA MainLoopHolds ==
  ASSUME IInv, MainLoop
  PROVE  IInv'
<1> USE DEF IInv
<1>1. CASE computePulseWidths
  BY <1>1 DEF computePulseWidths, outputVars, TypeOK, OutputsTypeOK, Pairs, NoOrphan, isRunning,
              Switchable, Steps
<1>2. CASE matchFuelSchedulersToSyncState
  BY <1>2, FuelAssumption
     DEF matchFuelSchedulersToSyncState, outputVars, TypeOK, OutputsTypeOK, Pairs, NoOrphan,
         isRunning, Switchable, Steps, Layouts
<1>3. CASE changeFuellingToFullSequential
  <2>1. nCylinders \in 1..8
    BY FuelAssumption
  <2> QED BY <1>3, <2>1, SwitchHolds DEF changeFuellingToFullSequential, Layouts
<1>4. CASE changeFuellingToSemiSequential
  <2>1. nCylinders \div 2 \in 1..8
    BY <1>4 DEF changeFuellingToSemiSequential, Switchable, isSwitchableCylinderCount
  <2> QED BY <1>4, <2>1, SwitchHolds, FuelAssumption DEF changeFuellingToSemiSequential, Layouts
<1>5. CASE assignPulseWidths
  BY <1>5 DEF assignPulseWidths, outputVars, TypeOK, OutputsTypeOK, Pairs, NoOrphan, isRunning,
              Switchable, Steps
<1>6. CASE calculateFuelIgnitionChannelCut
  <2>1. fuelMask' \subseteq Channels
    BY <1>6, FuelAssumption DEF calculateFuelIgnitionChannelCut, Smaller, Channels, TypeOK
  <2> QED BY <1>6, <2>1
          DEF calculateFuelIgnitionChannelCut, outputVars, TypeOK, OutputsTypeOK, Pairs, NoOrphan,
              isRunning, Switchable, Steps
<1>7. ASSUME NEW c \in Channels, setFuelChannelSchedule(c) PROVE IInv'
  <2>1. CASE setSchedule(c, TRUE)
    BY <1>7, <2>1 DEF setFuelChannelSchedule, setSchedule, TypeOK, OutputsTypeOK, Pairs, NoOrphan,
                      isRunning, Switchable
  <2>2. CASE UNCHANGED outputVars
    BY <1>7, <2>2 DEF setFuelChannelSchedule, outputVars, TypeOK, OutputsTypeOK, Pairs, NoOrphan,
                      isRunning, Switchable
  <2> QED BY <1>7, <2>1, <2>2 DEF setFuelChannelSchedule
<1>8. CASE EndOfLoop
  BY <1>8 DEF EndOfLoop, outputVars, TypeOK, OutputsTypeOK, Pairs, NoOrphan, isRunning, Switchable, Steps
<1> QED BY <1>1, <1>2, <1>3, <1>4, <1>5, <1>6, <1>7, <1>8 DEF MainLoop

LEMMA NextHolds == IInv /\ [Next]_vars => IInv'
<1> SUFFICES ASSUME IInv, [Next]_vars PROVE IInv'
  OBVIOUS
<1>1. CASE MainLoop
  BY <1>1, MainLoopHolds
<1>2. ASSUME NEW c \in Channels, ScheduleInterrupt(c) PROVE IInv'
  BY <1>2, InterruptHolds
<1>3. ASSUME NEW s \in SyncStatus, DecoderInterrupt(s) PROVE IInv'
  BY <1>3 DEF DecoderInterrupt, outputVars, IInv, TypeOK, OutputsTypeOK, Pairs, NoOrphan, isRunning,
              Switchable
<1>4. CASE closeAllInjectors
  BY <1>4 DEF closeAllInjectors, stopAll, ctrlVars, IInv, TypeOK, OutputsTypeOK, Pairs, NoOrphan, Switchable
<1>5. CASE UNCHANGED vars
  BY <1>5 DEF vars, outputVars, ctrlVars, IInv, TypeOK, OutputsTypeOK, Pairs, NoOrphan, isRunning,
              Switchable
<1> QED BY <1>1, <1>2, <1>3, <1>4, <1>5 DEF Next

\* Whatever the layout, an injector's closing stays with the schedule that opened it.
THEOREM Inductive == Spec => []IInv
BY InitHolds, NextHolds, PTL DEF Spec

\* No change of layout, however it falls between the schedules' interrupts, leaves
\* an injector open with no running schedule to close it.
THEOREM NoInjectorOrphaned == Spec => []NoOrphanInjector
<1>1. IInv => NoOrphanInjector
  BY DEF IInv, NoOrphanInjector
<1> QED BY <1>1, Inductive, PTL

\* Layout, pulse widths, sync state and callbacks keep their types.
THEOREM FuelTypes == Spec => []TypeOK
<1>1. IInv => TypeOK
  BY DEF IInv
<1> QED BY <1>1, Inductive, PTL

-----------------------------------------------------------------------------
(* The schedules the controller works with are those the timers implement.  *)

\* The schedules as the state machine sees them: a step of a schedule is one of
\* its steps, every other step leaves them alone.
LEMMA ScheduleStep ==
  ASSUME OutputsTypeOK, NEW c \in Channels,
         StartOutput(c) \/ EndOutput(c) \/ setSchedule(c, TRUE)
  PROVE  Schedules!Next
<1> DEFINE driven == {d \in Channels : isRunning(d)}
<1>1. CASE StartOutput(c)
  <2>1. driven' = driven \union {c}
    BY <1>1 DEF StartOutput, isRunning, OutputsTypeOK
  <2>2. Schedules!Start(c)
    BY <1>1, <2>1 DEF StartOutput, Schedules!Start
  <2> QED BY <2>2 DEF Schedules!Next
<1>2. CASE EndOutput(c)
  <2>1. driven' = driven \ {c}
    BY <1>2 DEF EndOutput, isRunning, OutputsTypeOK
  <2>2. Schedules!Finish(c)
    BY <1>2, <2>1 DEF EndOutput, isRunning, Schedules!Finish, Schedules!Running
  <2> QED BY <2>2 DEF Schedules!Next
<1>3. CASE setSchedule(c, TRUE)
  <2>1. driven' = driven
    BY <1>3 DEF setSchedule, isRunning, OutputsTypeOK
  <2>2. CASE isRunning(c)
    <3>1. Schedules!Queue(c)
      BY <1>3, <2>1, <2>2 DEF setSchedule, isRunning, Schedules!Queue, Schedules!Running
    <3> QED BY <3>1 DEF Schedules!Next
  <2>3. CASE ~isRunning(c)
    <3>1. Schedules!Arm(c)
      BY <1>3, <2>1, <2>3 DEF setSchedule, isRunning, Schedules!Arm, Schedules!Running
    <3> QED BY <3>1 DEF Schedules!Next
  <2> QED BY <2>2, <2>3
<1> QED BY <1>1, <1>2, <1>3

LEMMA ScheduleKept ==
  ASSUME UNCHANGED status
  PROVE  UNCHANGED Schedules!vars
BY DEF Schedules!vars, isRunning

\* Every step of the controller, its interrupts and commands moves one schedule
\* as ScheduleStateMachine allows, or none.
THEOREM FollowsSchedules ==
  Spec => Schedules!Init /\ [][Schedules!Next]_(Schedules!vars)
<1>1. Init => Schedules!Init
  BY DEF Init, OutputsInit, isRunning, Schedules!Init
<1>2. IInv /\ [Next]_vars => [Schedules!Next]_(Schedules!vars)
  <2> SUFFICES ASSUME IInv, [Next]_vars
               PROVE  [Schedules!Next]_(Schedules!vars)
    OBVIOUS
  <2>1. OutputsTypeOK
    BY DEF IInv, TypeOK
  <2>2. CASE UNCHANGED status
    BY <2>2, ScheduleKept
  <2>3. ASSUME NEW c \in Channels, StartOutput(c) \/ EndOutput(c) \/ setSchedule(c, TRUE)
        PROVE  Schedules!Next
    BY <2>1, <2>3, ScheduleStep
  <2>4. \/ UNCHANGED status
        \/ \E c \in Channels : StartOutput(c) \/ EndOutput(c) \/ setSchedule(c, TRUE)
    BY DEF Next, MainLoop, computePulseWidths, matchFuelSchedulersToSyncState,
           changeFuellingToFullSequential, changeFuellingToSemiSequential, SwitchLayout,
           assignPulseWidths, calculateFuelIgnitionChannelCut, setFuelChannelSchedule, EndOfLoop, ScheduleInterrupt, moveToNextState,
           DecoderInterrupt, closeAllInjectors, stopAll, outputVars, vars
  <2> QED BY <2>2, <2>3, <2>4
<1>3. Spec => []IInv
  BY Inductive
<1> QED BY <1>1, <1>2, <1>3, PTL DEF Spec

-----------------------------------------------------------------------------
(* Every cylinder is fed, by one channel.                                   *)

\* The first n channels of a table open each cylinder's injector, and no two of
\* them the same.
Feeds(table, n) ==
  /\ n \in 1..NumChannels
  /\ \A i \in 1..nCylinders : \E c \in 1..n : i \in table[c].begin
  /\ \A c, d \in 1..n : c # d => table[c].begin \cap table[d].begin = {}

\* The channels in use feed every cylinder once; once the pulse widths are
\* assigned they are the channels that have one.
Feeding ==
  /\ Feeds(callback, numPrimary)
  /\ pc \in {"cut", "arm"} => \A c \in Channels : pw[c] # "none" <=> c <= numPrimary

LEMMA SequentialFeeds ==
  ASSUME NEW table, \A c \in Channels : table[c] = Drive({c}), nCylinders <= NumChannels
  PROVE  Feeds(table, nCylinders)
<1> USE FuelAssumption
<1>1. ASSUME NEW c \in 1..nCylinders PROVE table[c].begin = {c}
  <2>1. c \in Channels
    BY DEF Channels
  <2>2. table[c] = Drive({c})
    BY <2>1
  <2> QED BY <2>2 DEF Drive
<1> QED BY <1>1 DEF Feeds

LEMMA SemiSequentialFeeds ==
  ASSUME isSwitchableCylinderCount, nCylinders <= NumChannels,
         NEW pairing \in {"13_24", "14_23"}
  PROVE  Feeds(WithCallbacks(setupCallbacks("SEMISEQUENTIAL", pairing)), nCylinders \div 2)
<1> USE FuelAssumption
<1> DEFINE half == nCylinders \div 2
           table == WithCallbacks(setupCallbacks("SEMISEQUENTIAL", pairing))
<1>1. half \in 1..NumChannels /\ half + half = nCylinders
  BY DEF isSwitchableCylinderCount
<1>2. CASE nCylinders = 4
  <2>1. CASE pairing = "13_24"
    <3>1. table[1] = Drive({1, 3}) /\ table[2] = Drive({2, 4})
      BY <1>2, <2>1 DEF WithCallbacks, setupCallbacks, setupSemiSequentialCallbacks, Channels
    <3>2. table[1].begin = {1, 3} /\ table[2].begin = {2, 4}
      BY <3>1 DEF Drive
    <3>3. half = 2
      BY <1>2
    <3> HIDE DEF table, half
    <3>4. Feeds(table, half)
      BY <1>1, <1>2, <3>2, <3>3 DEF Feeds
    <3> QED BY <3>4 DEF table, half
  <2>2. CASE pairing = "14_23"
    <3>1. table[1] = Drive({1, 4}) /\ table[2] = Drive({2, 3})
      BY <1>2, <2>2 DEF WithCallbacks, setupCallbacks, setupSemiSequentialCallbacks, Channels
    <3>2. table[1].begin = {1, 4} /\ table[2].begin = {2, 3}
      BY <3>1 DEF Drive
    <3>3. half = 2
      BY <1>2
    <3> HIDE DEF table, half
    <3>4. Feeds(table, half)
      BY <1>1, <1>2, <3>2, <3>3 DEF Feeds
    <3> QED BY <3>4 DEF table, half
  <2> QED BY <2>1, <2>2
<1>3. CASE nCylinders \in {6, 8}
  <2>1. table = WithCallbacks(Mirrored)
    BY <1>3 DEF setupCallbacks, setupSemiSequentialCallbacks
  <2>2. ASSUME NEW c \in 1..half PROVE table[c].begin = {c, c + half}
    <3>1. table[c] = Drive({c, c + half})
      BY <1>1, <2>1 DEF WithCallbacks, Mirrored, Channels
    <3> QED BY <3>1 DEF Drive
  <2> HIDE DEF table, half
  <2>3. ASSUME NEW i \in 1..nCylinders PROVE \E c \in 1..half : i \in table[c].begin
    <3>1. CASE i <= half
      BY <1>1, <2>2, <3>1
    <3>2. CASE i > half
      <4>1. i - half \in 1..half /\ (i - half) + half = i
        BY <1>1, <3>2
      <4> QED BY <2>2, <4>1
    <3>3. i <= half \/ i > half
      BY <1>1
    <3> QED BY <3>1, <3>2, <3>3
  <2>4. ASSUME NEW c \in 1..half, NEW d \in 1..half, c # d
        PROVE  table[c].begin \cap table[d].begin = {}
    BY <1>1, <2>2, <2>4
  <2>5. Feeds(table, half)
    BY <1>1, <2>3, <2>4 DEF Feeds
  <2> QED BY <2>5 DEF table, half
<1> QED BY <1>2, <1>3 DEF isSwitchableCylinderCount

LEMMA FeedingAtStart ==
  ASSUME Init, injLayout = "SEQUENTIAL", nCylinders <= NumChannels
  PROVE  Feeding
<1> USE FuelAssumption
<1>1. numPrimary = nCylinders
  BY DEF Init, InitialNumPrimary, SequentialAtStart
<1>2. \A c \in Channels : callback[c] = Drive({c})
  BY DEF Init, OutputsInit, setupCallbacks, setupSequentialCallbacks
<1> QED BY <1>1, <1>2, SequentialFeeds DEF Feeding, Init

LEMMA SwitchKeepsFeeding ==
  ASSUME IInv, Feeding, nCylinders <= NumChannels,
         changeFuellingToFullSequential \/ changeFuellingToSemiSequential
  PROVE  Feeding'
<1> USE FuelAssumption
<1>1. pc' = "assign" /\ isSwitchableCylinderCount
  BY DEF changeFuellingToFullSequential, changeFuellingToSemiSequential, SwitchLayout,
         IInv, Switchable
<1>2. CASE AnyRunning
  <2>1. UNCHANGED <<callback, numPrimary>>
    BY <1>2 DEF changeFuellingToFullSequential, changeFuellingToSemiSequential, SwitchLayout
  <2> QED BY <1>1, <2>1 DEF Feeding, Feeds
<1>3. CASE ~AnyRunning /\ changeFuellingToFullSequential
  <2>1. numPrimary' = nCylinders /\ callback' = WithCallbacks(setupSequentialCallbacks)
    BY <1>3 DEF changeFuellingToFullSequential, SwitchLayout, setupCallbacks
  <2>2. \A c \in Channels : callback'[c] = Drive({c})
    BY <2>1 DEF WithCallbacks, setupSequentialCallbacks
  <2>3. Feeds(callback', nCylinders)
    BY <2>2, SequentialFeeds
  <2> QED BY <1>1, <2>1, <2>3 DEF Feeding, Feeds
<1>4. CASE ~AnyRunning /\ changeFuellingToSemiSequential
  <2>1. /\ numPrimary' = nCylinders \div 2
        /\ callback' = WithCallbacks(setupCallbacks("SEMISEQUENTIAL", inj4cylPairing))
    BY <1>4 DEF changeFuellingToSemiSequential, SwitchLayout
  <2>2. Feeds(callback', numPrimary')
    BY <1>1, <2>1, SemiSequentialFeeds
  <2> QED BY <1>1, <2>2 DEF Feeding, Feeds
<1> QED BY <1>2, <1>3, <1>4

LEMMA StepKeepsFeeding ==
  ASSUME IInv, Feeding, nCylinders <= NumChannels, [Next]_vars
  PROVE  Feeding'
<1>1. CASE changeFuellingToFullSequential \/ changeFuellingToSemiSequential
  BY <1>1, SwitchKeepsFeeding
<1>2. CASE assignPulseWidths
  <2>1. dose # "none"
    BY DEF IInv, TypeOK
  <2> QED BY <1>2, <2>1 DEF assignPulseWidths, outputVars, Feeding, Feeds
<1>3. CASE UNCHANGED <<callback, numPrimary, pw>> /\ (pc' \in {"cut", "arm"} => pc \in {"cut", "arm"})
  BY <1>3 DEF Feeding, Feeds
<1>4. \/ changeFuellingToFullSequential \/ changeFuellingToSemiSequential
      \/ assignPulseWidths
      \/ UNCHANGED <<callback, numPrimary, pw>> /\ (pc' \in {"cut", "arm"} => pc \in {"cut", "arm"})
  BY DEF Next, MainLoop, computePulseWidths, matchFuelSchedulersToSyncState,
         calculateFuelIgnitionChannelCut, setFuelChannelSchedule, setSchedule, EndOfLoop,
         ScheduleInterrupt, moveToNextState, StartOutput, EndOutput, DecoderInterrupt,
         closeAllInjectors, stopAll, outputVars, ctrlVars, vars
<1> QED BY <1>1, <1>2, <1>3, <1>4

LEMMA FeedingHolds ==
  ASSUME injLayout = "SEQUENTIAL", nCylinders <= NumChannels
  PROVE  Spec => []Feeding
<1>1. Init => Feeding
  BY FeedingAtStart
<1>2. IInv /\ Feeding /\ [Next]_vars => Feeding'
  BY StepKeepsFeeding
<1> QED BY <1>1, <1>2, Inductive, PTL DEF Spec

\* A sequential engine on a board with a channel for each cylinder: whenever the
\* channels are armed each cylinder's injector has a channel with a pulse width,
\* however sync comes and goes.
THEOREM CylindersFed ==
  ASSUME injLayout = "SEQUENTIAL", nCylinders <= NumChannels
  PROVE  Spec => []EveryCylinderFed
<1>1. Feeding => EveryCylinderFed
  BY FuelAssumption DEF Feeding, Feeds, EveryCylinderFed, Driven, Channels
<1> QED BY <1>1, FeedingHolds, PTL

\* ... and no injector is opened by two of them.
THEOREM CylindersFedOnce ==
  ASSUME injLayout = "SEQUENTIAL", nCylinders <= NumChannels
  PROVE  Spec => []FedOnce
<1>1. Feeding => FedOnce
  BY FuelAssumption DEF Feeding, Feeds, FedOnce, Driven, Channels
<1> QED BY <1>1, FeedingHolds, PTL
=============================================================================
