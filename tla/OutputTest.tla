------------------------------- MODULE OutputTest -------------------------------
(***************************************************************************)
(* tsCommandController.cpp: the commands by which the tuning program       *)
(* switches injectors and coils on, off or into pulses while the engine    *)
(* stands, and by which it calibrates the speed sensor.                    *)
(***************************************************************************)
EXTENDS EngineStatus

CONSTANT TestChannels  \* the channels of each kind that are tested

VARIABLES
  testMode,   \* currentStatus.isTestModeActive
  test,       \* by kind: the outputs on, those pulsed, the count of a pulse
  vssConfig,  \* configPage2: pulses per kilometre and speed ratios, whether saved
  onFor       \* history, by kind: the millisecond passes since pulses began

testVars == <<testMode, test, vssConfig, onFor>>

Kinds == {"INJ", "IGN"}
hwTestDuration == [k \in Kinds |-> IF k = "INJ" THEN 2 ELSE 1]
vssReadings == 0..1
gears == 1..2
LongPulse == 5

\* The commands: of a channel of a kind, or general.
OutputCommands == [what : {"ON", "OFF", "PULSED"}, kind : Kinds, channel : TestChannels]
GeneralCommands == {"TEST_ENBL", "TEST_DSBL"}

commandRequiresStoppedEngine(c) == c \in OutputCommands \union GeneralCommands

pulsing(t) == t.on \intersect t.pulsed # {}

allOff(t) == [t EXCEPT !.on = {}]

outputCommand(t, c) ==
  CASE c.what = "ON" /\ testMode -> [t EXCEPT !.on = @ \union {c.channel}]
    [] c.what = "OFF" /\ testMode ->
         [t EXCEPT !.on = @ \ {c.channel}, !.pulsed = @ \ {c.channel}]
    [] c.what = "PULSED" /\ testMode -> [t EXCEPT !.pulsed = @ \union {c.channel}]
    [] c.what = "PULSED" /\ ~testMode /\ c.channel \notin t.pulsed ->
         [t EXCEPT !.on = @ \ {c.channel}]
    [] OTHER -> t

\* Refused while the engine turns.
TestCommand ==
  /\ rpm = 0
  /\ \/ testMode' = TRUE /\ UNCHANGED test
     \/ /\ testMode' = FALSE
        /\ test' = [k \in Kinds |-> [allOff(test[k]) EXCEPT !.pulsed = {}]]
     \/ /\ UNCHANGED testMode
        /\ \E c \in OutputCommands : test' = [test EXCEPT ![c.kind] = outputCommand(@, c)]
  /\ onFor' = [k \in Kinds |-> IF pulsing(test'[k]) THEN onFor[k] ELSE 0]
  /\ UNCHANGED vssConfig

\* Calibrated at any speed, and saved at once: the time between pulses at 60,
\* when there is one, or the ratio of speed to revolutions in a gear.
VssCommand ==
  /\ \/ \E gap \in vssReadings :
          vssConfig' = [vssConfig EXCEPT !.vssPulsesPerKm = IF gap > 0 THEN gap ELSE @,
                                         !.saved = TRUE, !.vssUiRefresh = TRUE]
     \/ \E gear \in gears, vss \in vssReadings :
          vssConfig' = IF vss = 0 THEN vssConfig
                       ELSE [vssConfig EXCEPT !.vssRatios[gear] = IF rpm > 0 THEN vss ELSE 0,
                                              !.saved = TRUE, !.vssUiRefresh = TRUE]
  /\ UNCHANGED <<testMode, test, onFor>>

nextPulseCount(current, most) == IF current >= most THEN 0 ELSE current + 1

beginPulses(t) == [t EXCEPT !.on = @ \union t.pulsed, !.count = 0]

\* All outputs of the kind are switched off, those pulsed and the others.
endPulses(t, most) ==
  IF t.pulsed = {} THEN t
  ELSE LET n == nextPulseCount(t.count, most)
       IN [(IF n = 0 THEN allOff(t) ELSE t) EXCEPT !.count = n]

\* A pass of the main loop, which has found these timer flags set.
pulsedCommandController(thirtyHz, oneKHz) ==
  /\ testMode
  /\ LET begun == [k \in Kinds |-> IF thirtyHz /\ rpm = 0 THEN beginPulses(test[k]) ELSE test[k]]
     IN /\ test' = [k \in Kinds |-> IF oneKHz THEN endPulses(begun[k], hwTestDuration[k]) ELSE begun[k]]
        /\ onFor' = [k \in Kinds |->
             IF ~pulsing(test'[k]) \/ (thirtyHz /\ rpm = 0) THEN 0
             ELSE IF oneKHz /\ onFor[k] < LongPulse THEN onFor[k] + 1 ELSE onFor[k]]
  /\ UNCHANGED <<testMode, vssConfig>>

TestInit ==
  /\ testMode = FALSE
  /\ test = [k \in Kinds |-> [on |-> {}, pulsed |-> {}, count |-> 0]]
  /\ vssConfig = [vssPulsesPerKm |-> 0, vssRatios |-> [g \in gears |-> 0],
                  saved |-> FALSE, vssUiRefresh |-> FALSE]
  /\ onFor = [k \in Kinds |-> 0]

\* Outputs are on in a test only, and no pulse outlasts its duration, though
\* the engine be started in the middle of it.
TestsEnd ==
  \A k \in Kinds :
    /\ ~testMode => test[k].on = {}
    /\ pulsing(test[k]) => onFor[k] <= hwTestDuration[k] + 1
=============================================================================
