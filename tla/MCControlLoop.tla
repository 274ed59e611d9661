------------------------------ MODULE MCControlLoop ------------------------------
(* The instance of ControlLoop for TLC: the tunes and readings of each part. *)
EXTENDS ControlLoop

\* One configuration per way a part can go; the switches that only choose a
\* branch are set one at a time.
CoolingTunes ==
  {[fanEnable |-> e, fanWhenOff |-> FALSE, fanWhenCranking |-> FALSE, airConTurnsFanOn |-> e = 2,
    pwmAvailable |-> TRUE, airConEnable |-> e = 2, acStandAloneFan |-> FALSE] : e \in 1..2}

BoostTunes ==
  {[boostEnabled |-> TRUE, openLoop |-> o, boostByGearEnabled |-> IF o THEN 1 ELSE 0,
    externalVss |-> TRUE, flexEnabled |-> FALSE, boostDCWhenDisabled |-> IF o THEN 1 ELSE 0] :
     o \in BOOLEAN}

Valve(second, wmi, mode, table) ==
  [vvtEnabled |-> mode # "none", vvt2Enabled |-> second, wmiEnabled |-> wmi,
   vvtMode |-> IF mode = "none" THEN "ONOFF" ELSE mode, vvtCLUseHold |-> FALSE, table |-> table]

ValveTunes ==
  {Valve(FALSE, TRUE, "none", {}), Valve(TRUE, FALSE, "OPEN_LOOP", {0, 2}), Valve(TRUE, FALSE, "OPEN_LOOP", {1, 2})}

IdleTune1(algorithm, hyster, power) ==
  [iacAlgorithm |-> algorithm, iacPWMrun |-> FALSE, iacStepHyster |-> hyster,
   iacStepperPower |-> power, idleUpEnabled |-> FALSE]

IdleTunes == {IdleTune1("STEP_OL", 0, FALSE), IdleTune1("PWM_OL", 0, FALSE)}

\* Three rules: one of two data, one of the first's status, one of both.
Datum(index, type, target) == [rule |-> 0, index |-> index, type |-> type, target |-> target]
StatusOf(rule) == [rule |-> rule, index |-> "none", type |-> "EQUAL", target |-> 1]
Rule(first, second, bitwise, pin, inverted, limiting, delay, atMost) ==
  [first |-> first, second |-> second, bitwise |-> bitwise, outputPin |-> pin,
   outputInverted |-> inverted, kindOfLimiting |-> limiting, outputDelay |-> delay,
   outputTimeLimit |-> atMost]

Programs ==
  {LET pedal == Datum("tps", "GREATER", 0)
       heat == Datum("coolant", "GREATER_EQUAL", 2)
   IN <<Rule(pedal, heat, bitwise, "pin", FALSE, limiting, delay, atMost),
        Rule(heat, StatusOf(1), "NONE", "rule", FALSE, TRUE, 1, 2),
        Rule(StatusOf(2), pedal, "AND", "pin", FALSE, FALSE, 1, atMost)>> :
     bitwise \in {"AND", "OR", "XOR"}, limiting \in BOOLEAN, delay \in {0, 2}, atMost \in {0, 2}}

SpeedTunes ==
  {[n2o_enable |-> n, launchEnabled |-> l, flatSEnable |-> ~l, rolling |-> l] : n \in 1..2, l \in BOOLEAN}

\* Oil pressure with the coolant's limit, boost and mixture with the fixed one.
Limit(oil, hardRevMode, time) ==
  [protect |-> TRUE, oilPressure |-> oil, boostCutEnabled |-> ~oil, wideband |-> TRUE,
   afrProtectEnabled |-> IF oil THEN "OFF" ELSE "TABLE", hardRevMode |-> hardRevMode,
   afrProtectReactivationTPS |-> 0, oilPressureProtTime |-> time, afrProtectCutTime |-> time]

MCLaunchTunes == {[n2o_enable |-> 0, launchEnabled |-> TRUE, flatSEnable |-> TRUE, rolling |-> TRUE]}

LimitTunes == {Limit(TRUE, "COOLANT", 1), Limit(FALSE, "FIXED", 2)}

Plain ==
  [aseTaperTime |-> 0, aeMode |-> "NONE", dfcoEnabled |-> FALSE, dfcoTaperEnable |-> FALSE,
   egoAlgorithm |-> "NONE", knock_mode |-> "OFF", softLimit |-> FALSE, idleAdv |-> FALSE,
   spark2Switched |-> FALSE]

CorrectionTunes ==
  {[Plain EXCEPT !.aseTaperTime = 1, !.dfcoEnabled = TRUE, !.dfcoTaperEnable = TRUE],
   [Plain EXCEPT !.aeMode = "TPS"],
   [Plain EXCEPT !.softLimit = TRUE, !.idleAdv = TRUE]}

Stock ==
  [mapSample |-> "Instantaneous", ADCFILTER |-> 128, tpsReversed |-> FALSE, useExtBaro |-> FALSE,
   vssMode |-> "OFF", flexEnabled |-> FALSE, egoType |-> FALSE]

ManifoldTunes ==
  {[Stock EXCEPT !.mapSample = "CycleAverage"], [Stock EXCEPT !.mapSample = "CycleMinimum"],
   [Stock EXCEPT !.mapSample = "IgnitionEventAverage"]}
FlexTunes == {[Stock EXCEPT !.flexEnabled = TRUE, !.useExtBaro = TRUE, !.tpsReversed = t] : t \in BOOLEAN}
SpeedSensorTunes == {[Stock EXCEPT !.vssMode = "EXTERNAL"]}

\* What the hosts send: framed commands, logs of triggers, and, on the second
\* port, commands of its own protocol.
Hosts(protocol, first, second) ==
  [protocol |-> protocol, secondTaken |-> "no",
   sent |-> [p \in Ports |-> IF p = "Serial" THEN first ELSE second], most |-> 1]

SerialTunes ==
  {Hosts("OFF", {"len", "crc", "bad", "DTR", "p", "r", "w", "A", "b"}, {}),
   Hosts("OFF", {"len", "crc", "H", "x", "T", "z"}, {}),
   Hosts("OFF", {"F", "J", "O", "j", "T", "z", "args"}, {}),
   Hosts("OFF", {"A", "a", "d", "p", "P", "g", "E", "t", "16u2", "other", "args"}, {}),
   [Hosts("OFF", {"M", "w", "W", "B", "P", "args"}, {}) EXCEPT !.most = 2],
   Hosts("TUNERSTUDIO", {"M", "b", "args"}, {"r", "E", "M", "S", "args"}),
   Hosts("GENERIC", {"M", "r", "args"}, {"A", "G", "M", "b", "d", "p", "r", "s", "args"})}

\* One channel is asked for, over either interface; the other is on a pin, or
\* starts at the last byte and has the address of the requests.
External(bit6) ==
  [select |-> "external", selectLocal |-> "none", bit6 |-> bit6, bit7 |-> TRUE, pinIsUsed |-> FALSE,
   address |-> "another", twoBytes |-> TRUE, startByte |-> 6]
OnPin(kind, twoBytes) ==
  [select |-> kind, selectLocal |-> "none", bit6 |-> FALSE, bit7 |-> FALSE, pinIsUsed |-> kind = "digital",
   address |-> "own", twoBytes |-> twoBytes, startByte |-> 7]

CanTunes ==
  {[protocol |-> "BMW", wbo |-> "RUSEFI", secondarySerial |-> FALSE, intcan |-> TRUE, available |-> TRUE,
    littleEndian |-> FALSE, channels |-> [i \in {0, 1} |-> IF i = 0 THEN External(FALSE) ELSE OnPin("analog", TRUE)]],
   [protocol |-> "HALTECH", wbo |-> "AEM", secondarySerial |-> TRUE, intcan |-> TRUE, available |-> TRUE,
    littleEndian |-> TRUE, channels |-> [i \in {0, 1} |-> IF i = 0 THEN OnPin("digital", FALSE) ELSE External(FALSE)]]}

MCTunes ==
  [cooling |-> CoolingTunes, pump |-> {0, 1, 3}, boost |-> BoostTunes, valves |-> ValveTunes,
   idle |-> IdleTunes, rules |-> Programs, nitrous |-> SpeedTunes, limits |-> LimitTunes, test |-> {"only"}, calibration |-> {"only"},
   timer |-> {[halfSpeed |-> h, sweep |-> TRUE] : h \in BOOLEAN},
   corrections |-> CorrectionTunes, ego |-> {[Plain EXCEPT !.egoAlgorithm = "SIMPLE"]},
   knock |-> {[Plain EXCEPT !.knock_mode = "DIGITAL"]}, manifold |-> ManifoldTunes, throttle |-> FlexTunes, analog |-> {Stock},
   baro |-> FlexTunes, flex |-> FlexTunes, speed |-> SpeedSensorTunes, comms |-> SerialTunes,
   can |-> CanTunes]

\* What is told of the engine and asked on the bus: a cold start, which has not
\* turned yet, and a hot engine near its limits; a request for every number
\* that is computed, some others, and what the sensors and a channel send.
ColdStart ==
  [RPM |-> 0, TPS |-> 0, MAP |-> 101, baro |-> 101, coolant |-> -20, IAT |-> -40, fuelTemp |-> 0,
   vss |-> 0, vvt |-> <<0, 0>>, gear |-> 0, advance |-> -10, fuelLoad |-> 101, fuelPressure |-> 43,
   oilPressure |-> 0, boostTarget |-> 0, battery10 |-> 119, ethanolPct |-> 0, O2 |-> <<0, 255>>,
   O2ADC |-> <<0, 1023>>, pw |-> <<0, 0, 0, 0>>, nSquirts |-> 2, revolutionTime |-> 0,
   running |-> FALSE, fourStroke |-> TRUE, stoich |-> 147, field |-> -2]

FlatOut ==
  [ColdStart EXCEPT !.RPM = 9301, !.TPS = 199, !.MAP = 255, !.coolant = 215, !.IAT = 101, !.vss = 255,
                    !.vvt = <<-5, 50>>, !.advance = 35, !.fuelPressure = 110, !.ethanolPct = 85,
                    !.O2 = <<125, 147>>, !.pw = <<6401, 6402, 6403, 6404>>, !.revolutionTime = 6451,
                    !.running = TRUE]

MCCanReports == {ColdStart, FlatOut}

Message(address, b1, b2, b3, b4, b7) == [address |-> address, bytes |-> <<b1, b2, b3, b4, 0, 0, b7, 77>>]
Asked(m, low, high) == Message("own", 3, m, low, high, 0)

MCReceived ==
  {Asked(1, low, 0) : low \in {0, 1, 5, 10, 11, 12, 13, 14, 15, 17, 32, 36, 51, 64, 66, 82, 96}}
  \cup {Asked(34, 1, 119), Asked(34, 3, 120), Asked(9, 2, 0), Message("everyone", 3, 1, 12, 0, 0)}
  \cup {Message("lambda 1", 0, 1, 16, 39, 0), Message("lambda 1", 0, 0, 255, 255, 0),
        Message("lambda 2", 0, 1, 255, 255, 0), Message("AEM", 255, 255, 0, 0, 128), Message("AEM", 39, 16, 0, 0, 0)}
  \cup {Message("another", 0, 0, 0, 0, 5), Message("a third", 0, 0, 0, 0, 5)}

\* For liveness: the parts that have something to come to rest, or to end.
MCLastingTunes ==
  [cooling |-> {[c EXCEPT !.airConEnable = TRUE, !.airConTurnsFanOn = TRUE] : c \in {d \in CoolingTunes : d.fanEnable = 1}},
   valves |-> {Valve(FALSE, TRUE, "none", {}), Valve(FALSE, FALSE, "ONOFF", {})},
   idle |-> {IdleTune1("PWM_OL", 0, FALSE)}, nitrous |-> SpeedTunes,
   timer |-> {[halfSpeed |-> FALSE, sweep |-> FALSE]},
   comms |-> {Hosts("OFF", {"len", "crc", "bad"}, {}), Hosts("TUNERSTUDIO", {"len"}, {"Q"})}]

\* For the loggers: framed commands on the first port, the log's among them.
MCLoggingTunes == [comms |-> {Hosts("OFF", {"len", "crc", "T", "H"}, {})}]

MCReading ==
  [part \in Followed |-> [coolant |-> IF part = "idle" THEN 1 ELSE IF part = "valves" THEN 2 ELSE 3, tps |-> 1, map |-> IF part = "limits" THEN 1 ELSE 0, request |-> 1, gear |-> 1, angle |-> 2, O2 |-> 2]]

MCSpeeds ==
  [cooling |-> {2, 5}, nitrous |-> {2, 3, 4, 5}, limits |-> {2, 5}, corrections |-> {2, 4, 5}, ego |-> {2, 4}, knock |-> {4},
   pump |-> {2}, boost |-> {5}, valves |-> {5}, idle |-> {2, 5}, rules |-> {}, test |-> {5}, calibration |-> {5},
   timer |-> {5}, manifold |-> {5}, throttle |-> {}, analog |-> {}, baro |-> {}, flex |-> {}, speed |-> {}, comms |-> {}, can |-> {}]

MCWatched ==
  [cooling |-> [coolant |-> {0, 4}, tps |-> {0, 1}, request |-> {0, 1}],
   nitrous |-> [tps |-> {0, 1}, request |-> {0, 1}],
   limits |-> [tps |-> {0, 1}, coolant |-> {1, 3}], boost |-> [map |-> {0, 2}, gear |-> {0, 1}],
   valves |-> [coolant |-> {1, 2}], idle |-> <<>>,
   rules |-> [tps |-> {0, 1}, coolant |-> {1, 2}], corrections |-> [tps |-> {0, 1}],
   ego |-> [O2 |-> {1, 3}], knock |-> <<>>,
   pump |-> <<>>, test |-> <<>>, calibration |-> <<>>, timer |-> <<>>, manifold |-> <<>>, throttle |-> <<>>, analog |-> <<>>, baro |-> <<>>, flex |-> <<>>, speed |-> <<>>, comms |-> <<>>, can |-> <<>>]

MCPassTimes == {{}, {"10HZ", "TPS"}}

MCRates == {"10HZ", "1HZ"}
MCPeriod == [r \in MCRates |-> IF r = "10HZ" THEN 2 ELSE 4]
=============================================================================
