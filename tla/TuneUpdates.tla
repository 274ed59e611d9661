---------------------------- MODULE TuneUpdates ----------------------------
(***************************************************************************)
(* What the conversions of updates.cpp do to a tune of an older version:   *)
(* one definition for each, from version 7 on.  A setting is named after   *)
(* its field in config_pages.h (a curve and its bins, or fields always     *)
(* treated alike, are one); its value is known by the version it is right  *)
(* for.  A conversion                                                      *)
(*   sets    some to a default,                                            *)
(*   from    computes some from others: pairs of target and source,        *)
(*   own     some from their own value, so that doing it twice is wrong,   *)
(*   spoils  some that it reads or writes where this firmware, not the     *)
(*           tune's version, has them, or that it takes for another.       *)
(* Checks that only replace values out of range are left out.              *)
(***************************************************************************)
EXTENDS Integers

CurrentVersion == 27    \* CURRENT_DATA_VERSION
Wrong == -1             \* the format of a value that is right for no version

Nothing == [sets |-> {}, from |-> {}, own |-> {}, spoils |-> {}]

\* configPage10 from byte 25 to 74, which version 23 moves by a byte or two.
Shifted == {"boostIntv", "boostSens", "stagedInjSize", "flexBoostBins", "flexBoostAdj", "flexFuelBins",
            "flexFuelAdj", "flexAdvBins", "flexAdvAdj", "lnchCtrlTPS"}

\* Pages 13 and 14, which tunes up to version 16 have 112 bytes further down:
\* loadAllPages reads something else in their place.
Misplaced == {"outputPin", "outputDelay", "outputTimeLimit", "firstDataIn", "secondDataIn", "ignTrim",
              "onboard_log", "hwTest", "ignitionTable2"}

\* Flex fuel tables out of two values each, written to where they are now.
Version7 == [Nothing EXCEPT
  !.spoils = {"flexBoostBins", "flexBoostAdj", "flexFuelBins", "flexFuelAdj", "flexAdvBins", "flexAdvAdj",
              "lnchCtrlTPS"}]

Version8 == [Nothing EXCEPT
  !.sets = {"boostType"},
  !.from = {<<"fuelAlgorithm", "legacyMAP">>, <<"ignAlgorithm", "legacyMAP">>}]

Version9 == [Nothing EXCEPT !.sets = {"caninput_sel", "ADCFILTER"}]

Version10 == [Nothing EXCEPT
  !.sets = {"primeBins", "aseCount", "aseBins", "cltAdv", "aeMode", "maeCurve", "fuel2Mode"},
  !.from = {<<"primePulse", "aeColdTaperMax">>, <<"asePct", "aeColdTaperMin">>, <<"maeThresh", "taeThresh">>}]

Version11 == [Nothing EXCEPT
  !.sets = {"batVoltCorrect", "legacyMAP", "fuel2Mode", "fuel2SwitchVariable", "fuel2SwitchValue"}]

Version12 == [Nothing EXCEPT
  !.sets = {"baroFuel", "idleAdvEnabled", "idleAdvTPS", "idleAdvRPM", "idleAdvCurve"}]

Version13 == [Nothing EXCEPT
  !.sets = {"injAngRPM", "dfcoDelay", "dfcoMinCLT", "aeColdPct", "aeColdTaperMin", "aeColdTaperMax",
            "crankingEnrichTaper", "aseTaperTime", "SoftLimitMode", "vssMode"},
  !.from = {<<"injAngCurve", "injAng">>},
  !.own = {"crankingEnrichValues", "idlePID", "vvtCLPID"},
  !.spoils = {"flexAdvBins", "flexAdvAdj"}]

\* The long calibration tables become short ones, in the form of version 26 and
\* saved in its places; version 25 then reads them where its own would be.
Version14 == [Nothing EXCEPT
  !.sets = {"oilPressureProtEnbl", "oilPressureEnable", "fuelPressureEnable", "wmiEnabled", "wmiMode",
            "wmiOffset", "wmiAdv", "outputPin", "aeApplyMode", "primingDelay", "aseTaperTime"},
  !.from = {<<"multiplyMAP", "crkngAddCLTAdv">>},
  !.spoils = {"calibration"}]

Version15 == [Nothing EXCEPT !.sets = {"spark2Mode"}]

\* It also moves pages 13 and 14 to their places, in storage only: the save of
\* the pages as they were loaded then writes over them.
Version16 == [Nothing EXCEPT !.sets = {"iacPWMrun", "useDwellMap"}]

Version17 == [Nothing EXCEPT
  !.sets = {"vvt2Enabled", "vvt2PWMdir", "TrigEdgeThrd", "vvtCLMinAng", "vvtCLMaxAng", "ANGLEFILTER_VVT",
            "mapSwitchPoint", "boostByGearEnabled", "outputTimeLimit"},
  !.from = {<<"vvtMode", "tachoMode">>},
  !.own = {"vvtTable", "vvtCLholdDuty", "vvtCLminDuty", "vvtCLmaxDuty", "idleAdvDelay"}]

\* All throttle positions are doubled; of the second ignition table's switch the
\* variable is, instead of its value.
Version18 == [Nothing EXCEPT
  !.sets = {"vvtDelay", "vvtMinClt", "onboard_log"},
  !.from = {<<"fanEnable", "fanUnused">>},
  !.own = {"idleAdvTPS", "iacTPSlimit", "floodClear", "dfcoTPSThresh", "egoTPSMax", "wmiTPS", "n2o_minTPS",
           "fuel2SwitchValue", "fuelTable", "afrTable", "trimTables", "rotarySplitBins", "ignitionTable",
           "fuelTable2", "ignitionTable2", "boostTable", "vvtTable", "vvt2Table"},
  !.spoils = {"lnchCtrlTPS", "flexAdvAdj", "spark2SwitchVariable", "spark2SwitchValue"}]

Version19 == [Nothing EXCEPT
  !.sets = {"hardRevMode", "tachoMode", "CANBroadcastProtocol", "boostDCWhenDisabled", "boostControlEnable",
            "boostTableLookupDuty", "afrProtect"},
  !.from = {<<"inj4cylPairing", "nCylinders">>, <<"inj4cylPairing", "injLayout">>}]

Version20 == [Nothing EXCEPT
  !.sets = {"taeMinChange", "maeMinChange", "decelAmount", "airConEnable", "oilPressureProtTime",
            "iacStepperPower"},
  !.own = {"firstDataIn", "secondDataIn"}]

Version21 == [Nothing EXCEPT !.sets = {"rollingProt"}, !.own = {"dfcoHyster"}]

Version22 == [Nothing EXCEPT
  !.sets = {"hwTest", "dfcoTaper", "egoMAPMax", "egoMAPMin", "canWBO"},
  !.own = {"wmiTable"}]

Version23 == [Nothing EXCEPT
  !.sets = {"knock_mode", "lnchCtrlVss", "flexFreq"},
  !.from = {<<"CANBroadcastProtocol", "unused1_126">>},
  !.own = Shifted]

upgradeV25toV26 == [Nothing EXCEPT !.own = {"calibration"}]
upgradeV26toV27 == [Nothing EXCEPT !.sets = {"ignTrim"}]

Converted == 7..26      \* versions 2 to 6 are not modelled, 1 is never converted

Conversion(v) ==
  CASE v = 7 -> Version7 [] v = 8 -> Version8 [] v = 9 -> Version9 [] v = 10 -> Version10
    [] v = 11 -> Version11 [] v = 12 -> Version12 [] v = 13 -> Version13 [] v = 14 -> Version14
    [] v = 15 -> Version15 [] v = 16 -> Version16 [] v = 17 -> Version17 [] v = 18 -> Version18
    [] v = 19 -> Version19 [] v = 20 -> Version20 [] v = 21 -> Version21 [] v = 22 -> Version22
    [] v = 23 -> Version23 [] v = 24 -> Nothing [] v = 25 -> upgradeV25toV26 [] v = 26 -> upgradeV26toV27

\* Versions 24 and 25 save no page.
SavesPages(v) == v \notin {24, 25}

\* What a brand new board is given, in RAM only.
NewBoard == {"true_address", "outputPin", "FILTER_FLEX"}

-----------------------------------------------------------------------------
Sources(v, s) == {pair[2] : pair \in {q \in Conversion(v).from : q[1] = s}}

Changes(v, s) ==
  \/ s \in Conversion(v).sets \/ s \in Conversion(v).own \/ s \in Conversion(v).spoils
  \/ Sources(v, s) # {}

\* A value of format f is what version v means by setting s.
Right(v, s, f) == f \in 0..v /\ \A u \in f..(v - 1) : ~Changes(u, s)

\* The format of a setting after the conversion of version v, from its format f
\* before; sourcesRight: what it is computed from was right.
ConvertedFormat(v, s, f, sourcesRight) ==
  LET by == Conversion(v) IN
  CASE s \in by.spoils -> Wrong
    [] s \notin by.spoils /\ s \in by.sets -> v + 1
    [] s \notin by.spoils \union by.sets /\ Sources(v, s) # {} ->
         IF sourcesRight THEN v + 1 ELSE Wrong
    [] s \notin by.spoils \union by.sets /\ Sources(v, s) = {} /\ s \in by.own ->
         IF Right(v, s, f) THEN v + 1 ELSE Wrong
    [] OTHER -> f

\* A setting that a tune of version `first` brings and every conversion from then
\* on understands.
Understood(first, s) ==
  /\ \A v \in first..(CurrentVersion - 1) : s \notin Conversion(v).spoils
  /\ first <= 16 => s \notin Misplaced
=============================================================================
