---------------------------- MODULE MCTuneStorage ----------------------------
(* Tunes of two pages with two settings each for TLC: settings that a        *)
(* conversion computes from each other or from themselves together, and one  *)
(* tune of every version that differs in what is ahead of it.                *)
EXTENDS TuneStorage

Holding(from, a, b, c, d) == [version |-> from, holds |-> << <<a, b>>, <<c, d>> >>]

MCTunes ==
  {Holding(7, "fuelAlgorithm", "legacyMAP", "ADCFILTER", "ADCFILTER"),
   Holding(9, "asePct", "aeColdTaperMin", "fuel2SwitchValue", "ADCFILTER"),
   Holding(13, "crankingEnrichValues", "injAngCurve", "injAng", "idlePID"),
   Holding(16, "multiplyMAP", "firstDataIn", "outputPin", "vvtTable"),
   Holding(17, "vvtMode", "tachoMode", "idleAdvDelay", "ADCFILTER"),
   Holding(18, "fanEnable", "fanUnused", "idleAdvTPS", "spark2SwitchValue"),
   Holding(20, "firstDataIn", "dfcoHyster", "wmiTable", "decelAmount"),
   Holding(23, "flexAdvAdj", "CANBroadcastProtocol", "unused1_126", "ADCFILTER"),
   Holding(25, "ignTrim", "fuelTable", "ADCFILTER", "ignitionTable"),
   Holding(255, "outputPin", "fuelTable", "ADCFILTER", "true_address"),
   Holding(28, "fuelTable", "ignTrim", "ADCFILTER", "ignitionTable")}

MCCurrentTune == {Holding(27, "fuelTable", "ignTrim", "ADCFILTER", "ignitionTable")}
=============================================================================
