------------------------------ MODULE CanMessages ------------------------------
(***************************************************************************)
(* What the bytes of the messages on the CAN bus say (comms_CAN.cpp): the  *)
(* broadcasts of DashMessage and the answers of obd_response, each a row   *)
(* of bytes computed from a report of the engine's state.  An empty row    *)
(* leaves the message buffer as it is.                                     *)
(***************************************************************************)
EXTENDS Integers, Sequences

\* The fields of currentStatus, the schedules and the tune that are told,
\* with the values their types, or the code that sets them, allow.
within(v, low, high) == v \in Int /\ low <= v /\ v <= high

IsReport(s) ==
  /\ within(s.RPM, 0, 65535) /\ within(s.vss, 0, 65535) /\ within(s.TPS, 0, 200)
  /\ within(s.coolant, -40, 215) /\ within(s.IAT, -40, 215) /\ within(s.fuelTemp, -40, 215)
  /\ within(s.MAP, 0, 511) /\ within(s.fuelLoad, 0, 511) /\ within(s.boostTarget, 0, 511)
  /\ within(s.baro, 0, 255) /\ within(s.battery10, 0, 255) /\ within(s.ethanolPct, 0, 255)
  /\ within(s.fuelPressure, 0, 255) /\ within(s.oilPressure, 0, 255) /\ within(s.gear, 0, 255)
  /\ within(s.advance, -128, 127) /\ within(s.stoich, 1, 255) /\ within(s.nSquirts, 1, 8)
  /\ \A i \in 1..2 : within(s.O2[i], 0, 255) /\ within(s.O2ADC[i], 0, 1023) /\ within(s.vvt[i], -32768, 32767)
  /\ \A i \in 1..4 : within(s.pw[i], 0, 65535)
  /\ s.revolutionTime \in Nat /\ s.running \in BOOLEAN /\ s.fourStroke \in BOOLEAN
  /\ within(s.field, -32768, 32767)

\* The two bytes of a 16-bit value, as most messages have them.
lowByte(v) == v % 256
highByte(v) == (v \div 256) % 256
highLow(v) == <<highByte(v), lowByte(v)>>

clipped(v, limit) == IF v > limit THEN limit ELSE v

-----------------------------------------------------------------------------
(* DashMessage.                                                            *)

BmwMessage(id, s) ==
  CASE id = "DME1" -> LET speed == (s.RPM * 64) \div 10 IN <<5, 12, lowByte(speed), highByte(speed), 12, 21, 0, 53>>
    [] id = "DME2" -> <<17, clipped(((s.coolant + 48) * 4) \div 3, 255), s.baro, 8, 0, (s.TPS * 253) \div 200 + 1, 0, 0>>
    [] id = "DME4" -> <<0, 0, 0, IF s.coolant > 159 THEN 8 ELSE 0, 126>>

VagMessage(id, s) ==
  CASE id = "RPM" -> <<73, 14, lowByte(s.RPM * 4), highByte(s.RPM * 4), 14, 0, 27, 14>>
    [] id = "VAG_VSS" -> <<255, lowByte(s.vss * 133), highByte(s.vss * 133), 0, 0, 0, 0, 173>>

\* Pressures from psi to tenths of kPa, absolute; div100 rounds to the nearest.
tenthsOfKpa(psi) == (psi * 6894 + 50) \div 100 + 1013

\* The time between two revolutions is 0 until the first: the processors with
\* a CAN interface divide by 0 to 0.
dutyCycle(s) ==
  LET duty == IF s.revolutionTime = 0 THEN 0 ELSE (s.pw[1] * 100 * s.nSquirts) \div s.revolutionTime
  IN IF s.fourStroke THEN (duty % 65536) \div 2 ELSE duty

HaltechMessage(id, s) ==
  CASE id = "DATA1" -> <<highByte(s.RPM), lowByte(s.RPM), highByte(s.MAP * 10), lowByte(s.MAP * 10), highByte(s.TPS * 5), lowByte(s.TPS * 5), 0, 0>>
    [] id = "DATA2" -> highLow(tenthsOfKpa(s.fuelPressure)) \o highLow(tenthsOfKpa(s.oilPressure)) \o highLow(s.fuelLoad * 10) \o <<0, 0>>
    [] id = "DATA3" -> highLow(dutyCycle(s)) \o <<0, 0>> \o highLow(s.advance * 10) \o <<0, 0>>
    [] id = "PW" -> highLow(s.pw[1]) \o highLow(s.pw[2]) \o highLow(s.pw[3]) \o highLow(s.pw[4])
    [] id = "LAMBDA" -> highLow((s.O2[1] * 1000) \div s.stoich) \o highLow((s.O2[2] * 1000) \div s.stoich) \o <<0, 0, 0, 0>>
    [] id = "VSS" -> highLow(s.vss * 10) \o <<0, s.gear % 256>> \o highLow(s.vvt[1] * 10) \o highLow(s.vvt[2] * 10)
    [] id = "DATA4" -> <<0, s.battery10, 0, 0>> \o highLow(s.boostTarget * 10) \o highLow(s.baro * 10)
    [] id = "DATA5" -> highLow((s.coolant + 273) * 10) \o highLow((s.IAT + 273) * 10) \o highLow((s.fuelTemp + 273) * 10) \o <<0, 0>>

\* TRIGGER has a number and no contents.
DashMessage(id, s) ==
  CASE id \in {"DME1", "DME2", "DME4"} -> BmwMessage(id, s)
    [] id \in {"RPM", "VAG_VSS"} -> VagMessage(id, s)
    [] id \in {"DATA1", "DATA2", "DATA3", "PW", "LAMBDA", "VSS", "DATA4", "DATA5"} -> HaltechMessage(id, s)
    [] OTHER -> <<>>

-----------------------------------------------------------------------------
(* obd_response: the answer to mode 1 repeats the number that was asked.   *)

one(pid, a) == <<3, 65, pid, lowByte(a), 0, 0, 0, 0>>
two(pid, v) == <<4, 65, pid, highByte(v), lowByte(v), 0, 0, 0>>
four(pid, v, w) == <<6, 65, pid, highByte(v), lowByte(v), highByte(w), lowByte(w), 0>>

\* A temperature is told from -40 degrees up.
temperatureAddOffset(t) == t + 40

\* What a sensor of the mixture tells: its lambda and its voltage.
mixture(pid, s, i) ==
  four(pid, (s.O2[i] * 32768) \div s.stoich, (s.O2ADC[i] * 20971) \div 256)

\* The numbers up to 32.
firstData(pid, s) ==
  CASE pid = 0 -> <<6, 65, 0, 8, 126, 160, 17, 0>>
    [] pid = 5 -> one(5, temperatureAddOffset(s.coolant))
    [] pid = 10 -> one(10, (23 * s.fuelPressure) \div 10)
    [] pid = 11 -> one(11, s.MAP)
    [] pid = 12 -> two(12, s.RPM * 4)
    [] pid = 13 -> one(13, s.vss)
    [] pid = 14 -> one(14, (s.advance + 64) * 2)
    [] pid = 15 -> one(15, temperatureAddOffset(s.IAT))
    [] pid = 17 -> one(17, clipped((327 * s.TPS) \div 256, 255))
    [] pid = 19 -> one(19, 3)
    [] pid = 28 -> one(28, 7)
    [] pid = 32 -> <<6, 65, 32, 24, 0, 32, 1, 0>>
    [] OTHER -> <<>>

laterData(pid, s) ==
  CASE pid = 36 -> mixture(36, s, 1)
    [] pid = 37 -> mixture(37, s, 2)
    [] pid = 51 -> one(51, s.baro)
    [] pid = 64 -> <<6, 65, 64, 68, 0, 64, 16, 0>>
    [] pid = 66 -> two(66, s.battery10 * 100)
    [] pid = 70 -> one(70, temperatureAddOffset(11))
    [] pid = 82 -> one(82, clipped((655 * s.ethanolPct) \div 256, 255))
    [] pid = 92 -> one(92, temperatureAddOffset(40))
    [] pid = 96 -> <<6, 65, 96, 0, 0, 0, 0, 0>>
    [] OTHER -> <<>>

\* Mode 22h: an input channel, or a field of the status by its number.
customData(low, high, channels, s) ==
  CASE high = 119 /\ low \in 1..16 -> <<6, 98, low, 119, lowByte(channels[low - 1]), highByte(channels[low - 1]), 0, 0>>
    [] high = 120 -> <<6, 98, low, 120, lowByte(s.field), highByte(s.field), 0, 0>>
    [] OTHER -> <<>>

obdData(pid, s) == IF pid <= 32 THEN firstData(pid, s) ELSE laterData(pid, s)

-----------------------------------------------------------------------------
(* What the other side makes of it: the formulas the comments give.        *)

\* The n-th number after the one asked for is there if its bit is set, the
\* highest bit of the first byte being the first number's.
Weight == <<128, 64, 32, 16, 8, 4, 2, 1>>
announces(row, n) == (row[4 + ((n - 1) \div 8)] \div Weight[1 + ((n - 1) % 8)]) % 2 = 1

\* A scan tool asks for what is announced, beginning with number 0.
Announced(s) ==
  UNION {{base + n : n \in {m \in 1..32 : announces(obdData(base, s), m)}} : base \in {0, 32, 64}}

near(a, b, unit) == a - b <= unit /\ b - a <= unit

\* A value that the formula's range holds is read back, within a unit of it.
ReadsBack(pid, A, B, s) ==
  LET AB == 256 * A + B
  IN /\ pid = 5 => A - 40 = s.coolant
     /\ pid = 10 /\ s.fuelPressure <= 110 => near(3000 * A, 6895 * s.fuelPressure, 3000)
     /\ pid = 11 /\ s.MAP <= 255 => A = s.MAP
     /\ pid = 12 /\ s.RPM < 16384 => AB = 4 * s.RPM
     /\ pid = 13 /\ s.vss <= 255 => A = s.vss
     /\ pid = 14 /\ within(s.advance, -64, 63) => A = 2 * (s.advance + 64)
     /\ pid = 15 => A - 40 = s.IAT
     /\ pid = 17 => near(200 * A, 255 * s.TPS, 255)
     /\ pid = 51 => A = s.baro
     /\ pid = 66 => AB = 100 * s.battery10
     /\ pid = 82 /\ s.ethanolPct <= 100 => near(100 * A, 255 * s.ethanolPct, 255)

\* The speed on a dashboard is the engine's, while two bytes hold it.
SpeedShown(id, b, s) ==
  /\ id = "DME1" /\ s.RPM < 10240 => near(10 * (b[3] + 256 * b[4]), 64 * s.RPM, 10)
  /\ id = "RPM" /\ s.RPM < 16384 => b[3] + 256 * b[4] = 4 * s.RPM
  /\ id = "DATA1" => 256 * b[1] + b[2] = s.RPM
================================================================================
