------------------------------ MODULE Decoders ------------------------------
(***************************************************************************)
(* The decoders other than the missing tooth one, each on its own wheel.   *)
(* The wheel turns edge by edge at a speed that may change; each edge runs *)
(* the handler of its line, once or, when the pulse is lost, not at all; a *)
(* pulse of noise may come after any edge; and the engine may stall, when  *)
(* the main loop resets the decoder store by store and sets it up again.   *)
(***************************************************************************)
EXTENDS CountingDecoders, UnevenDecoders, GapDecoders, SpecialDecoders

CONSTANTS
  Patterns,        \* the decoders that may be chosen
  Speeds,          \* the time a degree may take
  MaxEvents,       \* bound: how many faults and changes of speed
  QuietMax         \* turns of the wheel after which a fault must be forgotten

VARIABLES
  pattern,         \* configPage4.TrigPattern
  at,              \* the edge of the wheel that passed last
  edge,            \* the line whose handler has not run yet, or "none"
  speed,
  cranking,        \* the main loop's RPM is below the limits the decoders compare it with
  resetLeft,       \* stores the main loop has still to make of a reset it has begun
  changes,
  faults, quiet

wheel == <<pattern, triggerFilter, at, speed, cranking, resetLeft, changes, faults, quiet>>
vars == <<wheel, edge, d>>

ASSUME DecodersAssumption ==
  /\ Speeds \subseteq Nat \ {0} /\ MaxEvents \in Nat
  /\ QuietMax \in Nat \ {0}

-----------------------------------------------------------------------------
(* What each decoder is used with.                                         *)

\* What is known of a decoder on its wheel:
\*   wheel     its edges;
\*   turn      the angle of a turn of the wheel, in the wheel's unit, of which unit[1]
\*             are unit[2] degrees;
\*   cycle     the angle after which the decoder's own repeats;
\*   levels    the filter levels, and
\*   heals     the faults, after which it finds its position again;
\*   probe     the edges where it starts and where faults come;
\*   hasty     it may take a wrong position before it has seen a whole turn;
\*   evenly    the tooth before the last is where the tooth angle says;
\*   races     it does so too after an edge in the middle of a reset;
\*   syncs     it ever claims a position;
\*   cranking  whether the handlers may see a speed below their limits;
\*   limit     the angle after which the ignition repeats;
\*   ahead     how far before an ignition its end tooth may be, of the ignition
\*   advances  tried.
Profile(w, turn, cycle) ==
  [wheel |-> w, turn |-> turn, cycle |-> cycle, unit |-> <<1, 1>>,
   levels |-> 0..3, heals |-> {"lost", "noise", "stall"}, probe |-> 1..Len(w),
   hasty |-> FALSE, evenly |-> TRUE, limit |-> 720, ahead |-> 120, cranking |-> {FALSE},
   advances |-> {0, 5, 10, 20, 30, 40}, syncs |-> TRUE,
   races |-> TRUE]

ProfileOf(p) ==
  CASE p = "DualWheel" -> [Profile(Wheel_DualWheel, 720, 720) EXCEPT !.levels = {0, 1}, !.ahead = 180]
    [] p = "non360" -> [Profile(Wheel_non360, 720, 360) EXCEPT !.levels = {0, 1}]
    [] p = "DRZ400" -> [Profile(Wheel_DRZ400, 360, 360) EXCEPT !.levels = {0, 1}, !.races = FALSE]
    [] p = "Webber" -> [Profile(Wheel_Webber, 720, 720) EXCEPT !.hasty = TRUE]
    [] p = "BasicDistributor" -> [Profile(Wheel_BasicDistributor, 720, 180) EXCEPT
                                    !.levels = 0..2, !.limit = 360, !.ahead = 180]
    [] p = "24X" -> Profile(Wheel_24X, 360, 360)
    [] p = "Jeep2000" -> [Profile(Wheel_Jeep2000, 360, 360) EXCEPT !.levels = {0}]
    [] p = "Audi135" -> [Profile(Wheel_Audi135, 2160, 2160) EXCEPT
                           !.unit = <<3, 1>>, !.levels = {0},
                           !.probe = {i \in 1..271 : i % 30 \in {1, 8}} \cup {270, 271}]
    [] p = "4G63_4" -> [Profile(Wheel_4G63_4, 720, 720) EXCEPT !.cranking = BOOLEAN]
    [] p = "4G63_6" -> [Profile(Wheel_4G63_6, 720, 720) EXCEPT !.cranking = BOOLEAN, !.heals = {}]
    [] p = "Miata9905" -> [Profile(Wheel_Miata9905, 720, 720) EXCEPT
                             !.cranking = BOOLEAN, !.levels = {0, 1}]
    [] p = "MazdaAU" -> [Profile(Wheel_MazdaAU, 720, 360) EXCEPT !.syncs = FALSE]
    [] p = "Subaru67" -> [Profile(Wheel_Subaru67, 720, 720) EXCEPT !.hasty = TRUE]
    [] p = "Nissan360_4" -> [Profile(Wheel_Nissan360(4), 720, 720) EXCEPT
                               !.heals = {"noise", "stall"}, !.levels = {0, 1}, !.probe = {i \in 1..368 : i % 120 = 1}]
    [] p = "Nissan360_6" -> [Profile(Wheel_Nissan360(6), 720, 720) EXCEPT
                               !.levels = {0, 1}, !.probe = {i \in 1..372 : i % 120 = 1}]
    [] p = "420a" -> [Profile(Wheel_420a, 720, 720) EXCEPT !.advances = {0, 5, 10, 20}]
    [] p = "GM7X" -> [Profile(Wheel_GM7X, 360, 360) EXCEPT
                        !.evenly = FALSE, !.heals = {"stall"}, !.probe = 3..6, !.limit = 360,
                        !.races = FALSE]
    [] p = "HondaD17" -> [Profile(Wheel_HondaD17, 360, 360) EXCEPT
                            !.heals = {"stall"}, !.hasty = TRUE, !.probe = 1..9,
                            !.races = FALSE]
    [] p = "HondaJ32" -> [Profile(Wheel_HondaJ32, 360, 360) EXCEPT
                            !.heals = {"lost", "stall"}, !.hasty = TRUE]
    [] p = "Daihatsu_3" -> [Profile(Wheel_Daihatsu(3), 720, 720) EXCEPT !.heals = {"stall"}]
    [] p = "Daihatsu_4" -> [Profile(Wheel_Daihatsu(4), 720, 720) EXCEPT !.heals = {"stall"}]
    [] p = "Harley" -> [Profile(Wheel_Harley, 360, 360) EXCEPT !.hasty = TRUE]
    [] p = "36-2-2-2_4" -> [Profile(Wheel_ThirtySixMinus222(4), 360, 360) EXCEPT
                              !.levels = {0, 1}, !.limit = 360]
    [] p = "36-2-2-2_6" -> [Profile(Wheel_ThirtySixMinus222(6), 360, 360) EXCEPT
                              !.levels = {0, 1}, !.limit = 360]
    [] p = "36-2-1" -> [Profile(Wheel_ThirtySixMinus21, 360, 360) EXCEPT !.hasty = TRUE]
    [] p = "NGC4" -> [Profile(Wheel_NGC4, 720, 720) EXCEPT
                        !.levels = 0..2, !.probe = {i \in 1..Len(Wheel_NGC4) : i % 16 = 1}]
    [] p = "NGC6" -> [Profile(Wheel_NGC6, 720, 720) EXCEPT
                        !.levels = 0..2, !.probe = {i \in 1..Len(Wheel_NGC6) : i % 16 = 1}]
    [] p = "Vmax" -> [Profile(Wheel_Vmax, 360, 360) EXCEPT
                        !.cranking = BOOLEAN, !.hasty = TRUE, !.levels = 0..2,
                        !.probe = {1, 6, 9}]
    [] p = "Renix_4" -> [Profile(Wheel_Renix(4), 352, 180) EXCEPT
                           !.heals = {"lost", "stall"}, !.levels = {0},
                           !.unit = <<88, 90>>, !.ahead = 270, !.probe = {1, 8, 12, 18}]
    [] p = "Renix_6" -> [Profile(Wheel_Renix(6), 396, 120) EXCEPT
                           !.heals = {"lost", "stall"}, !.levels = {0},
                           !.unit = <<66, 60>>, !.ahead = 180, !.probe = {1, 8, 12, 18}]
    [] p = "RoverMEMS_2" -> [Profile(Wheel_RoverMEMS(2), 720, 720) EXCEPT
                               !.evenly = FALSE, !.probe = {i \in 1..65 : i % 16 = 1}]
    [] p = "RoverMEMS_3" -> [Profile(Wheel_RoverMEMS(3), 720, 720) EXCEPT
                               !.evenly = FALSE, !.probe = {i \in 1..65 : i % 16 = 1}]
    [] p = "SuzukiK6A" -> [Profile(Wheel_SuzukiK6A, 720, 720) EXCEPT
                             !.hasty = TRUE, !.levels = {0}]
    [] p = "FordTFI" -> [Profile(Wheel_FordTFI, 720, 720) EXCEPT
                           !.levels = 0..2, !.limit = 360, !.ahead = 180]

profiles == [p \in Patterns |-> ProfileOf(p)]
profile == profiles[pattern]

\* buildDecoder's choice of triggerSetup_*.
triggerSetup(p, s) ==
  CASE p = "DualWheel" \/ p = "Webber" -> triggerSetup_DualWheel(s)
    [] p = "non360" -> triggerSetup_non360(s)
    [] p = "DRZ400" -> triggerSetup_DRZ400(s)
    [] p = "BasicDistributor" -> triggerSetup_BasicDistributor(s)
    [] p = "24X" -> triggerSetup_24X(s)
    [] p = "Jeep2000" -> triggerSetup_Jeep2000(s)
    [] p = "Audi135" -> triggerSetup_Audi135(s)
    [] p \in {"4G63_4", "4G63_6"} -> triggerSetup_4G63(s)
    [] p = "Miata9905" -> triggerSetup_Miata9905(s)
    [] p = "MazdaAU" -> triggerSetup_MazdaAU(s)
    [] p = "Subaru67" -> triggerSetup_Subaru67(s)
    [] p \in {"Nissan360_4", "Nissan360_6"} -> triggerSetup_Nissan360(s)
    [] p = "420a" -> triggerSetup_420a(s)
    [] p = "GM7X" -> triggerSetup_GM7X(s)
    [] p = "HondaD17" -> triggerSetup_HondaD17(s)
    [] p = "HondaJ32" -> triggerSetup_HondaJ32(s)
    [] p = "Daihatsu_3" -> triggerSetup_Daihatsu(3, s)
    [] p = "Daihatsu_4" -> triggerSetup_Daihatsu(4, s)
    [] p = "Harley" -> triggerSetup_Harley(s)
    [] p \in {"36-2-2-2_4", "36-2-2-2_6"} -> triggerSetup_ThirtySixMinus222(s)
    [] p = "36-2-1" -> triggerSetup_ThirtySixMinus21(s)
    [] p \in {"NGC4", "NGC6"} -> triggerSetup_NGC(s)
    [] p = "Vmax" -> triggerSetup_Vmax(s)
    [] p = "Renix_4" -> triggerSetup_Renix(4, s)
    [] p = "Renix_6" -> triggerSetup_Renix(6, s)
    [] p \in {"RoverMEMS_2", "RoverMEMS_3"} -> triggerSetup_RoverMEMS(s)
    [] p = "SuzukiK6A" -> triggerSetup_SuzukiK6A(s)
    [] p = "FordTFI" -> triggerSetup_FordTFI(4, s)

\* The handlers setPrimaryTrigger attached.
triggerPri(e, slow) ==
  \/ pattern = "DualWheel" /\ triggerPri_DualWheel(triggerTeeth)
  \/ pattern = "non360" /\ triggerPri_DualWheel(non360Teeth)
  \/ pattern = "DRZ400" /\ triggerPri_DualWheel(drzTeeth)
  \/ pattern = "Webber" /\ triggerPri_Webber
  \/ pattern = "BasicDistributor" /\ triggerPri_BasicDistributor
  \/ pattern = "24X" /\ triggerPri_24X
  \/ pattern = "Jeep2000" /\ triggerPri_Jeep2000
  \/ pattern = "Audi135" /\ triggerPri_Audi135
  \/ pattern = "4G63_4" /\ triggerPri_4G63(4, e, slow)
  \/ pattern = "4G63_6" /\ triggerPri_4G63(6, e, slow)
  \/ pattern = "Miata9905" /\ triggerPri_Miata9905(slow)
  \/ pattern = "MazdaAU" /\ triggerPri_MazdaAU
  \/ pattern = "Subaru67" /\ triggerPri_Subaru67
  \/ pattern \in {"Nissan360_4", "Nissan360_6"} /\ triggerPri_Nissan360
  \/ pattern = "420a" /\ triggerPri_420a
  \/ pattern = "GM7X" /\ triggerPri_GM7X
  \/ pattern = "HondaD17" /\ triggerPri_HondaD17
  \/ pattern = "HondaJ32" /\ triggerPri_HondaJ32
  \/ pattern = "Daihatsu_3" /\ triggerPri_Daihatsu(3)
  \/ pattern = "Daihatsu_4" /\ triggerPri_Daihatsu(4)
  \/ pattern = "Harley" /\ triggerPri_Harley(e)
  \/ pattern = "36-2-2-2_4" /\ triggerPri_ThirtySixMinus222(4)
  \/ pattern = "36-2-2-2_6" /\ triggerPri_ThirtySixMinus222(6)
  \/ pattern = "36-2-1" /\ triggerPri_ThirtySixMinus21
  \/ pattern = "NGC4" /\ triggerPri_NGC(4, e)
  \/ pattern = "NGC6" /\ triggerPri_NGC(6, e)
  \/ pattern = "Vmax" /\ triggerPri_Vmax(e, slow)
  \/ pattern = "Renix_4" /\ triggerPri_Renix(4)
  \/ pattern = "Renix_6" /\ triggerPri_Renix(6)
  \/ pattern \in {"RoverMEMS_2", "RoverMEMS_3"} /\ triggerPri_RoverMEMS
  \/ pattern = "SuzukiK6A" /\ triggerPri_SuzukiK6A
  \/ pattern = "FordTFI" /\ triggerPri_FordTFI(4)

\* Those setSecondaryTrigger attached; the main loop's revolution time is 360 units here.
triggerSec(e, slow) ==
  \/ pattern = "DualWheel" /\ triggerSec_DualWheel(triggerTeeth, 360 * speed)
  \/ pattern = "non360" /\ triggerSec_DualWheel(non360Teeth, 360 * speed)
  \/ pattern = "DRZ400" /\ triggerSec_DRZ400
  \/ pattern = "Webber" /\ triggerSec_Webber
  \/ pattern = "24X" /\ triggerSec_24X
  \/ pattern = "Jeep2000" /\ triggerSec_Jeep2000
  \/ pattern = "Audi135" /\ triggerSec_Audi135
  \/ pattern = "4G63_4" /\ triggerSec_4G63(4, e, slow)
  \/ pattern = "4G63_6" /\ triggerSec_4G63(6, e, slow)
  \/ pattern = "Miata9905" /\ triggerSec_Miata9905(slow)
  \/ pattern = "MazdaAU" /\ triggerSec_MazdaAU
  \/ pattern = "Subaru67" /\ triggerSec_Subaru67
  \/ pattern = "Nissan360_4" /\ triggerSec_Nissan360(4, e)
  \/ pattern = "Nissan360_6" /\ triggerSec_Nissan360(6, e)
  \/ pattern = "420a" /\ triggerSec_420a(e)
  \/ pattern = "NGC4" /\ triggerSec_NGC4(e)
  \/ pattern = "NGC6" /\ triggerSec_NGC68(6)
  \/ pattern \in {"RoverMEMS_2", "RoverMEMS_3"} /\ triggerSec_RoverMEMS
  \/ pattern = "FordTFI" /\ triggerSec_FordTFI

\* At the last tooth, in degrees; and how long a revolution takes, zero for no new value.
getCrankAngle ==
  CASE pattern \in {"DualWheel", "Webber"} -> getCrankAngle_DualWheel(triggerTeeth)
    [] pattern = "DRZ400" -> getCrankAngle_DualWheel(drzTeeth)
    [] pattern = "non360" -> getCrankAngle_non360
    [] pattern = "BasicDistributor" -> getCrankAngle_BasicDistributor
    [] pattern = "24X" -> getCrankAngle_24X
    [] pattern = "Jeep2000" -> getCrankAngle_Jeep2000
    [] pattern = "Audi135" -> getCrankAngle_Audi135
    [] pattern = "4G63_4" -> getCrankAngle_4G63(4)
    [] pattern = "4G63_6" -> getCrankAngle_4G63(6)
    [] pattern = "Miata9905" -> getCrankAngle_Miata9905
    [] pattern = "MazdaAU" -> getCrankAngle_MazdaAU
    [] pattern = "Subaru67" -> getCrankAngle_Subaru67
    [] pattern \in {"Nissan360_4", "Nissan360_6"} -> getCrankAngle_Nissan360
    [] pattern = "420a" -> getCrankAngle_420a
    [] pattern = "GM7X" -> getCrankAngle_GM7X
    [] pattern = "HondaD17" -> getCrankAngle_HondaD17
    [] pattern = "HondaJ32" -> getCrankAngle_HondaJ32
    [] pattern = "Daihatsu_3" -> getCrankAngle_Daihatsu(3)
    [] pattern = "Daihatsu_4" -> getCrankAngle_Daihatsu(4)
    [] pattern = "Harley" -> getCrankAngle_Harley
    [] pattern \in {"36-2-2-2_4", "36-2-2-2_6", "36-2-1"} -> getCrankAngle_slots
    [] pattern \in {"NGC4", "NGC6", "Renix_4", "Renix_6", "RoverMEMS_2", "RoverMEMS_3"} ->
         getCrankAngle_teeth
    [] pattern = "Vmax" -> getCrankAngle_Vmax
    [] pattern = "SuzukiK6A" -> getCrankAngle_SuzukiK6A
    [] pattern = "FordTFI" -> getCrankAngle_FordTFI

getRPM(slow) ==
  CASE pattern \in {"DualWheel", "Webber"} -> getRPM_DualWheel(triggerTeeth, slow)
    [] pattern = "DRZ400" -> getRPM_DualWheel(drzTeeth, slow)
    [] pattern = "non360" -> getRPM_non360(slow)
    [] pattern = "BasicDistributor" -> getRPM_BasicDistributor(slow)
    [] pattern \in {"24X", "Jeep2000", "Audi135"} -> stdRevolutionTime(FALSE, slow)
    [] pattern \in {"4G63_4", "4G63_6"} -> getRPM_4G63(slow)
    [] pattern = "Miata9905" -> getRPM_Miata9905(slow)
    [] pattern = "MazdaAU" -> getRPM_MazdaAU(slow)
    [] pattern = "Subaru67" -> getRPM_Subaru67(slow)
    [] pattern \in {"Nissan360_4", "Nissan360_6"} -> getRPM_Nissan360
    [] pattern = "420a" -> getRPM_420a(slow)
    [] pattern = "GM7X" -> getRPM_GM7X(slow)
    [] pattern = "HondaD17" -> getRPM_HondaD17(slow)
    [] pattern = "HondaJ32" -> getRPM_HondaJ32
    [] pattern \in {"Daihatsu_3", "Daihatsu_4"} -> getRPM_Daihatsu(slow)
    [] pattern = "Harley" -> getRPM_Harley(slow)
    [] pattern = "36-2-2-2_4" -> getRPM_ThirtySixMinus222(4, slow)
    [] pattern = "36-2-2-2_6" -> getRPM_ThirtySixMinus222(6, slow)
    [] pattern = "36-2-1" -> getRPM_ThirtySixMinus21(slow)
    [] pattern \in {"NGC4", "NGC6"} -> getRPM_NGC(slow)
    [] pattern = "Vmax" -> getRPM_Vmax(slow)
    [] pattern \in {"Renix_4", "Renix_6"} -> stdRevolutionTime(FALSE, slow)
    [] pattern = "RoverMEMS_2" -> getRPM_RoverMEMS(2, slow)
    [] pattern = "RoverMEMS_3" -> getRPM_RoverMEMS(3, slow)
    [] pattern = "SuzukiK6A" -> getRPM_SuzukiK6A(slow)
    [] pattern = "FordTFI" -> getRPM_FordTFI(4, slow)

\* The number checkPerToothTiming compares with the teeth at which ignitions end, and
\* the tooth triggerSetEndTeeth sets for channel 1, whose cylinder is at the top at 0.
currentTooth ==
  LET n == d.toothCurrentCount
      second == profile.limit = 720 /\ d.revolutionOne
  IN  CASE pattern = "DualWheel" /\ second -> triggerTeeth + n
        [] pattern \in {"NGC4", "NGC6", "RoverMEMS_2", "RoverMEMS_3"} /\ second -> 36 + n
        [] pattern = "Renix_4" /\ second -> 4 + n
        [] pattern = "Renix_6" /\ second -> 6 + n
        [] pattern \in {"BasicDistributor", "FordTFI"} /\ n > 2 -> n - 2
        [] OTHER -> n

endTooth(advance) ==
  LET dischargeAngle == profile.limit - advance
  IN  CASE pattern = "DualWheel" -> calcEndTeeth_DualWheel(dischargeAngle)
        [] pattern = "BasicDistributor" -> endTooth_BasicDistributor(dischargeAngle)
        [] pattern = "GM7X" -> endTeeth_GM7X(advance)[1]
        [] pattern = "4G63_4" -> endTeeth_4G63(4)[1]
        [] pattern = "Miata9905" /\ advance > 0 -> endTeeth_Miata9905(advance)[1]
        [] pattern = "Subaru67" -> endTeeth_Subaru67(advance)[1]
        [] pattern \in {"Nissan360_4", "Nissan360_6"} -> calcEndTooth_Nissan360(dischargeAngle)
        [] pattern = "420a" -> endTeeth_420a(advance)[1]
        [] pattern = "36-2-2-2_4" -> endTeeth_ThirtySixMinus222(4, advance)[1]
        [] pattern = "36-2-2-2_6" -> endTeeth_ThirtySixMinus222(6, advance)[1]
        [] pattern \in {"NGC4", "NGC6"} -> endTooth_NGC(dischargeAngle)
        [] pattern = "Renix_4" -> endTooth_Renix(4, dischargeAngle)
        [] pattern = "Renix_6" -> endTooth_Renix(6, dischargeAngle)
        [] pattern = "RoverMEMS_2" -> endTooth_RoverMEMS(2, dischargeAngle)
        [] pattern = "RoverMEMS_3" -> endTooth_RoverMEMS(3, dischargeAngle)
        [] pattern = "SuzukiK6A" -> calcEndTeeth_SuzukiK6A(dischargeAngle)
        [] pattern = "FordTFI" -> endTooth_FordTFI(4, dischargeAngle)
        [] OTHER -> 0

-----------------------------------------------------------------------------

Init ==
  /\ pattern \in Patterns
  /\ triggerFilter \in profile.levels
  /\ at \in profile.probe
  /\ edge = "none"
  /\ speed \in Speeds /\ cranking \in profile.cranking
  /\ resetLeft = {}
  /\ changes = 0
  /\ faults = 0 /\ quiet = 0
  /\ d = triggerSetup(pattern, Blank)

Following(i) == (i % Len(profile.wheel)) + 1

\* The next edge passes.
Turn ==
  /\ edge = "none" /\ resetLeft = {}
  /\ LET w == profile.wheel
         next == Following(at)
         angle == (w[next].angle - w[at].angle) % profile.turn
     IN  /\ at' = next
         /\ edge' = w[next].line
         /\ d' = Aged(angle * speed)
         /\ quiet' = IF next = 1 /\ quiet < QuietMax THEN quiet + 1 ELSE quiet
  /\ UNCHANGED <<pattern, triggerFilter, speed, cranking, resetLeft, changes, faults>>

\* The interrupt of an edge.
Handle ==
  /\ edge # "none"
  /\ edge' = "none"
  /\ \/ edge = "pri" /\ triggerPri(profile.wheel[at], cranking)
     \/ edge = "sec" /\ triggerSec(profile.wheel[at], cranking)
  /\ UNCHANGED wheel

\* The engine changes its speed, or the main loop learns of one.
ChangeSpeed ==
  /\ edge = "none" /\ resetLeft = {}
  /\ at \in profile.probe
  /\ faults + changes < MaxEvents
  /\ changes' = changes + 1
  /\ \/ speed' \in Speeds \ {speed} /\ UNCHANGED cranking
     \/ cranking' \in profile.cranking \ {cranking} /\ UNCHANGED speed
  /\ quiet' = IF profile.hasty THEN 0 ELSE quiet
  /\ UNCHANGED <<pattern, triggerFilter, at, resetLeft, faults, edge, d>>

\* What may go wrong, of what the decoder recovers from.
Fault(kind) ==
  /\ kind \in profile.heals
  /\ resetLeft = {}
  /\ at \in profile.probe
  /\ faults + changes < MaxEvents
  /\ faults' = faults + 1
  /\ quiet' = 0
  /\ UNCHANGED <<pattern, triggerFilter, speed, cranking, changes>>

Lost == Fault("lost") /\ edge # "none" /\ edge' = "none" /\ UNCHANGED <<d, at, resetLeft>>

Noise ==
  /\ Fault("noise")
  /\ edge = "none" /\ edge' = "pri"
  /\ d' = Aged(1)
  /\ UNCHANGED <<at, resetLeft>>

\* The stall branch of the main loop: the stores which of the reset, its own, and
\* triggerSetup again unless a log has taken the interrupts.
Reset(s, which, logging) ==
  LET r == [ResetStores(s, which) EXCEPT !.startRevolutions = 0]
  IN  IF logging THEN r ELSE triggerSetup(pattern, r)

\* The engine stops for long enough, and the main loop resets the decoder.
Stall ==
  /\ Fault("stall")
  /\ edge = "none"
  /\ \E logging \in BOOLEAN : d' = Reset(Aged(Never), DecoderResetStores, logging)
  /\ UNCHANGED <<at, edge, resetLeft>>

\* It turns again just then: its first edge comes after any of the stores.
StallInterrupted ==
  /\ profile.races
  /\ Fault("stall")
  /\ edge = "none"
  /\ at' = Following(at)
  /\ edge' = profile.wheel[at'].line
  /\ \E n \in 0..7 : /\ resetLeft' = (n + 1)..8     \* the eighth is the main loop's
                     /\ d' = ResetStores(Aged(Never), 1..n)

FinishReset ==
  /\ resetLeft # {} /\ edge = "none"
  /\ resetLeft' = {}
  /\ \E logging \in BOOLEAN : d' = Reset(d, resetLeft, logging)
  /\ UNCHANGED <<pattern, triggerFilter, at, edge, speed, cranking, changes, faults, quiet>>

Next == Turn \/ Handle \/ ChangeSpeed \/ Lost \/ Noise
        \/ Stall \/ StallInterrupted \/ FinishReset

Spec == Init /\ [][Next]_vars

-----------------------------------------------------------------------------

\* A hasty decoder may take a wrong position first.
Settled == quiet = QuietMax \/ (faults = 0 /\ ~profile.hasty)

JustSeen == edge = "none" /\ d.sinceTooth = 0 /\ profile.wheel[at].line = "pri"

\* A decoder that claims full sync gives the angle the crank is at, to a degree, just
\* after each tooth: from the first claim when nothing went wrong, and again a few turns
\* after the last lost pulse, pulse of noise, stall or change of speed.
AngleIsTrue ==
  Full /\ Settled /\ JustSeen =>
    LET u == profile.unit
        off == (getCrankAngle * u[1] - profile.wheel[at].angle * u[2])
                 % (profile.cycle * u[1])
    IN  off <= u[1] \/ off >= (profile.cycle - 1) * u[1]

\* The tooth at which a new ignition mode channel 1 is timed to end comes before the
\* spark, by no more than the decoder's few teeth: checkPerToothTiming never finds the
\* spark already past, nor a revolution away.
EndToothPrecedes ==
  Full /\ JustSeen =>
    \A advance \in profile.advances : currentTooth = endTooth(advance) =>
      (profile.limit - advance - getCrankAngle) % profile.limit \in 1..profile.ahead

\* With toothAngleIsCorrect the last two teeth are triggerToothAngle apart, to four
\* degrees: what timeToAngleIntervalTooth and the cranking speed take for granted.
ToothAngleIsTrue ==
  Full /\ quiet = QuietMax /\ JustSeen /\ changes = 0 /\ profile.evenly
       /\ d.toothAngleIsCorrect /\ d.minusOne < Never =>
    LET u == profile.unit
        off == d.minusOne * u[2] - d.triggerToothAngle * u[1] * speed
    IN  off \in (-4 * u[1] * speed)..(4 * u[1] * speed)

\* The time getRPM takes for a revolution, by teeth or by turns, is the wheel's, to a
\* thirtieth: never half of it, twice it, or one with a gap in it.
SpeedIsTrue ==
  quiet = QuietMax /\ JustSeen =>
    \A slow \in {FALSE, profile.evenly} :
      LET t == getRPM(slow) * profile.unit[2]
      IN  t # 0 => \E r, s \in Speeds : t \in (348 * profile.unit[1] * r)..(372 * profile.unit[1] * s)

\* What the decoder tells of time between its teeth is true.
IntervalsAreTrue == ToothAngleIsTrue /\ SpeedIsTrue

\* A few turns after the start, or after the last fault, the decoder is in sync: of the
\* patterns modelled only the Mazda AU's never is.
SyncReturns == quiet = QuietMax => (Full <=> profile.syncs)

=============================================================================
