-------------------------------- MODULE FuelPump --------------------------------
(***************************************************************************)
(* fuelPumpController.cpp: the pump primes for some seconds at power up    *)
(* and runs while the engine turns.  The seconds are counted in a byte,    *)
(* which wraps and which the tuning program sets back to zero.             *)
(***************************************************************************)
EXTENDS EngineStatus

CONSTANTS
  SeclModulus,  \* one more than the last value of secl: 256
  MaxPrimings   \* bound: primings after the first, and resets of secl

ASSUME FuelPumpAssumption ==
  SeclModulus \in Nat \ {0} /\ MaxPrimings \in Nat

VARIABLES
  fpPrime,  \* configPage2.fpPrime: seconds of priming
  secl,     \* currentStatus.secl
  pump,     \* pump_state, and the pin
  primings  \* bound: primings and resets so far

pumpVars == <<fpPrime, secl, pump, primings>>

fuelPumpOn(p) == [p EXCEPT !.isPumpOn = TRUE, !.pin = @ \/ ~p.isPumpOn]
fuelPumpOff(p) == [p EXCEPT !.isPumpOn = FALSE, !.pin = @ /\ ~p.isPumpOn]

startPumpPriming(p) ==
  IF fpPrime # 0
  THEN [fuelPumpOn(p) EXCEPT !.fpPrimeTime = secl, !.isPrimingComplete = FALSE]
  ELSE [p EXCEPT !.fpPrimeTime = 0, !.isPrimingComplete = TRUE]

primingTimeExpired(now) == now - pump.fpPrimeTime >= fpPrime

stopPumpPriming(now, speed) ==
  IF pump.isPrimingComplete \/ ~primingTimeExpired(now) THEN pump
  ELSE LET done == [pump EXCEPT !.isPrimingComplete = TRUE]
       IN IF speed = 0 THEN fuelPumpOff(done) ELSE done

-----------------------------------------------------------------------------
FuelPumpInit(primes) ==
  /\ fpPrime \in primes
  /\ secl = 0
  /\ pump = startPumpPriming([isPumpOn |-> FALSE, pin |-> FALSE,
                              fpPrimeTime |-> 0, isPrimingComplete |-> FALSE])
  /\ primings = 0

\* Once a second, in the timer interrupt.
PumpSecond ==
  /\ secl' = (secl + 1) % SeclModulus
  /\ pump' = stopPumpPriming(secl', rpm)
  /\ UNCHANGED <<fpPrime, primings>>

\* The main loop, with the speed r it has just read.
PumpTurning(r) ==
  /\ pump' = IF r > 0 THEN fuelPumpOn(pump) ELSE pump
  /\ UNCHANGED <<fpPrime, secl, primings>>

PumpStopped ==
  /\ pump' = stopPumpPriming(secl, 0)
  /\ UNCHANGED <<fpPrime, secl, primings>>

\* The battery voltage jumps from that of USB to that of a battery.
onPowerSourceSwitch ==
  /\ rpm = 0
  /\ primings < MaxPrimings
  /\ primings' = primings + 1
  /\ pump' = startPumpPriming(pump)
  /\ UNCHANGED <<fpPrime, secl>>

\* The tuning program connects.
resetSecl ==
  /\ primings < MaxPrimings
  /\ primings' = primings + 1
  /\ secl' = 0
  /\ UNCHANGED <<fpPrime, pump>>

\* The pump runs while the engine turns, whatever the priming does, and its
\* pin does what the state says though writes are left out.
PumpAgrees == pump.pin = pump.isPumpOn /\ (rpm > 0 => pump.isPumpOn)
=============================================================================
