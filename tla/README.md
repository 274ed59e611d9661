# Formal verification of the Speeduino firmware

This directory holds TLA+ models of the engine-management firmware under `src/speeduino`, the TLC configurations
that check them and the proofs that TLAPS checks. `PROJECT.json` lists every run, property, mutant, hazard and
theorem and maps each definition to the source lines it stands for. This file is the guide: what the firmware is made
of, what of it is modelled, what the checks and proofs show, and what is left.

## 1. The system

The firmware is one program on a microcontroller without an operating system. Three kinds of activity share its state:

* the **main loop** (`speeduino.ino`), which reads sensors, computes fuel and ignition and arms the output schedules;
* **interrupts**: tooth edges of the crank and cam wheels (decoder), compare matches of the hardware timers
  (schedules, idle, boost, VVT), the 1 ms timer (housekeeping and over-dwell protection, interruptible on the Mega);
* **commands** of the tuning program and CAN peers, handled inside the main loop when bytes have arrived.

Shared state is protected by `ATOMIC()` blocks where its authors saw the need. Nothing else synchronises.

### Inventory

| Component | State | Operations | Interacts with | What is hard | Correct when |
|---|---|---|---|---|---|
| Schedules (`scheduler.cpp`, `schedule_state_machine.*`) | status, duration, next start, compare register | `setSchedule`, match interrupt, per-tooth correction | main loop arms, interrupts run, callbacks drive the outputs | match flags latched for older register contents, 16-bit wrap, queued events | output follows status; each event starts, and ends when asked |
| Over-dwell protection (`scheduler_ignition_controller.cpp`) | time read once per pass | `applyOverDwellProtection` | 1 ms interrupt against match interrupts | preempted between channels, stale clock | no coil charges beyond the limit |
| Ignition controller | callback table, angle range, number of outputs | layout switch, arming, stop | decoder's sync, limiter's mask, schedules | layout changed while a coil charges | no orphaned coil, every cylinder has one |
| Fuel controller | callback table, layout, pulse widths | the same, staging, priming | fuel calculation reads the layout | layout and dose disagree for one loop | no injector left open, each cylinder fed once |
| Decoders (`decoders.cpp`) | tooth count, gaps, sync, filter | tooth interrupts, RPM, crank angle, reset | everything that reads sync and angle | lost and invented pulses, acceleration, stall | full sync means the right position |
| Engine protection | limits' timers and flags, cut masks, last roll, pending spark | limit checks, greatest speed, full cut, rolling cut | sensors, launch, decoder's revolution count, controllers | delays across passes, stalls and a switched-off protection; count restarts, spark must follow fuel | a flag that waits has waited; a flag cuts from its speed; a cut channel stays cut; spark returns after its fuel |
| Tune storage, updates | tune in RAM and EEPROM, pending flag, deferral, version | update, burn, save all, upgrade, load | protocol, 30 Hz check, VSS buttons, sensors' sanity checks | throttled saves, one flag for all pages, power loss | burned bytes are stored or pending; tune converted once |
| Tuning protocol (`comms.cpp`, `comms_legacy.cpp`) | receive and transmit state, payload, time-out | receive, process, transmit | storage, loggers, calibration | partial frames, time-outs, transfers over several loops, two ports sharing one set of statics | answers in order, a begun frame ends |
| Loggers (`logger.cpp`) | log index, full flag, trigger pins taken | start, entry, send, clear | decoder interrupts, protocol | sent while it fills | entries inside the log |
| Secondary serial, CAN | request flags, one frame buffer | broadcast, diagnostic answer, wideband, auxiliary channels | statuses, second port | length and addressing outlive the message | the right kind of frame goes out |
| Corrections of fuel and ignition | timers of ASE, acceleration, overrun, EGO, knock | one call each per pass | status flags between them, stall | 8-bit counters, stale flags after a stall | waits are waited, recoveries end |
| Crank and angle arithmetic, dwell | conversion factors | conversions | decoders, schedules | fixed point, wrap | inverse within one tick |
| Sensors | MAP samples, filters, flex and speed pulses | ADC reads, pulse interrupts | everything | samples against engine cycles; stall | a reading is of its own samples |
| Idle | PWM target, stepper position and direction | control, step, homing | timer interrupt | a step takes time; algorithm changed by a tune | steps counted are steps made |
| VVT, water injection | two duties, one timer | control, interrupt | coolant, stall | a duty changes inside a period | pulses are those asked for |
| Boost, nitrous, launch, flat shift | pin and timer, stages | periodic control | speed, throttle, buttons, stall | re-enabled by the loop after a stall | status = pin; off when not allowed |
| Fuel pump, fan, air conditioning | pin states, delays | periodic control | seconds counter, RPM, stall | 8-bit clock reset by a connecting tuning program; delays in several branches | status = pin; compressor waits |
| Millisecond timer, tachometer | loop counters, tacho flag | 1 ms interrupt | coil callbacks | 8-bit end compared for equality | pulses end |
| Output test, VSS commands | test flag, pulsed outputs | buttons | schedules' outputs, pages | left by starting the engine | tests end |
| Programmable outputs | rule status, delays | 10 Hz pass | status data, other rules | rules on rules, in order | delays and limits kept |
| Tables, PID, boards, drivers, reset control | | | | | |

`PROJECT.json` lists all of them with the reason where one is not modelled.

## 2. Modules

| Module | Models | Extends |
|---|---|---|
| `ScheduleStateMachine` | the state machine that `schedule_state_machine.h` documents: the abstract promise | - |
| `IgnitionScheduler` | schedules with timer, latched match flags, interrupt latency, tooth corrections, over-dwell pass | - |
| `IgnitionScheduler_proofs` | types, output = status, refinement, bounds of the dwell | `IgnitionScheduler`, TLAPS |
| `ScheduledOutputs` | what both controllers share: schedules that start and end outputs through replaceable callbacks | - |
| `IgnitionController` | spark modes, callback tables, layout switch, arming | `ScheduledOutputs` |
| `IgnitionController_proofs` | no orphaned coil, a coil for every cylinder, unused channels run out, types, refinement | `IgnitionController`, TLAPS |
| `FuelController` | injection layouts, pulse widths, layout switch, arming | `ScheduledOutputs` |
| `FuelController_proofs` | no orphaned injector, cylinders fed and fed once, types, refinement | `FuelController`, TLAPS |
| `MissingToothDecoder` | crank wheel with missing teeth and one cam tooth, with a true position to compare with | - |
| `MissingToothDecoder_proofs` | types; position and angle while the sensors work | `MissingToothDecoder`, TLAPS |
| `DecoderState` | what all decoders share: tooth times, filter, sync, the stores of a reset | - |
| `CountingDecoders` | dual wheel, non-360, DRZ400, Webber, basic distributor, 24X, Jeep 2000, Audi 135 | `DecoderState` |
| `UnevenDecoders` | 4G63, Miata 99-05, Mazda AU, Subaru 6/7, Nissan 360, 420a | `DecoderState` |
| `GapDecoders` | GM 7X, Honda D17 and J32, Daihatsu, Harley, 36-2-2-2, 36-2-1 | `DecoderState` |
| `SpecialDecoders` | NGC, Vmax, Renix, Rover MEMS, Suzuki K6A, Ford TFI | `DecoderState` |
| `Decoders` | each pattern on its own turning wheel, with faults and an interruptible reset | the four above |
| `Decoders_proofs` | angle, times, end teeth and sync of the dual wheel, for any faults | `Decoders`, TLAPS |
| `EngineProtection`, `..._proofs` | hard and rolling limiter | - |
| `TuneUpdates` | what each conversion of `updates.cpp` does to which settings; when a value is right for a version | - |
| `TuneStorage`, `..._proofs` | tune in RAM and EEPROM, burns, the conversions in their order, power loss | `TuneUpdates` |
| `MCTuneStorage` | tunes of eleven versions for TLC | `TuneStorage` |
| `EngineStatus` | what the parts of the loop share: speed, sync, cranking and running, run time, readings | - |
| `Cooling`, `FuelPump`, `BoostControl`, `VariableValves`, `IdleValve`, `ProgrammableOutputs`, `NitrousLaunch`, `OutputTest`, `MillisecondTimer` | one controller each, with pin, timer and delays | `EngineStatus` |
| `ProtectionLimits` | which limits of the engine protection hold, their timers, the greatest speed they leave and what is cut there; launch and flat shift are `NitrousLaunch`'s | `NitrousLaunch` |
| `FuelCorrections`, `IgnitionCorrections` | the corrections that keep time or state; the second extends the first, as they run in one pass | `EngineStatus` |
| `Sensors` | sampling, filters, speed, flex | `EngineStatus` |
| `TriggerLogger` | tooth and composite log, filled by interrupts | - |
| `SerialPorts` | what waits at the two ports, the exchange in hand, replies that go out in parts | `TriggerLogger` |
| `LegacyComms` | the commands of one letter, on either port, letter by letter | `SerialPorts` |
| `SerialComms` | framed commands, checksum, time-out | `LegacyComms` |
| `CanMessages` | the address and bytes of every message on the CAN bus, as functions of a report of the engine's state | - |
| `CanBus` | broadcasts, answers, wideband, auxiliary channels, through one message buffer | `CanMessages`, `EngineStatus` |
| `ControlLoop`, `MCControlLoop` | the main loop around all of these, with interrupts and stall | all of these |
| `ControlLoop_proofs` | what its safety properties rest on, part by part | `ControlLoop`, TLAPS |

How they compose. `IgnitionScheduler` implements `ScheduleStateMachine`, and so do both controllers' schedules
(`ScheduledOutputs`: a schedule that is off, pending, running, or running with another event queued); they use that
behaviour in place of the detailed one, so that time does not multiply with layouts. The refinement mapping is the
same in all three: a schedule's status is its status, and the set `driven` is the channels whose coil charges
(`IgnitionScheduler.StateMachine`) or whose schedule runs (`ScheduledOutputs.Schedules`). The decoder
appears in the controllers and the limiter as an interrupt that may change sync at any moment, a superset of
what the decoder modules do. `ControlLoop` composes everything else that the loop calls.

The alternatives of a `CASE` are meant in order, as the `if ... else if` they translate, and TLC takes the first that
holds; in the modules with proofs they exclude each other.

### IgnitionScheduler

Time is a tick counter; a timer's counter is that clock modulo its period. `SetSchedule` is the main loop's `ATOMIC`
call, `adjustCrankAngle` a decoder's store to the compare register, `ServeMatch` the match interrupt,
`applyOverDwellProtection` and `applyChannelOverDwellProtection` the two parts of the 1 ms pass. `Tick` raises match
flags; it is blocked while a flag has waited longer than `Latency`, which is how a bounded interrupt latency is stated.
A flag stays up whatever is written to the register, as in the hardware. The 1 ms timer has a counter of its own (`msCounter`), which
is what says how long ago it last overflowed when the clock wraps.

### Controllers

One action per step of the main loop (`pc`): match layout to sync, change it in an `ATOMIC` block, work out the cut
mask, arm channels one by one. Between any two of them a schedule's interrupt, a decoder interrupt or a stop command may come.
A callback is the set of lines it raises and drops, so that the layout switch is a change of a table and an orphan
is a line that is up while no end callback of a running schedule would drop it. Fuel adds the pulse widths, computed before the
layout is matched and assigned after it. Rotary layouts are within the constants of the model and covered by the proofs; the runs
check four cylinders, sequential. Staged injection, priming and uneven fire are left out.

`FuelController` makes `injLayout` sequential when half sync is adopted, as the code's last `else` does, though the injectors
then squirt in pairs (scheduler_fuel_controller.cpp:193). Fuel calculation reads it the pass after.

### MissingToothDecoder

`position` is where the wheel really is; the other variables are the decoder's. `Turn` moves the wheel by a slot in one
of `SlotTimes`, which is what acceleration is. Faults are bounded by `MaxFaults`. The model covers the crank-speed wheel with a single cam
tooth, sequential or not.

The cam's filter is modelled as the code has it (decoders.cpp:661-668, 698): the first pulse after a reset has no gap and is dropped, and each
counted pulse makes half its gap the filter of the next. Its pulses come once per cycle, so `sinceCam` and `triggerSecFilterTime` are in cycles, and whether
a pulse passes is decided by the mean slot times the two stretches may have had: after one lost pulse the next may be dropped or not, after two it is.
A running log keeps the filter and the tooth count through a stall (`logging`).

The engine of the run may come to rest at every position, runs at both speeds throughout, and is disturbed at both. `disturbed` and
`quiet` are not the decoder's: they say whether a pulse was lost or invented lately. A position counts only if the gap was looked for there when it should be, because

* after a lost or an invented pulse at 2000 RPM or more the gap may fall in what the decoder takes for the first three quarters of
  the turn, where it is not searched: full sync then stays at a wrong tooth for as long as the speed stays high (decoders.cpp:561; the comment there, "Missing tooth
  will/should never occur in the first 3/4", holds of an aligned decoder only).

Letting the constants loose showed more, stated here as a user should know it:

* Where the first two pulses straddle the gap the first turn is miscounted (positions 3 and 9 of the wheel). A sequential engine claims nothing by it, as the cam pulse
  of that turn is the one that is dropped; with `sequential = FALSE` full sync is claimed at a wrong tooth until the gap has come round. So it is for such an engine
  with a log running: the count that was kept runs past the wheel's end.
* With `triggerFilter = 3` five or six turns are not enough to be aligned after a fault, seven are.
* A wheel of 6-2 can stay misaligned for ever: with a noise pulse and a lost pulse among its first teeth the filter is set to a gap of two slots, keeps out every other
  tooth, and the gap itself passes for a regular interval. 7-2, 8-2 and 8-1 recover.
* With more faults the cam filter can grow by half a cycle with each lost pulse; three faults or four need no more than the five turns.
* After sync was dropped at a gap that came too early, the next pulse passes for the gap and full sync is claimed
  at a tooth that is not the first, until the wheel has been round (decoders.cpp:576).

### Decoders

`d` is a record of the decoder's variables, `wheel` the engine's side. `Turn` moves the wheel to its next edge and ages
the decoder's times, `Handle` runs the handler of the edge's line, `Lost`, `Noise`, `Stall` and `ChangeSpeed` disturb, no
more than `MaxEvents` times. `StallInterrupted` lets an edge in after any of the eight stores that `resetDecoder` and the stall
branch make, and `FinishReset` makes the others. Time is measured in degrees at a speed of one; a pulse before which there was none is `Never` old.
Audi's wheel counts thirds of degrees, Renix's its own teeth (`unit`). `quiet` counts turns of the wheel since the last
fault, up to `QuietMax`. Counters that would grow with the waiting time do not reach their wrap here.

`Profile` says what a pattern is checked for. Where it is narrower than the default (all filter levels, all faults, right from
the first claim) the code does not do better, as letting it loose showed; section 6 lists what was found. In particular
`heals` names the faults a decoder recovers from and `levels` the filter levels with which it does. Webber's handlers are part of the module and not of the run,
because a run with it finds the angle 180 degrees out.

### ControlLoop and its parts

Each module of a part has one action per function the loop or an interrupt calls; pins and timers are Booleans, delays count
down in the steps in which the code counts them, and results of PIDs and tables are any member of a small set. `ControlLoop` gives them the engine: the
speed of the pass (`TakeSpeed`), the stall branch of `loop()` (`Stall`, all its calls in one step), the change to cranking or
running (`TellRotation`), and sensors. Parts share only what `EngineStatus` holds, which no part writes. So a
behaviour of all parts is, seen from one of them, a behaviour in which the others do nothing; and every property is a
conjunction of properties of single parts. Therefore a behaviour follows one part (`fitted`) and the state space is the sum of the parts'
and not their product. The steps of a pass may come in any order and any number, a superset of the code's
schedule of timed loop flags; what needs that schedule is not claimed.

The two ports share one set of statics, as `comms.cpp` and `comms_secondary.cpp` have it, so both are
one part. `TriggerLogger`'s interrupts come between its steps.

What comes in at a port comes in pieces that the code reads together: a letter, `len` and `crc` or `bad` around a frame, and `args`, the
bytes a letter asks for, however many. A command that does not read all its bytes leaves a rest, and the rest passes for whatever the port's host
may send (`cut`); so does every piece that is not what a command expects. Many commands do: `b` and `B` read one byte of two, `W` and `w` all but the value, and
a failed `G` two of nine. A dump made by `G` has a comma that `g` does not skip, so it is stored one byte off. `E` reads its first byte from
the first port and the second from the port in use, and `r` sends to the first port whoever asked. `t`, which waits inside its call for a byte, is in progress in the model
until that byte comes; `U` with a reset line to pull halts the loop and is not modelled, without one it is answered. Live values
stop when the first port's buffer is full and are taken up again by `serialTransmit`. A log is emptied in two steps, and a trigger may come
between them. A composite log that a legacy command began to send is not gone on with.

`CanBus` has one action for each burst of broadcasts and one for each message received, with the call that answers it. A message is its address and its bytes;
the buffer is shared, and what a sender does not set of it
is as the sender before left it. `written` is the message that went out (any one of a burst), `told` what it tells of: the report it was computed from
and the number that was asked for. `CanReports` are the states of the engine that are told, `Received` the requests and sensor messages; in the
proofs both are any set of well-formed ones. The auxiliary channels are part of it: how `initialiseADC` sets each of them up (external, on the board's own pin, asked for over serial or CAN),
when a pass asks for the external ones and what an answer stores.

`ProtectionLimits` has one action for a pass of the protection: the checks of oil pressure, boost, mixture, speed and coolant, `getMaxRpm`, the zone and what it may cut, in the order of the
code; a unit of time, and the tuning program switching the protection off and on. `seen` is history: for how long each check has found what it waits for, and what the last pass went by. Thresholds lie in a few small units of
speed, pressure and temperature, such that each is crossed both ways. Of the channels' cut only its kind is kept; the channels are `EngineProtection`'s.

### EngineProtection

Dice are nondeterministic choices per channel; speed is one of three zones; the revolution counter is the decoder's.
What limit applies (coolant, oil, AFR, boost, launch, flat shift) is abstracted to the zone; `ProtectionLimits` says which zone that is.
The widths of the two masks, `maxIgnOutputs` and `injChannelCount`, are chosen at the start and stay for the behaviour. `rolledOff` (what the last
roll cut) and `fuelledFor` (for how many revolutions a channel has had its fuel, up to two) are history variables. When the wait for
fuel is over `applyPendingIgnitionCuts` copies the fuel mask (engineProtection.cpp:402), so spark comes back to the channels that the dice left on *and* that have
an injection channel. With more ignition than injection channels (sequential spark on four, paired injection on two) the others lose
their spark by the copy, though the dice left them on, until the next roll; `SparkFollowsFuel` says so. `rollingCutLastRev` is never reset although `startRevolutions` goes
back to zero with a loss of sync: the roll is then frozen until the count has caught up (engineProtection.cpp:414), and so is the return of spark.

### TuneStorage

A byte stands for one setting: a value and its format, the version of the data that the value is right for. `savePage` writes the
first `budget` bytes that differ and sets `burnPending` when the budget is used up, `saveAllPages` goes page by page until that
happens. `owed` is a history variable: the bytes some burn command was acknowledged for and that storage still lacks.

`TuneUpdates` has one definition for each conversion, `Version7` to `upgradeV26toV27`: the settings it gives a default (`sets`), those it
computes from others (`from`) or from themselves (`own`), and those it gets wrong (`spoils`: written where this firmware has them
and the tune has not). `Right(v, s, f)` says that a value of format `f` is what version `v` means by setting `s`: no conversion in between
changes it. A conversion that finds its sources right makes a setting right, else `Wrong`. `doUpdates` takes one conversion at a time: in RAM, then
the save (none for versions 24 and 25), then the version byte, with power losses before, between and after. What the firmware finds (`origin`) is any tune: where it has which setting, and its version.
`ConvertedOnce` then says which settings are right when the main loop runs: all that the conversions ahead understand, if no power was lost while an earlier
save was still incomplete (`interrupted`; the pending flag is forgotten then), except those that a conversion which power loss made run twice
computes from themselves (`repeated`). TLC finds each of these exceptions necessary. The run has settings computed from others that a later conversion resets (`aeColdTaperMin`, `tachoMode`), moved bytes (23), moved pages (16), tables outside of the pages (25), a new board and newer data.

Simplifications: the deferral is a flag that may end at any time (in the code `micros()` wraps, so an old deferral comes back for a second every
71 minutes). Settings that are always treated alike are one, and what a conversion only does if some option is on it does always. The calibration tables are converted and stored in
one step. Versions 2 to 6, firmware of 2017, are left out; version 1 is never converted. Limits that only replace impossible values are left out.

## 3. Runs

| Run | Instance | Shows |
|---|---|---|
| `IgnitionScheduler_limited` | one channel, timer of 8 counts, `micros()` of 16, corrections, limiter | types; coil follows status; dwell bounded; every dwell ends |
| `IgnitionScheduler_requested` | the same without corrections and limiter | a coil charges as long as asked; armed events start; implements `ScheduleStateMachine` with its fairness |
| `IgnitionController_sequential` | four cylinders and channels, sequential | no orphaned coil; every cylinder has a coil; unused channels run out; full sync adopted |
| `FuelController_sequential` | the same for fuel | no orphaned injector; every cylinder fed, by one channel; full dose adopted |
| `MissingToothDecoder_faults` | 6-1 wheel, sequential, any rest position, both speeds, three faults of any kind | full sync means aligned, in a disturbed wheel after five turns in which the gap is looked for; sync returns |
| `Decoders_turning` | 33 wheels in their real size, two speeds, one fault or change of speed | full sync means the right angle; tooth and revolution times are true; an end tooth comes just before its spark; sync returns |
| `EngineProtection_rolling` | one to three ignition channels over two for fuel, both cut | cut channels stay cut; spark comes back, and no sooner than two revolutions after its fuel |
| `TuneStorage_burns` | two pages of two settings, tunes of eleven versions, budgets 1 and 2, one power loss | burned bytes are stored or pending; each setting is converted right; saving ends |
| `TuneStorage_alone` | a tune of this version, no power loss | **violated**: another page's save clears the pending flag |
| `ControlLoop_parts` | twenty-two parts, a few tunes each | status, pin and timer agree; pulses and steps are those asked for; waits and limits kept; samples their own; messages in order |
| `ControlLoop_rests` | the parts that have something to end | an engine that stands comes to rest and stays so; a begun frame is over some day |
| `ControlLoop_log` | framed commands and a tooth log | **violated**: an entry behind the end of the log |

**Bounds.** One ignition channel suffices for the scheduler because channels share nothing but the order in which the limiter's pass
visits them, and its latency is a constant; delays and durations include one that truncates to zero ticks, one at the
limit and one close to a whole period. A wheel of six positions has every kind of tooth: first, regular, last before the gap.
The other wheels are the real ones, since most are irregular; the large ones (Audi, Nissan, NGC, Rover) start and are disturbed at the `probe` places, at least one in each
kind of stretch. One event suffices for what a fault leaves behind, as `quiet` then shows the whole recovery; successive faults are
`MissingToothDecoder`'s. Speeds 8 and 9 are a change of an eighth between two teeth.
Two channels for fuel make a roll that tells one channel from another, with an ignition mask as wide, narrower and wider; `MaxRevs = 12` holds several rolls with their pending returns. Two
pages of two settings are the least with which a budget can end inside a page, at its end and before the next one. `MaxFaults`, `MaxRevs`, `MaxResyncs`,
`MaxCommands` and `MaxLosses` only bound how often the surroundings disturb; the system itself is not bounded by them.
In `ControlLoop` a delay is two or three steps, which is enough for a request to be dropped and repeated inside it; a valve's period has three ticks of a timer of seven; clocks wrap at `SeclModulus`,
`MsModulus` and the other moduli as in the code at 256, and times are saturated once nothing compares them any more; the sensors have a value on each side of every threshold; `MaxPrimings` bounds how
often the tuning program connects and a host's `most` how many pieces wait on a line. A tune has each switch that leads to code of its own, one at a time.

**Fairness.** Weak fairness of the clock and of the interrupts (hardware serves a pending flag), of the main loop as a whole (it is a
loop without blocking calls), and of the end of each running output (its match comes). In `EngineProtection` of working out the cut, which every pass does. In `TuneStorage` of the 30 Hz check, of the
clock that ends the deferral, and of booting; the serial line is assumed to be idle at some of those checks. In `ControlLoop` of the calls the loop
makes in every pass or at every timer flag (the stall branch while the speed is zero, air conditioning, fan, nitrous, idle, reception on the first
port), of the clocks (millisecond, time of a step, silence on a line) and of clearing a log, which a stall or a
request does. A tooth, a byte, a button or a fault is never assumed to come. The command `t`, which waits inside the loop, is not sent in `ControlLoop_rests`.
`PendingStarts`, `FullSyncAdopted` and `FullDoseAdopted` name the behaviour that starves them as an alternative instead of ruling it out.

**Deadlock** is checked in all runs but those of `ControlLoop`: a part that is switched off, or whose host has no more to say, may have no step left.

## 4. Findings

Each violation run checks a sentence of the repository against what the code does; the quotes are in `PROJECT.json`.

1. `savePage` clears the only pending flag whatever the other pages still lack (`storage.cpp`).
2. `sendToothLog` pads a log to its end without marking it full; when it has to come back for the rest, the next tooth is logged
   behind the array (`comms.cpp`).

## 5. Proofs

The run shows a property on a small instance, the theorem for all constants that satisfy the module's named assumptions.

| Theorem | Argument |
|---|---|
| `TypeCorrect`, `CoilCorrect` (scheduler) | typing and coil = status are inductive together: each transition changes both |
| `FollowsStateMachine` | each step maps to a step or a stutter of the abstract machine, the charging coils being what it calls driven |
| `DwellIsBounded` | strengthening `LimiterInv`: of a coil that charges, either the limit was not passed when the 1 ms timer last overflowed, or the overflow's flag still waits, or a pass that read the clock after the limit has not come to the channel yet; a pass is short. Corrections and queued events move the match but nothing that `LimiterInv` speaks of. Assumes the limiter active and `WrapIsLate`, that a dwell is over before `micros()` comes round (71 minutes). Without the limiter the bound is that of `DwellRequested`, and with corrections and no limiter there is none |
| `DwellRequested` | strengthening `DwellInv`: while a coil charges, the compare register is ahead of the timer's counter by what is left of some request, or its flag is up for as long as the request is over. Assumes `PeriodIsShort`, no corrections (each moves the match, so that no dwell lasts what was asked) and no limiter |
| `FollowsSchedules` (both controllers) | lemma `ScheduleStep` (one copy in each controller's proofs): starting, ending and arming a schedule are abstract steps, whatever callbacks do; `ScheduleKept`: all other steps of a controller leave the schedules alone |
| `ControllerTypes`, `NoChargeOrphaned` | strengthening `WellFormed`: in every table that `setCallbacks` can install, a start callback's lines are a subset of the end callback's, and the layout changes in sequential mode only. Needed because `NoOrphan` alone says nothing of channels about to start |
| `UnusedRunOut` | strengthening `ArmedInUse`: once the loop has worked out the cut mask, it is of the layout in use, and a layout changes only while no channel runs and before the mask is made. No bound on the channels |
| `EveryCylinderHasCoil` | strengthening `LayoutWhole`: number of outputs and callback table are always those of one and the same layout, so a table lookup suffices. Assumes a channel for each cylinder, without which the property is false (hazard at `init.cpp:671`, below) |
| `FuelTypes`, `NoInjectorOrphaned` | strengthening `Pairs`: what a start callback opens the end callback closes, in every table `setupCallbacks` installs; `Switchable`: only cylinder counts with two layouts change layout |
| `CylindersFed`, `CylindersFedOnce` | strengthening `Feeding`: the channels in use feed every cylinder once, and once pulse widths are assigned they are the channels that have one. Sequential injection and a channel for each cylinder assumed |
| `TypesCorrect` (decoder) | typing alone is inductive; all faults, wheels and speeds |
| `AlignedWhileSensorsWork`, `AngleWhileSensorsWork` | strengthening `TrackInv`, three phases. `Known`: the decoder knows where the last tooth was, its count and turn are the wheel's, and the gaps it keeps lie between those the slots allow. `Fresh`: it has seen nothing and the gap will be told in the first turn. `Starting`: from anywhere, also with a count or a filter that a log kept; the first turn may be miscounted, but full sync waits for a cam pulse that is counted, the first is dropped, and before the second the wheel goes by its gap twice, the second time at least with the last interval known, which ends the phase. Assumes `EvenSpeed`, from one slot to the next less than a third of change, so that the gap looks longer than a slot; `WheelTold`, at least two teeth and either a sequential engine or `GapSeen`, no log and no rest just before the last tooth, without which the property is false (section 2); and no fault but stalls, after which the property is not an invariant at once but after five turns |
| `DualAngleAlways`, `DualSyncAlways`, `DualIntervalsAlways`, `DualEndToothAlways` | the dual wheel of `Decoders`, filter off or at level 1, any number of lost and invented pulses, stalls, interrupted resets and changes of speed. Strengthening `DualInv`, which goes from turn to turn after the last fault (`Past(n, i)`: edge `i` of turn `n` was handled). `FilterShrinks`: a filter left by a fault is at most one turn of the wheel, and as each tooth that passes makes the next from a quarter of its gap, it is at most 216 degrees after the first turn and 90 after the second, so that no tooth is kept out any more; `CamSeen`: by the second cam tooth the filter of the cam line is over and the tooth puts the decoder in sync; `TracksWheel`: from there on, and before the first fault, the count is the wheel's; `Times`: the tooth and revolution times are those of gaps seen whole, in the third and fourth turn. A half-made reset has its own conjunct in `Robust`: a filter stays only while the store that clears it is still to come. Assumes `EvenSpeeds`: no speed is more than eight fifths of another, as a filter made from a slow turn would keep out the teeth of a fast one, and `Never` is an age no live gap has; `Tuned`: `QuietMax` of five turns or more, and `useResync`, without which a lost tooth is not made good while the decoder is in sync (triggerSec_DualWheel). The end teeth need `sequential`: otherwise they are counted for one revolution and the property speaks of the cycle |
| `ProtectionTypes`, `CutIsKept`, `SparkIsLast` | masks stay within the channels in use; the last roll's channels are outside both masks while the status is rolling. For the two revolutions strengthening `FuelSinceRoll`: of a channel with fuel and no spark, the revolution count is ahead of the last roll's by no more than the channel has been fuelled for, until that is two. Any widths |
| `StorageTypes`, `BurnsKept` | lemma `SavedWhole`: a save with writes to spare has stored the page (cardinalities of finite subsets). Strengthening `BootOwesNothing`: nothing is owed before the main loop runs. Then either a burn is pending, or the last save left nothing |
| `UpdatesConvertOnce` | strengthening `FormatsRight`: at each step of the boot every setting is `Ready` for the conversion ahead or `Done` with it, in RAM and, as far as power loss could bring it back, in storage. That a setting can be done with and yet go through the conversion again rests on lemma `EachWellMade`, which runs through the table: what a conversion computes others from it does not change, and no source is computed from itself or spoiled by any. `UnsavedChanges`: of the conversions that save no page, none changes a setting of one. Any number of pages, any tune, any write budget |
| `OutputsAlwaysAgree`, `StepsAlwaysCounted` | strengthening `LoopInv`, one conjunct per part: the parts share only what `EngineStatus` holds, and lemma `Disturbs` says which of them a step can change. For the pump the clock and the priming that runs; for the stepper motor its position is the driver's pulses, counting the one that is out |
| `TimesAlwaysKept` | strengthening `TimesInv`, again one conjunct per part: a wait that is over was as long as its history says (`Since`), a clock that wraps included. The program of rules is any, as is the number of rules. For the engine protection `LimitsInv`: a timer that runs and the time its check has found the limit passed make up the delay, a flag is up only with its timer over, and the last pass's zone was that of the flags it left (`GreatestSpeed`) |
| `PulsesAlwaysKept` | strengthening `VvtInv`: the pulses are regular (`Regular`: where the next match is in the period, and for how long each pin has had its level) once both channels have been ended and then started with their present duties, which `Stages` counts out in interrupts: five at most, since at full duty a pulse may be ended late by a whole turn of the timer. What the main loop does in between is harmless if the duties stay (`KeptStages`). Any period and any timer that is wider. Assumes `SecondChannelOnce`: VVT2 and WMI, which share a channel, are not both enabled |
| `MessagesAlwaysKept` | strengthening `MessagesInv`. `LineInv`: the item that a transmission goes on from is the one behind the last that was sent, so every letter's handler either begins a reply or leaves it alone (`LegacyLine`). `BusInv`: the buffer has its fields and is not extended between two messages, though the heater's message sets it; and lemma `AnswerRow`, for each of the values that `announces` lists, that what an answer's bytes say is the engine's value within the unit of the message |
| `ReadingsAlwaysSampled` | strengthening `ReadingsInv`. `ManifoldInv`: the sum of a cycle's readings lies between their number times the least and times the greatest, so the mean does. `VssInv`: the ring of pulse times is in order, and every gap in it is one between two pulses |

Left to TLC alone:

* all liveness (`EveryDwellEnds`, `PendingStarts`, `FullSyncAdopted`, `FullDoseAdopted`, `SyncReturns` of both decoders' modules, `SparkFollowsFuel`, `SavesEnd`, `Rests`, `ReceiveEnds`)
  and the fairness part of the refinements: fairness and ENABLED are out of the prover's reach;
* `FullMeansAligned` and `AngleCorrectMeansOneSlot` after lost and invented pulses, where they hold five turns later and the invariant would have to follow
  what a wrong count can have become;
* the thirty-two other patterns of `Decoders`: each has a handler and a wheel of its own, and needs an invariant of its own; successive faults are proved for the dual wheel only.

## 6. What the models brought to light

Behaviours of the code met while its models were made to agree with it. They are built into the models, each where it happens, and the properties are stated so as to hold beside them.

Schedules and engine: a match flag raised for the old compare value starts a freshly armed schedule at once (scheduler.cpp:88). The trailing select line of
the rotary FC is toggled by the spark events, so one that is lost swaps the rotors until the next (scheduledIO_ign.cpp:93). Six cylinders sequential on a board with five channels keep the wasted layout and then have their
number of outputs raised (init.cpp:671). The injector duty limit divides by a number of squirts set at start-up (fuel_calcs.cpp:69). `startRevolutions` is four bytes
counted in an interrupt and read without protection (engineProtection.cpp:414); a channel without an injector of its own loses its spark when a wait for fuel ends (402); when `maxIgnOutputs` grows inside the limiter's window the new channels stay cut (433); the AFR timer is started when its conditions
first hold and not stopped when they lapse, only by a closed throttle (109), so a mixture lean for moments, long after the first, raises the flag at once. Its timer and the oil pressure's survive a stall and a protection that is switched off; flags stay up after a stall until a pass with a speed. The coolant's flag
is raised above its speed and the cut made from it on, so at that very speed everything is cut and no flag tells why.

Decoders: the dual wheel and its relatives with filter level 2 or 3 (also Nissan, Miata from 2, Vmax 3, 36-2-2-2 3, NGC 3, TFI 3, basic distributor 3), having lost one pulse, may
take every other or third tooth for the next one for ever, as the filter is set from the longer gap. Jeep 2000, Audi 135, Renix and Suzuki K6A recover with the filter off only. Webber starts its count at 255 and is 180 degrees out. The Mazda AU never syncs, the GM 7X in one start of seven does not.
The Honda D17 counts noise and lost pulses for ever and claims sync at the second pulse; noise before sync keeps the J32 from it. The 4G63 with six cylinders, and the Nissan with four after a lost pulse, do not find
back; the Daihatsu does after a stall. Renix started on the first tooth after its gap is 60 or 90 degrees out. The 420a's end tooth is sixteen degrees after the spark from an advance of 29. Harley, Vmax, Subaru,
Suzuki, Honda and 36-2-1 may claim sync at a wrong place before they have seen a whole turn. An edge inside the reset leaves the DRZ400, GM 7X and Honda D17 with a mixture they keep.

Auxiliaries: VVT duty 100 % is lost when set while the pin is low, and the branch for an inactive valve leaves pins high. With VVT2 and WMI both
enabled, `vvtControl` drives the second channel's duty but settles the first channel only (auxiliaries.cpp:257), so a second duty that was once full stays full; the tuning program
warns against the combination (reference/speeduino.ini:3460) but reaches it if VVT is off while WMI is enabled and on again after. `disableIdle` does not know closed loop with open-loop start (idle.cpp:732);
idle-up energises the valve of a stopped engine. `fanOff` outside of its controller leaves the PWM timer and the status (speeduino.ino:441).
A priming whose end does not fit the pump's 8-bit clock is not ended by it, and a pump that runs after a stall runs on. Boost is enabled again one pass after a stall. A programmable output with a minimum time counts
its delay while off; inverted and with a time limit it never gets active. The nitrous pin of stage 1 stays high while only stage 2 is active. Overlapping half-speed tachometer pulses leave the pin low. Test mode is not left by cranking.

Corrections and sensors: an after-start taper of 255 equals the mark for complete. A change of acceleration while one is active follows the larger. Knock counting starts at one and an analog retard lasts one pass; counters run twice in a pass when the second spark table is switched in. EGO
may wait for a wrapped event count. `battery10` is set back by each stalled pass, so a change of the power source is seen late or falsely. A one-revolution cycle that starts at count 255 is never current.

Protocol: the receive time-out is tested again after a command and can cut its answer (comms.cpp:570). Chunk counters and `valueOffset` are shared by both ports, and with a diverted port an answer may go to the other one. A legacy
command waits in progress without a time-out, and `M` and `g` still write though documented as read-only. The sum of `defer` delays adds up. A failed `G` answers with two bytes and its reader waits for nine. Starting a log
takes the second trigger's pin though the flex sensor has it (logger.cpp:720). On CAN the BMW overheat light compares with 159 °C where its comment says 120 (comms_CAN.cpp:246); a pressure above 255 kPa and a speed from 10240 or 16384 rpm on wrap; the Haltech injector duty is divided by a revolution time that is zero before the first; there is no case for the Haltech trigger, which goes out with the bytes of the message before, an unknown request is answered with what the buffer
held, and an external auxiliary channel with a secondary serial configured and CAN off or not fitted is never asked for.

Tune updates: a tune of version 14 or older loses its calibration tables: the step from 14 stores them in the form and at the addresses of version 26 (updates.cpp:466), and the step from 25 reads 16 bit tables at those of version 25 (46), though "this will roll
through the updates 1 at a time" (8). The step from 16 moves pages 13 and 14 to their places in the EEPROM only, and the save that follows writes the pages loaded before over them (524). Bytes 25 to 74 of `configPage10` are moved by the step from 23, yet
those from 7, 13 and 18 use today's places. The step from 18 doubles `spark2SwitchVariable` where the value is meant (606). A new board's three defaults are in RAM only, while its version is stored as current (869). A power loss after a conversion was saved and before its version was makes the settings it scales be scaled twice.

## 7. Not modelled

* Staged injection, priming pulses, injection angles and the pulse-width arithmetic: products and sums of table values; the hazard of the fall-back has no property for it, nor has that of the stall check's clock (decoders.cpp:331), which the models make one step.
* Three hazards are in the models but no property rules them out, because the code does let them happen: the one dose computed for the layout before the match (speeduino.ino:456; `FullDoseAdopted` says the dose is right in the end), an answer cut off by the time-out after it (comms.cpp:570), and priming that ends late or a pump that stays on (fuelPumpController.cpp:40).
* Soft limit and the delay that turns it into the hard one (`lateSoft` is any answer of that clock), the curves of the limits: which value a table gives is any of a few.
* Poll level, cam speed, 4-1 and Toyota variants of the missing tooth decoder; ST170; Rover without cam; fixed cranking timing; cranking speed.
* Tables, PID, fixed point, dwell correction: pure functions with unit tests over their whole range.
* Contents of pages, channel logs and of what the serial ports send, and values compared with a checksum; SD card, clock and boot loader commands, which belong to boards with vendored drivers.
* Register access, pin tables, SPI and CAN drivers, reset control.

## 8. Plan

In order; each step is a module with its run and mutants.

1. Staged injection and priming in `FuelController`, with its fall-back to half sync.
2. Limits, limiter and controllers in one state space.
3. Missing tooth variants and ST170 on the wheel of `Decoders`.
4. Arithmetic: angles and times, dwell, pulse widths, corrections, as functions checked against a reference over bounded inputs.
5. Theorems: the alignment of `MissingToothDecoder` after a fault, from what a wrong count can be in each turn after it;
   the wheels of `Decoders` one pattern at a time, after the dual wheel those that count as it does (non-360, Webber, basic distributor).

## 9. Running

    tlc -config TuneStorage_burns.cfg MCTuneStorage.tla
    tlc -config IgnitionController_sequential.cfg IgnitionController.tla
    tlc -config ControlLoop_parts.cfg MCControlLoop.tla
    tlapm Decoders_proofs.tla

Mutants are operators next to the definition they replace, named `Mutant...`, with a plausible bug in that code; replacing the definition by one
makes the property named in `PROJECT.json` fail.
