----------------------------- MODULE VariableValves -----------------------------
(***************************************************************************)
(* auxiliaries.cpp: the duties of the two cam phasing solenoids (VVT) and  *)
(* of the water-methanol pump (WMI), which takes the second channel, and   *)
(* the one timer interrupt that makes the pulses of both.                  *)
(*                                                                         *)
(* Time is counted in ticks of that timer; a period has vvtMaxCount of     *)
(* them, and a duty is the number of ticks its pin is high.  The timer's   *)
(* counter wraps after VvtModulus ticks: a match programmed in the past    *)
(* comes a whole turn late.                                                *)
(***************************************************************************)
EXTENDS EngineStatus

CONSTANTS
  vvtMaxCount,  \* vvt_pwm_max_count: the ticks of a period
  VvtModulus    \* of the timer's counter, and of the unsigned differences

ASSUME VvtAssumption ==
  /\ vvtMaxCount \in Nat /\ VvtModulus \in Nat
  /\ 2 <= vvtMaxCount /\ vvtMaxCount < VvtModulus

VARIABLES
  vvtConfig,  \* configPage4, 6 and 10: the fields below
  vvt,        \* duties and flags the main loop works with
  pulse,      \* what the interrupt works with: values, states, the pins
  held        \* history: for how long each pin has had its level, the width
              \* of its last pulse, and since when the duties are unchanged

vvtVars == <<vvtConfig, vvt, pulse, held>>

Settled == 5         \* interrupts since the duties changed
Duty == 0..vvtMaxCount
Outs == 1..2
vvtMinClt == 2
vvtWarmUp == 2       \* calls until a cold engine's cams may move
vvtCLMinAng == 0
vvtCLMaxAng == 2
vvtCLholdDuty == 1
wmiRPM == 3

VvtConfigs ==
  [vvtEnabled : BOOLEAN, vvt2Enabled : BOOLEAN, wmiEnabled : BOOLEAN,
   vvtMode : {"OPEN_LOOP", "ONOFF", "CLOSED_LOOP"}, vvtCLUseHold : BOOLEAN,
   table : SUBSET Duty]  \* the duties the tables hold

-----------------------------------------------------------------------------
(* The interrupt.                                                          *)

\* The next match is n ticks away; none is nearer than a tick.
setCompare(p, n) ==
  LET d == n % VvtModulus IN [p EXCEPT !.compare = IF d = 0 THEN VvtModulus ELSE d]

noPulse(p, i) == ~p.state[i] \/ p.max[i]

switchOn(p) ==
  LET rise == {i \in Outs : p.value[i] > 0 /\ ~p.max[i]}
  IN [p EXCEPT !.pin = [i \in Outs |-> @[i] \/ i \in rise],
               !.state = [i \in Outs |-> @[i] \/ i \in rise]]

\* Which pin falls first: 0 the first, 1 the second, 2 both together.
startPeriod(p) ==
  LET v == p.value
      latched == [p EXCEPT !.cur = v]
  IN CASE p.state[1] /\ (v[1] <= v[2] \/ ~p.state[2]) ->
            [setCompare(latched, v[1]) EXCEPT !.next = IF v[1] = v[2] THEN 2 ELSE 0]
       [] p.state[2] /\ ~(p.state[1] /\ v[1] <= v[2]) ->
            [setCompare(latched, v[2]) EXCEPT !.next = 1]
       [] OTHER -> setCompare(p, vvtMaxCount)

\* At full duty the pin is left alone.
switchOff(p, i) ==
  IF p.value[i] < vvtMaxCount
  THEN [p EXCEPT !.pin[i] = FALSE, !.state[i] = FALSE, !.max[i] = FALSE]
  ELSE [p EXCEPT !.max[i] = TRUE]

\* One pin falls: the other is next, or else both at the period's end.
endOne(p, i) ==
  LET q == switchOff(p, i)
      j == 3 - i
  IN IF q.state[j]
     THEN [setCompare(q, q.cur[j] - q.cur[i]) EXCEPT !.next = j - 1]
     ELSE [setCompare(q, vvtMaxCount - q.cur[i]) EXCEPT !.next = 2]

\* The second channel's match overwrites the first's.
endBoth(p) ==
  LET a == switchOff(p, 1)
      b == IF p.value[1] < vvtMaxCount THEN setCompare(a, vvtMaxCount - a.cur[1]) ELSE a
      c == switchOff(b, 2)
  IN IF p.value[2] < vvtMaxCount THEN setCompare(c, vvtMaxCount - c.cur[2]) ELSE c

vvtInterrupt(p) ==
  LET q == [p EXCEPT !.compare = VvtModulus]
  IN CASE noPulse(p, 1) /\ noPulse(p, 2) -> startPeriod(switchOn(q))
       [] ~(noPulse(p, 1) /\ noPulse(p, 2)) /\ p.next = 0 -> endOne(q, 1)
       [] ~(noPulse(p, 1) /\ noPulse(p, 2)) /\ p.next = 1 -> endOne(q, 2)
       [] OTHER -> endBoth(q)

\* History of the pins, from before to after.
Watch(before, after, interrupt) ==
  held' = [level |-> [i \in Outs |-> IF before.pin[i] # after.pin[i] THEN 1
                                     ELSE IF held.level[i] > vvtMaxCount THEN held.level[i]
                                     ELSE held.level[i] + 1],
           settled |-> IF interrupt /\ held.settled < Settled THEN held.settled + 1
                       ELSE held.settled]

VvtTick ==
  /\ vvt.timer
  /\ pulse' = IF pulse.compare > 1 THEN [pulse EXCEPT !.compare = @ - 1]
              ELSE vvtInterrupt(pulse)
  /\ Watch(pulse, pulse', pulse.compare = 1)
  /\ UNCHANGED <<vvtConfig, vvt>>

-----------------------------------------------------------------------------
(* The main loop's side.                                                   *)

off(p, i) == [p EXCEPT !.pin[i] = FALSE, !.state[i] = FALSE, !.max[i] = FALSE]
on(p, i) == [p EXCEPT !.pin[i] = TRUE, !.state[i] = TRUE, !.max[i] = TRUE]
notFull(p, i) == IF p.value[i] < vvtMaxCount THEN [p EXCEPT !.max[i] = FALSE] ELSE p

\* The timer is enabled: when it was off the next match is now or a turn away.
Enabled(p) ==
  IF vvt.timer THEN {p} ELSE {[p EXCEPT !.compare = c] : c \in {1, VvtModulus}}

Updated(v, p) ==
  /\ vvt' = v
  /\ pulse' = p
  /\ held' = [held EXCEPT
       !.settled = IF p.value = pulse.value /\ v.timer = vvt.timer THEN @ ELSE 0]
  /\ UNCHANGED vvtConfig

\* What channel i's duty may become: from its table, or in closed loop from
\* the cam angle, where a computation that is not due leaves it unchanged.
NewDuty(i) ==
  CASE vvtConfig.vvtMode = "OPEN_LOOP" -> vvtConfig.table
    [] vvtConfig.vvtMode = "ONOFF" -> {0, vvtMaxCount}
    [] vvtConfig.vvtMode = "CLOSED_LOOP" ->
         IF reading.angle <= vvtCLMinAng \/ reading.angle > vvtCLMaxAng THEN {0}
         ELSE IF vvtConfig.vvtCLUseHold /\ reading.angle = 1 THEN {vvtCLholdDuty}
         ELSE Duty

vvtActive ==
  vvtConfig.vvtEnabled /\ reading.coolant >= vvtMinClt /\ rotationStatus = "Running"

\* The state of both channels after new duties, the second one WMI's or VVT's.
vvtDrive(v, p) ==
  CASE vvtConfig.wmiEnabled /\ v.duty[1] = 0 -> Updated(v, off(p, 1))
    [] vvtConfig.wmiEnabled /\ v.duty[1] = vvtMaxCount -> Updated(v, on(p, 1))
    [] vvtConfig.wmiEnabled /\ v.duty[1] \in 1..vvtMaxCount - 1 ->
         \E q \in Enabled(notFull(p, 1)) : Updated([v EXCEPT !.timer = TRUE], q)
    [] ~vvtConfig.wmiEnabled /\ v.duty = [i \in Outs |-> 0] ->
         Updated([v EXCEPT !.timer = FALSE], off(off(p, 1), 2))
    [] ~vvtConfig.wmiEnabled /\ v.duty = [i \in Outs |-> vvtMaxCount] ->
         Updated([v EXCEPT !.timer = FALSE], on(on(p, 1), 2))
    [] OTHER -> \E q \in Enabled(notFull(notFull(p, 1), 2)) :
                  Updated([v EXCEPT !.timer = TRUE], q)

\* Cold or not running: duties and states are cleared, the pins are not.
vvtInactive ==
  LET clear(p, i) == [p EXCEPT !.value[i] = 0, !.state[i] = FALSE, !.max[i] = FALSE]
      v == [vvt EXCEPT !.timeHold = FALSE, !.duty[1] = 0]
  IN IF vvtConfig.wmiEnabled THEN Updated(v, clear(pulse, 1))
     ELSE Updated([v EXCEPT !.duty[2] = 0, !.timer = FALSE], clear(clear(pulse, 1), 2))

vvtControl ==
  IF ~vvtActive THEN vvtInactive
  ELSE LET warm == IF vvt.timeHold THEN vvt.warm ELSE vvtWarmUp
           v == [vvt EXCEPT !.timeHold = TRUE, !.warm = IF warm > 0 THEN warm - 1 ELSE 0,
                            !.hot = @ \/ warm = 0]
       IN IF ~v.hot THEN Updated(v, pulse)
          ELSE \E d1 \in NewDuty(1), d2 \in IF vvtConfig.vvt2Enabled THEN NewDuty(2)
                                              ELSE {vvt.duty[2]} :
                 LET d == <<d1, d2>>
                     value == IF vvtConfig.vvt2Enabled THEN d ELSE <<d1, pulse.value[2]>>
                 IN vvtDrive([v EXCEPT !.duty = d], [pulse EXCEPT !.value = value])

\* The pump's duty is any once tank, throttle, speed and temperature allow it.
WmiDuties ==
  IF reading.tps = 1 /\ reading.request = 1 /\ rpm >= wmiRPM THEN Duty ELSE {0}

wmiControl ==
  /\ vvtConfig.wmiEnabled /\ ~vvtConfig.vvt2Enabled
  /\ \E pw \in WmiDuties :
       LET p == [pulse EXCEPT !.value[2] = pw]
           v == [vvt EXCEPT !.wmiOn = pw > 0]
           still == [v EXCEPT !.timer = @ /\ vvtConfig.vvtEnabled]
       IN CASE pw = 0 -> Updated(still, off(p, 2))
            [] pw = vvtMaxCount -> Updated(still, on(p, 2))
            [] OTHER -> \E q \in Enabled([p EXCEPT !.max[2] = FALSE]) :
                          Updated([v EXCEPT !.timer = TRUE], q)

\* The engine has stopped: both pins low, the timer off, the states left.
VvtStopped ==
  Updated([vvt EXCEPT !.timer = FALSE], [pulse EXCEPT !.pin = [i \in Outs |-> FALSE]])

-----------------------------------------------------------------------------
initialiseAuxPWM ==
  LET used == vvtConfig.vvtEnabled \/ vvtConfig.wmiEnabled IN
  /\ vvt = [duty |-> <<0, 0>>, timer |-> used, timeHold |-> FALSE, warm |-> 0, wmiOn |-> FALSE,
            hot |-> vvtConfig.vvtEnabled /\ reading.coolant >= vvtMinClt]
  /\ pulse = [value |-> <<0, 0>>, cur |-> <<0, 0>>, state |-> <<FALSE, FALSE>>,
              max |-> <<FALSE, FALSE>>, pin |-> <<FALSE, FALSE>>, next |-> 0,
              compare |-> VvtModulus]

VvtInit(configs) ==
  /\ vvtConfig \in configs
  /\ initialiseAuxPWM
  /\ held = [level |-> <<0, 0>>, settled |-> 0]

\* Once the duties have been left alone for a while, the pin of a channel that
\* is neither off nor always on is high for its duty and low for the rest of
\* the period, though one timer serves both.
PulsesMatchDuties ==
  held.settled = Settled /\ vvt.timer =>
    \A i \in Outs :
      LET d == pulse.value[i] IN
      d \in 1..vvtMaxCount - 1 =>
        held.level[i] <= IF pulse.pin[i] THEN d ELSE vvtMaxCount - d
=============================================================================
