-------------------------- MODULE ScheduledOutputs --------------------------
(***************************************************************************)
(* The schedules of one controller together with the physical outputs they *)
(* drive.  A schedule carries a start and an end callback; a callback sets *)
(* one or more outputs, so that two schedules may drive the same output.   *)
(* When a compare match happens is IgnitionScheduler's concern: here any   *)
(* armed or running schedule may move on at any moment.                    *)
(***************************************************************************)
EXTENDS Naturals

CONSTANTS
  NumChannels,  \* schedules the board provides
  Outputs       \* coils or injectors

ASSUME ChannelsAssumption == NumChannels \in Nat \ {0}

Channels == 1..NumChannels

VARIABLES
  status,    \* Schedule::_status
  callback,  \* Schedule::_pStartCallback and _pEndCallback
  level      \* is the output on?

outputVars == <<status, callback, level>>

\* A callback pair: the start callback turns begin on, the end callback turns
\* drop off and raise on.
Callback == [begin : SUBSET Outputs, drop : SUBSET Outputs, raise : SUBSET Outputs]

\* The usual pair: the end undoes the start.
Drive(outs) == [begin |-> outs, drop |-> outs, raise |-> {}]

nullCallback == Drive({})

OutputsTypeOK ==
  /\ status \in [Channels -> {"OFF", "PENDING", "RUNNING", "RUNNING_WITHNEXT"}]
  /\ callback \in [Channels -> Callback]
  /\ level \in [Outputs -> BOOLEAN]

isRunning(c) == status[c] \in {"RUNNING", "RUNNING_WITHNEXT"}

AnyRunning == \E c \in Channels : isRunning(c)

\* The callbacks of the channels in table, the others left as they are.
WithCallbacks(table) ==
  [c \in Channels |-> IF c \in DOMAIN table THEN table[c] ELSE callback[c]]

-----------------------------------------------------------------------------
\* The start callback runs.
StartOutput(c) ==
  /\ status[c] = "PENDING"
  /\ status' = [status EXCEPT ![c] = "RUNNING"]
  /\ level' = [o \in Outputs |-> level[o] \/ o \in callback[c].begin]
  /\ UNCHANGED callback

\* The end callback runs: at the compare match, or early by the limiter.
EndOutput(c) ==
  /\ isRunning(c)
  /\ status' = [status EXCEPT
                  ![c] = IF @ = "RUNNING_WITHNEXT" THEN "PENDING" ELSE "OFF"]
  /\ level' = [o \in Outputs |->
                 \/ o \in callback[c].raise
                 \/ level[o] /\ o \notin callback[c].drop]
  /\ UNCHANGED callback

moveToNextState(c) == StartOutput(c) \/ EndOutput(c)

\* setSchedule with a delay and a duration its guard lets through.
setSchedule(c, allowQueued) ==
  /\ isRunning(c) => allowQueued
  /\ status' = [status EXCEPT
                  ![c] = IF isRunning(c) THEN "RUNNING_WITHNEXT" ELSE "PENDING"]
  /\ UNCHANGED <<callback, level>>

\* stopAllCoilsCharging and closeAllInjectors touch the outputs only.
stopAll ==
  /\ level' = [o \in Outputs |-> FALSE]
  /\ UNCHANGED <<status, callback>>

\* The state initialise...Schedules leaves, with the callbacks of table.
OutputsInit(table) ==
  /\ status = [c \in Channels |-> "OFF"]
  /\ callback = [c \in Channels |->
                   IF c \in DOMAIN table THEN table[c] ELSE nullCallback]
  /\ level = [o \in Outputs |-> FALSE]

\* Outputs that only a schedule's end turns off again.
Driven(c) == callback[c].begin

\* An output that is on is one a running schedule is going to end: nothing is
\* left on that no interrupt will ever turn off.
NoOrphan ==
  \A o \in Outputs :
    level[o] => \/ \E c \in Channels : isRunning(c) /\ o \in callback[c].drop
                \/ \E c \in Channels : o \in callback[c].raise

\* What the controllers see of a schedule is the state machine that the timers
\* implement too (IgnitionScheduler): an output counts as driven while its
\* schedule runs.
Schedules == INSTANCE ScheduleStateMachine
               WITH driven <- {c \in Channels : isRunning(c)}
=============================================================================
