------------------------ MODULE ScheduleStateMachine ------------------------
(***************************************************************************)
(* What a schedule promises its users, as schedule_state_machine.h states  *)
(* it: OFF -> PENDING by a request, PENDING -> RUNNING, and RUNNING -> OFF *)
(* or, when another request was queued meanwhile, RUNNING -> PENDING.  The *)
(* output is driven exactly while the schedule runs, and a request that    *)
(* was accepted is never dropped: it is served by a run of its own.        *)
(* Time, registers and interrupts do not appear here.                      *)
(***************************************************************************)
CONSTANT Channels

VARIABLES
  status,  \* the state of each schedule
  driven   \* the schedules whose output is driven

vars == <<status, driven>>

States == {"OFF", "PENDING", "RUNNING", "RUNNING_WITHNEXT"}

Running(c) == status[c] \in {"RUNNING", "RUNNING_WITHNEXT"}

TypeOK ==
  /\ status \in [Channels -> States]
  /\ driven \subseteq Channels

Init ==
  /\ status = [c \in Channels |-> "OFF"]
  /\ driven = {}

\* A request for an idle or waiting schedule arms it.
Arm(c) ==
  /\ ~Running(c)
  /\ status' = [status EXCEPT ![c] = "PENDING"]
  /\ UNCHANGED driven

\* A request for a running schedule waits behind the run.
Queue(c) ==
  /\ Running(c)
  /\ status' = [status EXCEPT ![c] = "RUNNING_WITHNEXT"]
  /\ UNCHANGED driven

Start(c) ==
  /\ status[c] = "PENDING"
  /\ status' = [status EXCEPT ![c] = "RUNNING"]
  /\ driven' = driven \union {c}

Finish(c) ==
  /\ Running(c)
  /\ status' = [status EXCEPT
                  ![c] = IF @ = "RUNNING_WITHNEXT" THEN "PENDING" ELSE "OFF"]
  /\ driven' = driven \ {c}

Next == \E c \in Channels : Arm(c) \/ Queue(c) \/ Start(c) \/ Finish(c)

\* Whatever is started is finished: no output stays driven for ever.
Spec == Init /\ [][Next]_vars /\ \A c \in Channels : WF_vars(Finish(c))
=============================================================================
