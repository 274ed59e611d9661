----------------------------- MODULE TriggerLogger -----------------------------
(***************************************************************************)
(* The tooth and composite loggers: handlers that take the place of the    *)
(* decoder's on the trigger pins (logger.cpp 704-823), and the entry they  *)
(* add to the log in the interrupt (decoders.cpp 131-288), while the main  *)
(* loop sends the log and starts it again.                                 *)
(***************************************************************************)
EXTENDS Integers

VARIABLES
  logger,    \* toothLogEnabled, compositeTriggerUsed, isToothLog1Full, toothHistoryIndex
  handlers   \* whose handler each trigger pin is attached to

loggerVars == <<logger, handlers>>

LogSize == 3  \* TOOTH_LOG_SIZE, 127 in the code
pinTrigger == 1
pinTrigger2 == 2
pinTrigger3 == 3
TriggerPins == {pinTrigger, pinTrigger2, pinTrigger3}

\* The letters that start a logger, and those that stop one.
LoggerStarts == {"H", "J", "O", "X"}
LoggerStops == {"h", "j", "o", "x"}
modeOf(letter) ==
  CASE letter \in {"H", "h"} -> "tooth" [] letter \in {"J", "j"} -> "composite"
    [] letter \in {"O", "o"} -> "tertiary" [] letter \in {"X", "x"} -> "cams"

\* A speed sensor on the second trigger's pin keeps it from either logger, a
\* flex sensor only from the composite ones.
pinsOf(mode, secondTaken) ==
  LET second(taken) == IF taken THEN {} ELSE {pinTrigger2}
  IN CASE mode = "tooth" -> {pinTrigger} \union second(secondTaken = "VSS")
       [] mode = "composite" -> {pinTrigger} \union second(secondTaken # "no")
       [] mode = "tertiary" -> {pinTrigger, pinTrigger3}
       [] mode = "cams" -> {pinTrigger3} \union second(secondTaken # "no")

compositeOf(mode) == CASE mode = "tooth" -> 0 [] mode = "composite" -> 2
                       [] mode = "tertiary" -> 3 [] mode = "cams" -> 4

-----------------------------------------------------------------------------
\* The log is emptied in two steps, and an interrupt may come in between.
emptied(l) == [l EXCEPT !.full = FALSE, !.clearing = TRUE]

LogIndexCleared ==
  /\ logger.clearing
  /\ logger' = [logger EXCEPT !.index = 0, !.clearing = FALSE, !.attaching = {}]
  /\ handlers' = [p \in TriggerPins |-> IF p \in logger.attaching THEN "logger" ELSE handlers[p]]

startLogger(mode, secondTaken) ==
  /\ logger' = [emptied(logger) EXCEPT !.tooth = (mode = "tooth"), !.composite = compositeOf(mode),
                                       !.attaching = pinsOf(mode, secondTaken)]
  /\ UNCHANGED handlers

\* Only the logger that is named is turned off, and its pins given back.
stopLogger(mode, secondTaken) ==
  /\ logger' = IF mode = "tooth" THEN [logger EXCEPT !.tooth = FALSE]
               ELSE [logger EXCEPT !.composite = 0]
  /\ handlers' = [p \in TriggerPins |->
                    IF p \in pinsOf(mode, secondTaken) THEN "decoder" ELSE handlers[p]]

loggerCommand(letter, secondTaken) ==
  IF letter \in LoggerStarts THEN startLogger(modeOf(letter), secondTaken)
  ELSE stopLogger(modeOf(letter), secondTaken)

-----------------------------------------------------------------------------
\* A full log takes no more; the tooth log takes the crank's teeth only.
logs(l, pin) ==
  /\ ~l.full
  /\ l.tooth \/ l.composite > 0
  /\ l.tooth => pin = pinTrigger

addToothLogEntry(pin) ==
  LET full == logger.index >= LogSize - 1
  IN logger' = IF ~logs(logger, pin) THEN logger
               ELSE [logger EXCEPT !.full = full, !.index = IF full THEN @ ELSE @ + 1,
                                   !.inside = @ /\ logger.index < LogSize]

\* The interrupt of a trigger pin: the tooth log wants an edge the decoder took
\* and found valid, the composite log every edge.
triggerISR(pin) ==
  /\ handlers[pin] = "logger"
  /\ \E validEdge \in BOOLEAN :
       IF logger.tooth /\ ~validEdge THEN UNCHANGED logger
       ELSE addToothLogEntry(pin)
  /\ UNCHANGED handlers

\* With no logger on, a stall gives the pins back to the decoder.
LoggersStopped ==
  /\ handlers' = IF logger.tooth \/ logger.composite > 0 THEN handlers
                 ELSE [p \in TriggerPins |-> "decoder"]
  /\ UNCHANGED logger

LoggerInit ==
  /\ logger = [tooth |-> FALSE, composite |-> 0, full |-> FALSE, index |-> 0, clearing |-> FALSE,
               attaching |-> {}, inside |-> TRUE]
  /\ handlers = [p \in TriggerPins |-> "decoder"]

\* No entry is written behind the end of the log.
LogInside == logger.inside
=============================================================================
