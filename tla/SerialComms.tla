------------------------------ MODULE SerialComms ------------------------------
(***************************************************************************)
(* serialReceive (comms.cpp): framed commands with a length and a          *)
(* checksum, legacy commands until a framed one has been carried out, and  *)
(* the time that a reception may take.                                     *)
(***************************************************************************)
EXTENDS LegacyComms

\* What every call ends with: when it is too late the host gets a code, what
\* waits is flushed, and what is still to be sent is forgotten.
settled(s, late, caller) ==
  givenBack(IF late THEN [s EXCEPT !.status = "INACTIVE", !.late = TRUE] ELSE s, caller)

isLegacy(piece) == piece = "F" \/ (piece \in Letters /\ serial.allowLegacy)

readDTR(caller, port) ==
  /\ serial.status = "INACTIVE" /\ waiting(port) /\ Head(rx[port]) = "DTR"
  /\ rx' = taken(port)
  /\ serial' = givenBack([serial EXCEPT !.port = port], caller)
  /\ noReply

\* Any other piece is taken for a length, of which the rest may not come; only
\* "len" is one.
readLength(caller, port) ==
  /\ serial.status = "INACTIVE" /\ waiting(port)
  /\ Head(rx[port]) # "DTR" /\ ~isLegacy(Head(rx[port]))
  /\ \E late \in BOOLEAN :
       /\ rx' = IF late THEN flushed(port) ELSE taken(port)
       /\ serial' = settled([serial EXCEPT !.status = "RECEIVE", !.port = port, !.late = FALSE, !.got = 0,
                               !.want = IF Head(rx[port]) = "len" THEN 1 ELSE 2], late, caller)
  /\ noReply

readPayload(port) ==
  /\ serial.status = "RECEIVE" /\ waiting(port) /\ serial.got < serial.want
  /\ rx' = taken(port)
  /\ serial' = [serial EXCEPT !.got = @ + 1, !.port = port, !.command = Head(rx[port])]
  /\ noReply

\* What a framed command is answered with: values, as far as there is room, a
\* code, the log, or nothing.  A page's values have to fit the buffer, and so do
\* those of the engine; r and w also are for the card, where there is one.
pageAnswers == {"values", "code"}
channelAnswers == {"values", "code", "nothing"}
cardAnswers == {"code", "nothing"}

answersWith(command) ==
  CASE command \in {"C", "d", "f", "F", "I", "k", "Q", "S"} -> {"values"}
    [] command = "p" -> pageAnswers
    [] command = "r" -> channelAnswers
    [] command = "w" -> cardAnswers
    [] command = "A" -> {"nothing"}
    [] command = "T" -> {IF logging THEN "log" ELSE "nothing"}
    [] OTHER -> {"code"}

\* Legacy commands are locked out once a framed one was carried out.
processSerialCommand(answer, upto) ==
  LET locked == [serial EXCEPT !.status = "INACTIVE", !.allowLegacy = FALSE]
  IN CASE answer = "values" -> sentUpTo(locked, "TRANSMIT", upto)
       [] answer = "log" -> sentUpTo(locked, logKind, upto)
       [] OTHER -> locked

answerOf(answer, upto) ==
  CASE answer = "values" -> answers(upto) /\ UNCHANGED loggerVars
    [] answer = "log" -> answers(upto) /\ sendLogParts(upto)
    [] answer = "nothing" -> noReply
    [] OTHER -> /\ answers(Parts)
                /\ IF serial.command \in LoggerStarts \union LoggerStops
                   THEN loggerCommand(serial.command, serialConfig.secondTaken)
                   ELSE UNCHANGED loggerVars

\* The checksum: with the right one in time the command is carried out, which
\* may itself take too long.
readCrc(caller, port) ==
  LET right == Head(rx[port]) = "crc" /\ serial.want = 1 /\ ~serial.late
  IN /\ serial.status = "RECEIVE" /\ waiting(port) /\ serial.got = serial.want
     /\ \E late \in {serial.late, TRUE}, answer \in answersWith(serial.command), upto \in 0..Parts :
          /\ rx' = IF right /\ ~late THEN taken(port) ELSE flushed(port)
          /\ serial' = settled([IF right THEN processSerialCommand(answer, upto)
                                ELSE [serial EXCEPT !.status = "INACTIVE"] EXCEPT !.port = port], late, caller)
          /\ IF right THEN answerOf(answer, upto) ELSE noReply

\* A call that finds nothing to read, of a frame or because something is being
\* sent or the port in use is not the one that has it, finds it too late.
MutantReadNothing(caller, port) ==
  /\ serial.late
  /\ CASE serial.status = "INACTIVE" -> ~waiting(port) [] OTHER -> serial.status \in Transmissions
  /\ rx' = flushed(port)
  /\ serial' = settled([serial EXCEPT !.port = port], TRUE, caller)
  /\ noReply

readNothing(caller, port) ==
  /\ serial.late
  /\ CASE serial.status \in {"INACTIVE", "RECEIVE"} -> ~waiting(port)
       [] OTHER -> serial.status \in Transmissions
  /\ rx' = flushed(port)
  /\ serial' = settled([serial EXCEPT !.port = port], TRUE, caller)
  /\ noReply

serialReceive(caller) ==
  /\ called(caller)
  /\ LET port == portOf(caller)
     IN \/ UNCHANGED chunk /\ \/ readDTR(caller, port)
                              \/ readLength(caller, port)
                              \/ readPayload(port)
                              \/ readCrc(caller, port)
                              \/ readNothing(caller, port)
        \/ /\ \/ serial.status = "COMMAND_LEGACY"
              \/ serial.status = "INACTIVE" /\ waiting(port) /\ isLegacy(Head(rx[port]))
           /\ legacySerialCommand(caller, port)
  /\ UNCHANGED <<serialConfig, secondary, canin>>

\* A trigger between any two of these steps, and the second half of emptying
\* the log.
CommsTrigger(pin) == triggerISR(pin) /\ UNCHANGED commsVars
CommsLogCleared == LogIndexCleared /\ UNCHANGED commsVars

-----------------------------------------------------------------------------
CommsInit(configs) ==
  /\ serialConfig \in configs
  /\ rx = [port \in Ports |-> <<>>]
  /\ serial = [status |-> "INACTIVE", port |-> "Serial", want |-> 1, got |-> 0, command |-> "len",
               late |-> FALSE, allowLegacy |-> TRUE, items |-> 0]
  /\ secondary = secondIdle
  /\ chunk = noChunk
  /\ canin = "nothing yet"
  /\ reply = [sent |-> 0, inOrder |-> TRUE]
  /\ LoggerInit

\* However little room there is and whatever comes in between, what is sent of
\* a reply is its parts in order, none twice and none left out, and all of them
\* once no transmission is in progress and nothing was given up.
SentInOrder ==
  /\ reply.inOrder
  /\ serial.status \in Transmissions => serial.items = reply.sent

\* A frame that has begun ends, though its rest may never come.
ReceiveEnds == serial.status = "RECEIVE" ~> serial.status # "RECEIVE"
=============================================================================
