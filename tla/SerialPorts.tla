------------------------------ MODULE SerialPorts ------------------------------
(***************************************************************************)
(* The two serial ports: what waits at each, the state of the exchange in  *)
(* hand, and replies that go out as far as there is room (comms.cpp,       *)
(* comms_legacy.cpp).  Bytes come in pieces that are read together: a      *)
(* letter, "len" and "crc" or "bad" around a framed command, what belongs  *)
(* to a command of one letter, "args", and the byte a computer sends when  *)
(* it connects, "DTR".                                                     *)
(***************************************************************************)
EXTENDS TriggerLogger, Sequences, FiniteSetsExt

VARIABLES
  serialConfig, \* secondarySerialProtocol, and who else uses the second trigger's pin
  rx,           \* what waits at each port
  serial,       \* serialStatusFlag, pPrimarySerial, and the frame or command in hand
  secondary,    \* serialSecondaryStatusFlag and currentSecondaryCommand
  chunk,        \* chunkPending, chunkComplete, chunkSize, and currentPage with valueOffset, of either port
  canin,        \* where the last value of an input channel came from
  reply         \* history: how much of a reply was sent, and whether in order

commsVars == <<serialConfig, rx, serial, secondary, chunk, canin, reply>>

Ports == {"Serial", "secondary"}

\* The letters either port, or a frame, has a case for (16u2 is the grave accent
\* with which that firmware tells of itself), and another.
Letters ==
  {"a", "A", "b", "B", "C", "c", "d", "E", "F", "f", "G", "g", "H", "h", "I", "J", "j", "k", "L", "M",
   "m", "N", "n", "O", "o", "P", "p", "Q", "r", "S", "s", "T", "t", "U", "V", "W", "w", "X", "x", "Z",
   "z", "16u2", "?", "other"}
Pieces == {"len", "crc", "bad", "args", "DTR"} \union Letters

\* Bounds: the pieces that come in at each port, and how many wait there at most.
SerialConfigs ==
  [protocol : {"OFF", "TUNERSTUDIO", "GENERIC"}, secondTaken : {"no", "VSS", "FLEX"},
   sent : [Ports -> SUBSET Pieces], most : Nat \ {0}]

\* Transmissions that may have to be taken up again, in so many parts.
Transmissions == {"TRANSMIT", "TRANSMIT_LEGACY", "TRANSMIT_TOOTH", "TRANSMIT_COMPOSITE"}
Receptions == {"RECEIVE", "COMMAND_LEGACY"}
Parts == LogSize

-----------------------------------------------------------------------------
waiting(port) == rx[port] # <<>>
flushed(port) == [rx EXCEPT ![port] = <<>>]

\* With a piece read, or all of it but a byte, which passes for whatever piece
\* it looks like.
read(r, port) == [r EXCEPT ![port] = Tail(@)]
cut(r, port) == {[r EXCEPT ![port][1] = piece] : piece \in serialConfig.sent[port]}
taken(port) == read(rx, port)

\* A host, or noise, puts a piece on a line.
HostSends(port) ==
  /\ Len(rx[port]) < serialConfig.most
  /\ port = "secondary" => serialConfig.protocol # "OFF"
  /\ \E piece \in serialConfig.sent[port] :
       rx' = [rx EXCEPT ![port] = Append(@, piece)]
  /\ UNCHANGED <<serialConfig, serial, secondary, chunk, canin, reply, loggerVars>>

\* SERIAL_TIMEOUT passes since a reception began.
TimeoutPasses ==
  /\ ~serial.late
  /\ serial' = [serial EXCEPT !.late = TRUE]
  /\ UNCHANGED <<serialConfig, rx, secondary, chunk, canin, reply, loggerVars>>

-----------------------------------------------------------------------------
\* A reply begins, and goes on where it was left.
answers(parts) == reply' = [reply EXCEPT !.sent = parts % Parts]

continues(upto) == reply' = [sent |-> upto % Parts, inOrder |-> reply.inOrder /\ serial.items = reply.sent]

noReply == UNCHANGED <<reply, loggerVars>>

\* As much goes out as there is room for.
sentUpTo(s, kind, upto) ==
  [s EXCEPT !.status = IF upto = Parts THEN "INACTIVE" ELSE kind, !.items = upto % Parts]

\* sendToothLog and sendCompositeLog: a log that is not full is filled up, and
\* emptied when all of it is sent.
sendLogParts(upto) ==
  LET log == IF logger.full THEN logger ELSE [logger EXCEPT !.index = LogSize]
  IN /\ logger' = IF upto = Parts THEN emptied(log) ELSE log
     /\ UNCHANGED handlers

logKind == IF logger.tooth THEN "TRANSMIT_TOOTH" ELSE "TRANSMIT_COMPOSITE"
logging == logger.tooth \/ logger.composite > 0

MutantResumed(s, upto) == [s EXCEPT !.items = (upto + 1) % Parts]

resumed(s, upto) == [s EXCEPT !.items = upto % Parts]

\* The main loop goes on with a transmission first; live values of a legacy
\* command go to the first port, and what waits there is then thrown away.
serialTransmit ==
  /\ ~logger.clearing
  /\ serial.status \in Transmissions
  /\ \E upto \in serial.items..Parts :
       /\ continues(upto)
       /\ serial' = [resumed(serial, upto) EXCEPT !.status = IF upto = Parts THEN "INACTIVE" ELSE @]
       /\ rx' = IF upto = Parts /\ serial.status = "TRANSMIT_LEGACY" THEN flushed("Serial") ELSE rx
       /\ IF serial.status \in {"TRANSMIT_TOOTH", "TRANSMIT_COMPOSITE"} THEN sendLogParts(upto)
          ELSE UNCHANGED loggerVars
  /\ UNCHANGED <<serialConfig, secondary, chunk, canin>>

-----------------------------------------------------------------------------
\* serialReceive is called for the first port, which goes on with the port in
\* use, or for the second, which takes the first one's place until, at the end
\* of a call of its own, nothing is in progress.
called(caller) ==
  /\ ~logger.clearing
  /\ CASE caller = "Serial" -> waiting("Serial") \/ serial.status \in Receptions
       [] OTHER -> serialConfig.protocol = "TUNERSTUDIO" /\ waiting("secondary")

portOf(caller) == IF caller = "secondary" THEN "secondary" ELSE serial.port

\* What is left of a frame or a command that is over is never looked at.
atRest(s) ==
  IF s.status \in Receptions THEN s ELSE [s EXCEPT !.want = 1, !.got = 0, !.command = "len"]

givenBack(s, caller) ==
  atRest(IF caller = "secondary" /\ s.status = "INACTIVE" THEN [s EXCEPT !.port = "Serial"] ELSE s)
=============================================================================
