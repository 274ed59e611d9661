------------------------------ MODULE LegacyComms ------------------------------
(***************************************************************************)
(* Commands of one letter (comms_legacy.cpp), and those the second port    *)
(* has of its own (comms_secondary.cpp).  A command that waits for its     *)
(* arguments is in progress, and is called again until they have come.     *)
(***************************************************************************)
EXTENDS SerialPorts

\* The next byte of a port, which may have none.
byteRead(r, port) == IF r[port] = <<>> THEN {r} ELSE {read(r, port)} \union cut(r, port)

\* The arguments have not come yet: nothing has, or what has is not they.
mayWait(r, port) == r[port] # <<>> => Head(r[port]) # "args"

-----------------------------------------------------------------------------
\* Pages are written by chunks, through either port: the header says how many
\* values come and where they go, which is a page and an offset.
Places == 1..2
ChunkSizes == 0..2
noChunk == [pending |-> FALSE, complete |-> 0, size |-> 0, place |-> 1]

\* Other commands set page and offset too, which only a chunk in progress minds.
placed(place) == IF chunk.pending THEN [chunk EXCEPT !.place = place] ELSE chunk

\* What a call leaves: whether the command waits, what waits for it, the chunk.
outcome(inProgress, r, c) == [waits |-> inProgress, rx |-> r, chunk |-> c]

\* Values are read until there are no more or the chunk is complete.
values(c, r, port) ==
  IF c.complete >= c.size THEN {outcome(FALSE, r, noChunk)}
  ELSE IF r[port] = <<>> THEN {outcome(TRUE, r, c)}
  ELSE {outcome(TRUE, read(r, port), [c EXCEPT !.complete = n]) : n \in c.complete + 1..c.size - 1}
       \union {outcome(FALSE, q, noChunk) : q \in {read(r, port)} \union cut(r, port)}

\* The header is followed by the first value at least.
header(r, port) ==
  UNION {LET c == [pending |-> TRUE, complete |-> 0, size |-> size, place |-> place]
         IN IF size = 0 THEN {outcome(FALSE, q, noChunk) : q \in cut(r, port)} ELSE values(c, r, port) :
         size \in ChunkSizes, place \in Places}

-----------------------------------------------------------------------------
\* Commands of either port.  Burning reads one byte of two and does nothing else;
\* on the second port live values end with throwing away what waits.
burnPage(r, port) == {outcome(FALSE, q, chunk) : q \in cut(r, port)}
sendPageCrc(r, port) == {outcome(FALSE, read(r, port), chunk)}
sendPageValues(r, port) == {outcome(FALSE, read(r, port), placed(p)) : p \in Places}
sendChannels(r, port) == {outcome(FALSE, q, chunk) : q \in {read(r, port), [r EXCEPT ![port] = <<>>]}}

withArguments(command, r, port) ==
  CASE command \in {"b", "B"} -> burnPage(r, port)
    [] command = "d" -> sendPageCrc(r, port)
    [] command = "M" -> header(r, port)
    [] command = "p" -> sendPageValues(r, port)
    [] command = "r" -> sendChannels(r, port)

legacySerialHandler(command, r, port) ==
  CASE command \in {"Q", "S"} -> {outcome(FALSE, r, chunk)}
    [] command = "M" /\ chunk.pending -> values(chunk, r, port)
    [] OTHER -> {o \in {outcome(TRUE, r, chunk)} : mayWait(r, port)}
                \union (IF r[port] = <<>> THEN {} ELSE withArguments(command, r, port))

-----------------------------------------------------------------------------
\* Commands of the first port.  s is its state with the command read, r what
\* waits then; the time-out begins again with every call.
becomes(s, caller) == serial' = givenBack(s, caller)
inProgress(s) == [s EXCEPT !.status = "COMMAND_LEGACY"]
finished(s) == [s EXCEPT !.status = "INACTIVE"]

ends(s, r, c, caller) ==
  /\ becomes(finished(s), caller)
  /\ rx' = r /\ chunk' = c
  /\ UNCHANGED loggerVars

replied(s, r, c, caller) == ends(s, r, c, caller) /\ answers(Parts)
obeyed(s, r, c, caller) == ends(s, r, c, caller) /\ UNCHANGED reply

stillWaits(s, r, caller) ==
  /\ becomes(inProgress(s), caller) /\ rx' = r
  /\ UNCHANGED <<reply, chunk, loggerVars>>

\* Q and S through the port in use, b, B and M always through the first.
handled(s, r, caller, port) ==
  \E o \in legacySerialHandler(s.command, r, port) :
    /\ becomes(IF o.waits THEN inProgress(s) ELSE finished(s), caller)
    /\ rx' = o.rx /\ chunk' = o.chunk
    /\ IF s.command \in {"Q", "S"} THEN answers(Parts) ELSE UNCHANGED reply
    /\ UNCHANGED loggerVars

\* Live values stop where a full buffer is looked at, which is on the first
\* port, and at their end throw away what waits.
sendValues(s, r, caller, to) ==
  \E upto \in 1..Parts :
    /\ to # "Serial" => upto = Parts
    /\ becomes(sentUpTo(s, "TRANSMIT_LEGACY", upto), caller)
    /\ rx' = IF upto = Parts THEN [r EXCEPT ![to] = <<>>] ELSE r
    /\ answers(upto)
    /\ UNCHANGED <<chunk, loggerVars>>

\* A start is acknowledged, a stop is not.
switchLogger(s, r, caller) ==
  /\ becomes(finished(s), caller) /\ rx' = r /\ UNCHANGED chunk
  /\ loggerCommand(s.command, serialConfig.secondTaken)
  /\ IF s.command \in LoggerStarts THEN answers(Parts) ELSE UNCHANGED reply

\* A log of teeth goes out whole, zeros where it is not full.
sendToothLog_legacy(s, r, caller) ==
  /\ becomes(finished(s), caller) /\ rx' = r
  /\ answers(Parts)
  /\ logger' = IF logger.full THEN emptied(logger) ELSE logger
  /\ UNCHANGED <<chunk, handlers>>

\* Of the composite log what there is no room for is dropped, and it stays full.
sendCompositeLog_legacy(s, r, caller) ==
  \E upto \in 0..Parts :
    /\ ~logger.full => upto = Parts
    /\ becomes([finished(s) EXCEPT !.items = upto % Parts], caller) /\ rx' = r
    /\ answers(upto)
    /\ logger' = IF logger.full /\ upto = Parts THEN emptied(logger) ELSE logger
    /\ UNCHANGED <<chunk, handlers>>

sendLog(s, r, caller) ==
  IF logger.tooth THEN sendToothLog_legacy(s, r, caller)
  ELSE IF logging THEN sendCompositeLog_legacy(s, r, caller)
  ELSE obeyed(s, r, chunk, caller)

\* t waits for its first byte, inside the call, and throws all that waits away.
ignoreCalibration(s, r, caller) ==
  IF r[s.port] = <<>> THEN stillWaits(s, r, caller)
  ELSE obeyed(s, [r EXCEPT ![s.port] = <<>>], chunk, caller)

\* w is ignored but for its header, and never waits for it.
setHeader(s, r, caller) ==
  \/ mayWait(r, s.port) /\ obeyed(s, r, chunk, caller)
  \/ /\ r[s.port] # <<>>
     /\ \E q \in cut(r, s.port), place \in Places, size \in ChunkSizes :
          obeyed(s, q, IF chunk.pending THEN [chunk EXCEPT !.place = place, !.size = size] ELSE chunk, caller)

-----------------------------------------------------------------------------
\* With arguments, or what passes for them.  E reads its first byte from the
\* first port and its second from the one in use.
handleButton(s, r, caller) ==
  \E q \in IF s.port = "Serial" THEN {read(r, "Serial")}
          ELSE UNION {byteRead(t, s.port) : t \in byteRead(r, "Serial")} :
    obeyed(s, q, chunk, caller)

\* A dump of the wrong size is refused, and what comes is taken for another;
\* one of the right size is read for as long as bytes come in time.
receiveStorage(s, r, caller) ==
  \E q \in {read(r, s.port)} \union cut(r, s.port) :
    \/ obeyed(s, q, chunk, caller)
    \/ becomes(inProgress(s), caller) /\ rx' = q /\ answers(Parts) /\ UNCHANGED <<chunk, loggerVars>>

setPage(s, r, caller) == \E p \in Places : obeyed(s, read(r, s.port), placed(p), caller)

sendPageFrom(s, r, caller) == \E p \in Places : replied(s, read(r, s.port), placed(p), caller)

\* Channels are sent to the first port, wherever they were asked for.
sendChannelsOf(s, r, caller) ==
  \/ sendValues(finished(s), read(r, s.port), caller, "Serial")
  \/ obeyed(s, read(r, s.port), chunk, caller)

\* The value that comes with its offset is not written, and not read either.
setOffset(s, r, caller) == \E q \in cut(r, s.port), p \in Places : obeyed(s, q, placed(p), caller)

Waiting == {"a", "d", "E", "g", "P", "p", "r", "T", "W", "16u2"}

carriedOut(s, r, caller) ==
  CASE s.command \in {"a", "d"} -> replied(s, read(r, s.port), chunk, caller)
    [] s.command = "E" -> handleButton(s, r, caller)
    [] s.command = "g" -> receiveStorage(s, r, caller)
    [] s.command = "P" -> setPage(s, r, caller)
    [] s.command = "p" -> sendPageFrom(s, r, caller)
    [] s.command = "r" -> sendChannelsOf(s, r, caller)
    [] s.command = "T" -> sendLog(s, read(r, s.port), caller)
    [] s.command = "W" -> setOffset(s, r, caller)
    [] s.command = "16u2" -> obeyed(s, read(r, s.port), chunk, caller)

\* Letters there is no case for are ignored.  With reset control U halts the
\* loop for good; without, it says that there is none.
legacyCommand(s, r, caller) ==
  CASE s.command = "A" -> sendValues(s, r, caller, s.port)
    [] s.command \in {"b", "B", "M"} -> handled(s, r, caller, "Serial")
    [] s.command \in {"Q", "S"} -> handled(s, r, caller, s.port)
    [] s.command \in {"C", "c", "F", "G", "L", "m", "N", "U", "V", "Z", "?"} -> replied(s, r, chunk, caller)
    [] s.command \in LoggerStarts \union LoggerStops -> switchLogger(s, r, caller)
    [] s.command = "t" -> ignoreCalibration(s, r, caller)
    [] s.command = "w" -> setHeader(s, r, caller)
    [] s.command = "z" -> sendToothLog_legacy(s, r, caller)
    [] s.command \in Waiting -> (mayWait(r, s.port) /\ stillWaits(s, r, caller))
                               \/ (r[s.port] # <<>> /\ carriedOut(s, r, caller))
    [] OTHER -> obeyed(s, r, chunk, caller)

legacySerialCommand(caller, port) ==
  LET begun == [serial EXCEPT !.port = port, !.late = FALSE]
  IN IF serial.status = "INACTIVE"
     THEN legacyCommand([begun EXCEPT !.command = Head(rx[port])], taken(port), caller)
     ELSE legacyCommand(begun, rx, caller)

-----------------------------------------------------------------------------
\* The second port with commands of its own.
secondIdle == [status |-> "INACTIVE", command |-> "A"]

\* Nine bytes are waited for and two read, and eight more after a good answer:
\* the last may not have come yet, and nothing is read in its place.
processSecondaryCanReply(r) ==
  \/ rx' \in cut(r, "secondary") /\ UNCHANGED canin
  \/ rx' = read(r, "secondary") /\ (UNCHANGED canin \/ canin' = "answer")
  \/ rx' \in cut(r, "secondary") /\ canin' \in {"answer", "nothing"}

\* A and n send live values, and then throw away what waits; s is answered, and
\* k, Z and letters there is no case for are not.
secondaryCommand(command, r) ==
  LET inProgress2 == [status |-> "COMMAND_LEGACY", command |-> command]
  IN CASE command \in {"A", "n"} ->
            /\ secondary' = secondIdle /\ rx' = [r EXCEPT !["secondary"] = <<>>]
            /\ UNCHANGED <<chunk, canin>>
       [] command = "G" ->
            /\ \/ /\ mayWait(r, "secondary")
                  /\ secondary' = inProgress2 /\ rx' = r /\ UNCHANGED canin
               \/ /\ r["secondary"] # <<>>
                  /\ secondary' = secondIdle /\ processSecondaryCanReply(r)
            /\ UNCHANGED chunk
       [] command \in {"b", "B", "d", "M", "p", "Q", "r", "S"} ->
            /\ \E o \in legacySerialHandler(command, r, "secondary") :
                 /\ secondary' = IF o.waits THEN inProgress2 ELSE secondIdle
                 /\ rx' = o.rx /\ chunk' = o.chunk
            /\ UNCHANGED canin
       [] OTHER -> secondary' = secondIdle /\ rx' = r /\ UNCHANGED <<chunk, canin>>

secondserial_Command ==
  /\ serialConfig.protocol = "GENERIC" /\ waiting("secondary") /\ ~logger.clearing
  /\ IF secondary.status = "INACTIVE" THEN secondaryCommand(Head(rx["secondary"]), taken("secondary"))
     ELSE secondaryCommand(secondary.command, rx)
  /\ UNCHANGED <<serialConfig, serial, reply, loggerVars>>
=============================================================================
