--------------------------------- MODULE CanBus ---------------------------------
(***************************************************************************)
(* The built-in CAN interface (comms_CAN.cpp): broadcasts to dashboards,   *)
(* answers to diagnostic requests, the wideband sensors, and the input     *)
(* channels, with the requests for them that the main loop sends.  One     *)
(* message buffer serves all that is sent: a sender sets what it sets of   *)
(* it, and the rest goes out as another sender left it.                    *)
(***************************************************************************)
EXTENDS EngineStatus, CanMessages, FiniteSetsExt

CONSTANTS
  CanReports,  \* the states of the engine that messages tell of
  Received,    \* the messages the other side sends
  Channels,    \* the numbers of the input channels
  Levels       \* what an analog pin may read

\* A message has an address: the unit's own, that of every unit, those of the
\* wideband sensors, or another's.  Any of them may be an input channel's too.
Addresses == {"own", "everyone", "lambda 1", "lambda 2", "AEM", "another", "a third"}
Messages == [address : Addresses, bytes : [1..8 -> 0..255]]

ASSUME CanAssumption ==
  /\ CanReports # {} /\ \A s \in CanReports : IsReport(s)
  /\ \A m \in Received : m \in Messages
  /\ IsFiniteSet(Channels) /\ Channels \subseteq 0..15 /\ Levels \subseteq 0..1023

VARIABLES
  canConfig, \* CANBroadcastProtocol, canWBO and the settings of the input channels
  outMsg,    \* the buffer: id, extended flag, length and bytes
  written,   \* history: a message written in the last step, or none
  told,      \* history: the request it answers and the state it tells of
  canO2,     \* currentStatus.O2 and O2_2, as wideband sensors set them
  auxIn,     \* currentStatus.canin: the values of the input channels
  aux,       \* BIT_SENSORS_AUX_ENBL and currentStatus.ioError, since power up
  serialAsks \* history: the channels asked for on the second port, in the last step

canVars == <<canConfig, outMsg, written, told, canO2, auxIn, aux, serialAsks>>

\* caninput_sel has the kind of a channel twice: in bits 2 and 3, and in bits 0
\* and 1 for a unit without either interface.  Bit 6 chooses the interface that
\* is asked where there is a second port, bit 7 where there is none.
ChannelSettings ==
  [select : {"none", "external", "analog", "digital"}, selectLocal : {"none", "analog", "digital"},
   bit6 : BOOLEAN, bit7 : BOOLEAN, pinIsUsed : BOOLEAN,
   address : Addresses, twoBytes : BOOLEAN, startByte : 0..7]

CanConfigs ==
  [protocol : {"OFF", "BMW", "VAG", "HALTECH"}, wbo : {"OFF", "RUSEFI", "AEM"},
   secondarySerial : BOOLEAN, intcan : BOOLEAN, available : BOOLEAN,
   littleEndian : BOOLEAN, channels : [Channels -> ChannelSettings]]

\* A message of this number with a row of bytes; behind the row, and in place
\* of an empty one, are the bytes of the message before.
filled(m, id, row) ==
  [m EXCEPT !.id = id, !.len = IF row = <<>> THEN @ ELSE Len(row),
            !.buf = [i \in 1..8 |-> IF i <= Len(row) THEN row[i] ELSE @[i]]]

-----------------------------------------------------------------------------
\* Broadcasts, by frequency.
broadcasts(frequency) ==
  CASE canConfig.protocol = "BMW" /\ frequency = 30 -> <<"DME1", "DME2">>
    [] canConfig.protocol = "BMW" /\ frequency = 10 -> <<"DME4">>
    [] canConfig.protocol = "VAG" /\ frequency = 30 -> <<"RPM", "VAG_VSS">>
    [] canConfig.protocol = "HALTECH" /\ frequency = 50 -> <<"DATA1", "DATA2", "DATA3", "PW">>
    [] canConfig.protocol = "HALTECH" /\ frequency = 15 -> <<"LAMBDA", "TRIGGER", "VSS">>
    [] canConfig.protocol = "HALTECH" /\ frequency = 10 -> <<"DATA4", "DATA5">>
    [] OTHER -> <<>>

\* BMW and VAG messages set the kind of their identifier, Haltech's do not.
marked == IF canConfig.protocol = "HALTECH" THEN outMsg ELSE [outMsg EXCEPT !.extended = FALSE]

\* The i-th message of a pass; one without contents goes out with those of the
\* message before it in the pass.
prepared(ids, i, s) ==
  LET row == DashMessage(ids[i], s)
  IN filled(marked, ids[i], IF row = <<>> /\ i > 1 THEN DashMessage(ids[i - 1], s) ELSE row)

\* All messages of a frequency go out in one pass; written is any of them.
sendCANBroadcast(frequency) ==
  LET ids == broadcasts(frequency)
  IN /\ ids # <<>>
     /\ \E s \in CanReports, i \in DOMAIN ids :
          /\ outMsg' = prepared(ids, Len(ids), s)
          /\ written' = prepared(ids, i, s)
          /\ told' = [asked |-> -1, report |-> s]
     /\ serialAsks' = {}
     /\ UNCHANGED <<canConfig, canO2, auxIn, aux>>

-----------------------------------------------------------------------------
(* What the main loop does with a message it has read.                     *)

\* A request has its mode in the second byte and a number behind it.  One for
\* data, or for a field, is answered whether or not there is an answer; one for
\* the vehicle's number is not.
pidMode(m) == m.bytes[2]
number(m) == m.bytes[3]
answered(m) == m.address \in {"own", "everyone"} /\ pidMode(m) \in {1, 34}

obd_response(b, m, s) ==
  filled([b EXCEPT !.extended = FALSE, !.len = 8], "OBD",
         IF pidMode(m) = 1 THEN obdData(number(m), s) ELSE customData(number(m), m.bytes[4], auxIn, s))

can_Command(b, m, s) == IF answered(m) THEN obd_response(b, m, s) ELSE b

\* A sensor sends its lambda in ten thousandths, and whether it is valid; the
\* mixture is held to what its byte can hold.
mixtureOf(lambda, s, limit) == clipped((lambda * s.stoich) \div 10000, limit)

O2After(m, s) ==
  LET b == m.bytes
  IN CASE canConfig.wbo = "RUSEFI" /\ m.address = "lambda 1" /\ b[2] = 1 ->
            [canO2 EXCEPT ![1] = mixtureOf(256 * b[4] + b[3], s, 250)]
       [] canConfig.wbo = "RUSEFI" /\ m.address = "lambda 2" /\ b[2] = 1 ->
            [canO2 EXCEPT ![2] = mixtureOf(256 * b[4] + b[3], s, 250)]
       [] canConfig.wbo = "AEM" /\ m.address = "AEM" /\ b[7] >= 128 ->
            [canO2 EXCEPT ![1] = mixtureOf(256 * b[1] + b[2], s, 255)]
       [] OTHER -> canO2

\* Whatever was received, the first kind of sensor is told to heat or not.
heaterCommand(b, s) ==
  filled([b EXCEPT !.extended = TRUE], "WBO", <<s.battery10, IF s.running THEN 1 ELSE 0>>)

receiveCANwbo(b, s) ==
  IF canConfig.wbo = "RUSEFI" THEN [heaterCommand(b, s) EXCEPT !.extended = FALSE] ELSE b

\* A message sets every channel that has its address, whatever the channel is
\* read from; two bytes of which the second would lie behind the end set none.
inMessage(c, b) ==
  LET at == c.startByte + 1
  IN IF ~c.twoBytes THEN b[at]
     ELSE IF canConfig.littleEndian THEN b[at] + 256 * b[at + 1] ELSE 256 * b[at] + b[at + 1]

readAuxCanBus(m) ==
  [i \in Channels |->
     LET c == canConfig.channels[i]
     IN IF c.address = m.address /\ ~(c.twoBytes /\ c.startByte = 7) THEN inMessage(c, m.bytes) ELSE auxIn[i]]

\* The answer goes out first, then the command to the heater.
CanReceive ==
  /\ canConfig.intcan
  /\ \E m \in Received, s \in CanReports :
       LET answer == can_Command(outMsg, m, s)
       IN /\ outMsg' = receiveCANwbo(answer, s)
          /\ auxIn' = readAuxCanBus(m)
          /\ canO2' = O2After(m, s)
          /\ \/ /\ answered(m) /\ written' = answer
                /\ told' = [asked |-> IF pidMode(m) = 1 THEN number(m) ELSE -1, report |-> s]
             \/ /\ canConfig.wbo = "RUSEFI" /\ written' = heaterCommand(answer, s)
                /\ told' = [asked |-> -1, report |-> s]
             \/ ~answered(m) /\ canConfig.wbo # "RUSEFI" /\ UNCHANGED <<written, told>>
  /\ serialAsks' = {}
  /\ UNCHANGED <<canConfig, aux>>

-----------------------------------------------------------------------------
\* How a channel is read depends on which interfaces there are.
interfaces == canConfig.secondarySerial \/ (canConfig.intcan /\ canConfig.available)

external(c) == c.select = "external"
local(c, kind) == IF interfaces THEN c.select = kind ELSE c.selectLocal = kind
onPin(c) == local(c, "analog") \/ local(c, "digital")

\* initialiseADC: a channel on a pin in use is an error, and is not set up.  One
\* channel that is set up is enough for the main loop to go through them all.
auxSetUp ==
  LET all == {canConfig.channels[i] : i \in Channels}
  IN [enabled |-> \E c \in all : (external(c) /\ interfaces) \/ (onPin(c) /\ ~c.pinIsUsed),
      ioError |-> \E c \in all : onPin(c) /\ c.pinIsUsed]

\* The main loop asks for an external channel: over the second serial port
\* unless the CAN interface is the one to use.
asksSerial(c) ==
  /\ external(c) /\ canConfig.secondarySerial
  /\ \/ ~canConfig.intcan /\ canConfig.available
     \/ canConfig.intcan /\ (canConfig.available => ~c.bit6)

asksCan(c) ==
  /\ external(c) /\ canConfig.intcan /\ canConfig.available
  /\ IF canConfig.secondarySerial THEN c.bit6 ELSE c.bit7

\* The question for a channel goes out twice; it has its number and no contents
\* but fixed ones, and leaves the kind of the identifier.
question(b, i) == filled(b, "question", <<11, 21, i, 36, 127, 112, 158, 77>>)

\* Four times a second the channels are gone through.  A local one takes what
\* its pin reads, though another use of the pin is the reason it was not set up.
readAuxInputs ==
  LET asked == {i \in Channels : asksCan(canConfig.channels[i])}
  IN /\ aux.enabled
     /\ \E level \in [Channels -> Levels], high \in [Channels -> {0, 1}] :
          auxIn' = [i \in Channels |-> CASE local(canConfig.channels[i], "analog") -> level[i]
                                        [] local(canConfig.channels[i], "digital") -> high[i]
                                        [] OTHER -> auxIn[i]]
     /\ serialAsks' = {i \in Channels : asksSerial(canConfig.channels[i])}
     /\ IF asked = {} THEN UNCHANGED <<outMsg, written, told>>
        ELSE /\ outMsg' = question(outMsg, Max(asked))
             /\ \E i \in asked : written' = question(outMsg, i)
             /\ told' = [told EXCEPT !.asked = -1]
     /\ UNCHANGED <<canConfig, canO2, aux>>

CanInit(configs) ==
  /\ canConfig \in configs
  /\ outMsg = [id |-> "none", extended |-> FALSE, len |-> 8, buf |-> [i \in 1..8 |-> 0]]
  /\ written = outMsg
  /\ told = [asked |-> -1, report |-> CHOOSE s \in CanReports : TRUE]
  /\ canO2 = <<0, 0>>
  /\ auxIn = [i \in Channels |-> 0]
  /\ aux = auxSetUp
  /\ serialAsks = {}

-----------------------------------------------------------------------------
\* Of all that goes out through the one buffer only the command to the wideband
\* heater has an extended identifier: each sender of a plain one relies on the
\* others to have put the buffer back.
HeaterAlone == written.extended => written.id = "WBO"

\* A scan tool that asks for what the answers to 0, 32 and 64 announce, in two
\* lists kept far from the answers, gets an answer to its question and never
\* bytes another message left; what it and the dashboards read out of them is
\* the engine's, wherever the formula's range holds that.
AnswersKept ==
  /\ written.id = "OBD" /\ told.asked \in Announced(told.report) =>
       /\ written.len = 8 /\ written.buf[2] = 65 /\ written.buf[3] = told.asked
       /\ ReadsBack(told.asked, written.buf[4], written.buf[5], told.report)
  /\ SpeedShown(written.id, written.buf, told.report)
================================================================================
