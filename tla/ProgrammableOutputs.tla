-------------------------- MODULE ProgrammableOutputs --------------------------
(***************************************************************************)
(* programmableIOControl.cpp: outputs the user programs by rules.  A rule  *)
(* compares one or two data with its targets; its output waits for the     *)
(* condition to have held for a delay and is on for a limited time.  A     *)
(* rule may use the output of another, and may only be there to be used.   *)
(*                                                                         *)
(* Output statuses are pin levels, as in the code: those of an inverted    *)
(* output are the other way round.                                         *)
(***************************************************************************)
EXTENDS EngineStatus, Sequences

VARIABLES
  rules,     \* config13, by rule
  outputs,   \* by rule: valid, ioDelay, ioOutDelay, status, and the status others use
  outputFor  \* history, by rule: calls its condition has held and its output been
             \* active, each counted just past the time it is compared with

ruleVars == <<rules, outputs, outputFor>>

COMPARATORS == {"EQUAL", "NOT_EQUAL", "GREATER", "GREATER_EQUAL", "LESS", "LESS_EQUAL", "AND", "XOR"}

Bytes == 0..255
Comparisons == [rule : 0..8, index : STRING, type : COMPARATORS, target : Int]
RuleSettings ==
  [first : Comparisons, second : Comparisons, bitwise : {"NONE", "AND", "OR", "XOR"},
   outputPin : {"none", "pin", "rule"}, outputInverted : BOOLEAN, kindOfLimiting : BOOLEAN,
   outputDelay : Bytes, outputTimeLimit : Bytes]

\* Data and targets are words; a negative one has its sign in all the bits above.
bitSet(word, k) == (word \div 2^k) % 2 = 1

compares(type, data, target) ==
  CASE type = "EQUAL" -> data = target
    [] type = "NOT_EQUAL" -> data # target
    [] type = "GREATER" -> data > target
    [] type = "GREATER_EQUAL" -> data >= target
    [] type = "LESS" -> data < target
    [] type = "LESS_EQUAL" -> data <= target
    [] type = "AND" -> \E k \in 0..15 : bitSet(data, k) /\ bitSet(target, k)
    [] type = "XOR" -> data # target

\* A sensor's value, or the tenths of seconds the engine has run, which are
\* raised to 32768 at least and so read as a negative word, or minus one.
ProgrammableIOGetData(index) ==
  CASE index \in {"coolant", "tps", "map", "gear"} -> reading[index]
    [] index = "rpm" -> rpm
    [] OTHER -> -1

datum(source, used) ==
  IF source.rule # 0
  THEN IF source.rule \notin DOMAIN used THEN 0 ELSE IF used[source.rule] THEN 1 ELSE 0
  ELSE ProgrammableIOGetData(source.index)

holds(r, used) ==
  LET first == compares(r.first.type, datum(r.first, used), r.first.target)
      second == compares(r.second.type, datum(r.second, used), r.second.target)
  IN CASE r.bitwise = "AND" -> first /\ second
       [] r.bitwise = "OR" -> first \/ second
       [] r.bitwise = "XOR" -> first # second
       [] OTHER -> first

\* The output's time is over, or it is released early and its time set to over.
limit(r, o, check) ==
  IF ~r.kindOfLimiting THEN [check |-> check, o |-> o]
  ELSE IF check THEN [check |-> r.outputTimeLimit = 0 \/ o.ioOutDelay < r.outputTimeLimit, o |-> o]
  ELSE [check |-> FALSE, o |-> [o EXCEPT !.ioOutDelay = IF o.status THEN r.outputTimeLimit ELSE 0]]

write(r, o, check) ==
  LET level == check # r.outputInverted
  IN [o EXCEPT !.status = level, !.used = IF r.outputPin = "rule" THEN level ELSE o.used,
               !.pin = IF r.outputPin = "pin" THEN level ELSE o.pin]

activate(r, o) ==
  IF o.ioDelay < r.outputDelay THEN [o EXCEPT !.ioDelay = o.ioDelay + 1]
  ELSE LET counted == o.status /\ o.ioOutDelay < r.outputTimeLimit
           time == IF counted THEN o.ioOutDelay + 1 ELSE o.ioOutDelay
       IN write(r, [o EXCEPT !.ioOutDelay = time], TRUE)

release(r, o) ==
  IF o.ioOutDelay < r.outputTimeLimit THEN [o EXCEPT !.ioOutDelay = o.ioOutDelay + 1, !.ioDelay = 0]
  ELSE [write(r, o, FALSE) EXCEPT !.ioOutDelay = IF r.kindOfLimiting THEN o.ioOutDelay ELSE 0,
                                  !.ioDelay = 0]

checkRule(r, o, used) ==
  LET l == limit(r, o, holds(r, used))
  IN IF ~o.valid THEN o ELSE IF l.check THEN activate(r, l.o) ELSE release(r, l.o)

\* The statuses a rule may use: those of the rules before it are new.
statusesFor(y, before, after) ==
  [z \in DOMAIN rules |-> IF z < y THEN after[z].used ELSE before[z].used]

\* The rules in their order.
checkRules(before) ==
  LET after[y \in DOMAIN rules] == checkRule(rules[y], before[y], statusesFor(y, before, after))
  IN after

Count(happens, n, most) == IF ~happens THEN 0 ELSE IF n < most THEN n + 1 ELSE n
active(r, o) == o.status # r.outputInverted

checkProgrammableIO ==
  /\ outputs' = checkRules(outputs)
  /\ outputFor' = [y \in DOMAIN rules |->
       [held |-> Count(holds(rules[y], statusesFor(y, outputs, outputs')), outputFor[y].held,
                       rules[y].outputDelay + 1),
        active |-> Count(active(rules[y], outputs'[y]), outputFor[y].active,
                         rules[y].outputTimeLimit + 2)]]
  /\ UNCHANGED rules

\* A valid output is neither 0 nor a pin that is used already.
initialiseProgrammableIO ==
  outputs = [y \in DOMAIN rules |->
    [valid |-> rules[y].outputPin \in {"pin", "rule"}, ioDelay |-> 0, ioOutDelay |-> 0,
     status |-> rules[y].outputPin # "none" /\ rules[y].outputInverted, used |-> FALSE,
     pin |-> rules[y].outputPin = "pin" /\ rules[y].outputInverted]]

RulesInit(programs) ==
  /\ rules \in programs
  /\ initialiseProgrammableIO
  /\ outputFor = [y \in DOMAIN rules |-> [held |-> 0, active |-> 0]]

\* An output is switched on when its condition has held for its delay, without
\* a break, and one whose time is limited is on for no longer than its limit.
RulesTimed ==
  \A y \in DOMAIN rules :
    LET r == rules[y] IN
    outputs[y].valid /\ ~r.outputInverted =>
      /\ outputFor[y].active = 1 => outputFor[y].held > r.outputDelay
      /\ r.kindOfLimiting /\ r.outputTimeLimit > 0 => outputFor[y].active <= r.outputTimeLimit + 1
=============================================================================
