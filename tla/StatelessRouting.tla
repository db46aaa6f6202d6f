--------------------------- MODULE StatelessRouting ---------------------------
(***************************************************************************)
(* What the RoutingTask forwards message by message: turnouts, track power *)
(* and feedback sensors between CAN, LocoNet and the I2C bus, and the stop *)
(* and go lines of the I2C bus.                                            *)
(*                                                                         *)
(* A command is the same on every bus; how a bus words it, and what is     *)
(* lost then, is the business of the operators below.  External, as the    *)
(* repository describes them: a CAN central that executes turnouts and     *)
(* answers them unless it is in the stop state; keyboards that repeat a    *)
(* request until it is answered and show what the answers say; LocoNet     *)
(* devices.                                                                *)
(***************************************************************************)
EXTENDS Integers, Sequences

CONSTANTS
  Turnout,    \* addresses of turnouts, counted from 0
  Rail,       \* accessoryRailProtocol
  LnDepth,    \* size of LocoNetTx::msgBuffer_
  MaxIssued,  \* bound: repetitions end when so many commands were issued
  Scenarios   \* what the users do, and the configuration

ASSUME TurnoutAssumption == Turnout \subseteq 0..2047
ASSUME DepthAssumption == LnDepth \in Nat
ASSUME BoundAssumption == MaxIssued \in Nat

VARIABLES
  \* ---- RoutingTask
  pc,        \* where the task is in its loop
  notified,  \* its task notification value
  seen,      \* currentRequest in getStopGoRequest()
  last,      \* lastPowerOnTurnoutAddr, lastPowerOnDirection
  led,       \* StartStopIndicator::state_
  \* ---- stop and go lines
  request,   \* stopGoRequest: the lines whose flag is set
  cooling,   \* lines whose cooldown is active
  \* ---- I2C bus
  keyboard,  \* what each holds down, and what it waits for an answer to
  lamp,      \* what the keyboards show
  i2cRx,     \* messages received and not handled
  i2cTx,     \* messages sent by us and under way
  \* ---- CAN
  position,  \* turnouts of the protocol Rail, as the central has set them
  track,     \* the central is in the stop or go state
  canRx,     \* frames received and not handled
  toCentral, \* requests on the bus that the central has not handled
  \* ---- LocoNet
  lnTrack,   \* what the LocoNet devices take the track power to be
  lnRx,      \* messages received and not handled
  lnTx,      \* msgBuffer_
  \* ---- the users
  scenario,  \* one of Scenarios
  ops,       \* commands given so far
  resent,    \* repetitions that came early
  \* ---- history
  issued,    \* the commands of the users of each bus in their order
  got,       \* what we have sent to CAN and to LocoNet, by where it came from
  power,     \* the power command given last
  passed     \* which of the cases the properties leave out have happened

taskVars == <<pc, notified, seen, last, led>>
lineVars == <<request, cooling>>
i2cVars  == <<keyboard, lamp, i2cRx, i2cTx>>
canVars  == <<position, track, canRx, toCentral>>
lnVars   == <<lnTrack, lnRx, lnTx>>
userVars == <<scenario, ops, resent>>
history  == <<issued, got, power, passed>>
vars == <<taskVars, lineVars, i2cVars, canVars, lnVars, userVars, history>>

-----------------------------------------------------------------------------
(***************************************************************************)
(* Commands, and their form on each bus.                                   *)
(***************************************************************************)
Switch(at, value, on) == [kind |-> "turnout", at |-> at, value |-> value, on |-> on]
Sensor(at, value)     == [kind |-> "sensor", at |-> at, value |-> value, on |-> TRUE]
Power(kind)           == [kind |-> kind, at |-> 0, value |-> "none", on |-> TRUE]
Query                 == [kind |-> "query", at |-> 0, value |-> "none", on |-> TRUE]
Nothing               == [kind |-> "none", at |-> 0, value |-> "none", on |-> FALSE]

PowerKinds == {"stop", "go"}
Command ==
  [kind : PowerKinds \cup {"turnout", "sensor", "query"}, at : Nat,
   value : {"red", "green", "open", "closed", "none"}, on : BOOLEAN]

\* What a user of a bus gives: on the I2C bus keys are pressed, and only LocoNet
\* devices ask for the state of a turnout.
GivenBy(from) ==
  CASE from = "i2c"  -> {c \in Command : c.kind = "turnout" /\ c.on}
    [] from = "can"  -> {c \in Command : c.kind # "query"}
    [] from = "ln"   -> Command
    [] from = "line" -> {Power(k) : k \in PowerKinds}

ASSUME ScenarioAssumption ==
  \A s \in Scenarios :
    /\ s.ops \in Nat /\ s.resends \in Nat /\ s.respond \in BOOLEAN
    /\ \A u \in s.commands : u.cmd \in GivenBy(u.from)

\* The addresses in use are those that LocoNet can name.
ASSUME AddressAssumption ==
  \A s \in Scenarios : \A u \in s.commands :
    /\ u.cmd.kind = "turnout" => u.cmd.at < 2048
    /\ u.cmd.kind = "sensor" => u.cmd.at < 4096

(***************************************************************************)
(* I2C.  The receiver or sender is one of 16 keyboards, a data byte holds  *)
(* one of its four decoders, an output of the decoder, the direction and   *)
(* the power.  Without power, output and direction are zero.               *)
(***************************************************************************)
\* makeInbound(), makeOutbound()
makeMsg(at, value, on) ==
  [keyboard |-> (at \div 16) % 16, decoder |-> (at \div 4) % 4,
   output |-> IF on THEN at % 4 ELSE 0, value |-> IF on THEN value ELSE "red", on |-> on]

\* getInboundTurnoutAddr(), getOutboundTurnoutAddr()
TurnoutAddr(m) == 16 * m.keyboard + 4 * m.decoder + m.output

OfKeyboard(c) == makeMsg(c.at, c.value, c.on)

(***************************************************************************)
(* CAN.  A turnout frame names the protocol of the rails; "from", where    *)
(* the command came from, is for the properties only.                      *)
(***************************************************************************)
Frame(c, rail, response, from) == [cmd |-> c, rail |-> rail, response |-> response, from |-> from]

isMatchingTurnoutRailProtocol(rail) ==
  IF Rail \in {"MM1", "MM2"} THEN rail \in {"MM1", "MM2"} ELSE rail = Rail

(***************************************************************************)
(* LocoNet.  A switch request holds 11 bits of the address, a sensor       *)
(* report 12, and neither a protocol.                                      *)
(***************************************************************************)
Ln_Turnout(c) == [c EXCEPT !.at = @ % 2048]
Ln_Sensor(c)  == [c EXCEPT !.at = @ % 4096]

-----------------------------------------------------------------------------
(***************************************************************************)
(* The forwarders.                                                         *)
(***************************************************************************)
\* I2CForwarder::forward(): answers to turnouts within reach of the bus.
forwardToI2C(f) ==
  IF f.cmd.kind = "turnout" /\ f.response /\ isMatchingTurnoutRailProtocol(f.rail)
     /\ f.cmd.at <= 255
  THEN <<makeMsg(f.cmd.at, f.cmd.value, f.cmd.on)>> ELSE <<>>

\* Mutant: answers are forwarded as well.
LnMessagesAnswersToo(f) ==
  IF f.cmd.kind = "turnout" THEN <<Ln_Turnout(f.cmd)>>
  ELSE IF f.cmd.kind \in PowerKinds /\ ~f.response THEN <<f.cmd>>
  ELSE IF f.cmd.kind = "sensor" /\ f.response THEN <<Ln_Sensor(f.cmd)>>
  ELSE <<>>

\* LocoNetForwarder::forward(): requests, and sensor reports.
LnMessages(f) ==
  IF f.cmd.kind = "turnout" /\ ~f.response THEN <<Ln_Turnout(f.cmd)>>
  ELSE IF f.cmd.kind \in PowerKinds /\ ~f.response THEN <<f.cmd>>
  ELSE IF f.cmd.kind = "sensor" /\ f.response THEN <<Ln_Sensor(f.cmd)>>
  ELSE <<>>

\* AsyncSend() finds room.
Fits == Len(lnTx) < LnDepth

\* AsyncSend() of these messages, at most one: a full queue drops it.
AsyncSend(messages, from) ==
  /\ lnTx' = IF messages # <<>> /\ Fits
             THEN Append(lnTx, [cmd |-> messages[1], from |-> from]) ELSE lnTx
  /\ passed' = IF messages # <<>> /\ ~Fits THEN passed \cup {"dropped"} ELSE passed

\* A history of commands; requests for a state are none.
Logged(log, from, c) == IF c.kind = "query" THEN log ELSE [log EXCEPT ![from] = Append(@, c)]

\* SendPacket(): the frame is on the CAN bus.
SendPacket(f) ==
  /\ toCentral' = Append(toCentral, f)
  /\ got' = [got EXCEPT !.can = Logged(@, f.from, f.cmd)]

\* Mutant: only requests reach the indicator.
HandlePacketRequests(f) ==
  led' = IF f.cmd.kind \in PowerKinds /\ ~f.response THEN f.cmd.kind ELSE led

\* HandlePacket(): setSystemState() of the indicator.
HandlePacket(f) == led' = IF f.cmd.kind \in PowerKinds THEN f.cmd.kind ELSE led

\* Mutant: the output is compared as well.
sameDecoderAndOutput(a, b) == a % 256 = b % 256

\* sameDecoder(): the mask keeps bits 2 to 7.
sameDecoder(a, b) == (a % 256) \div 4 = (b % 256) \div 4

\* Mutant: a power-off is sent with the direction of the request.
MakeRR32CanMsgOwnDirection(m) ==
  IF m.on
  THEN Frame(Switch(TurnoutAddr(m), m.value, TRUE), Rail, FALSE, "i2c")
  ELSE IF sameDecoder(TurnoutAddr(m), last.at)
  THEN Frame(Switch(last.at, m.value, FALSE), Rail, FALSE, "i2c")
  ELSE Frame(Switch(0, "red", FALSE), "none", FALSE, "i2c")

\* I2CForwarder::MakeRR32CanMsg().  A power-off is taken to be for the turnout
\* that was switched on last; on another decoder the frame has no address.
MakeRR32CanMsg(m) ==
  IF m.on
  THEN Frame(Switch(TurnoutAddr(m), m.value, TRUE), Rail, FALSE, "i2c")
  ELSE IF sameDecoder(TurnoutAddr(m), last.at)
  THEN Frame(Switch(last.at, last.value, FALSE), Rail, FALSE, "i2c")
  ELSE Frame(Switch(0, "red", FALSE), "none", FALSE, "i2c")

\* sendI2CResponseIfEnabled()
ownResponse(m) ==
  IF scenario.respond THEN <<makeMsg(TurnoutAddr(m), m.value, m.on)>> ELSE <<>>

\* LocoNetForwarder::MakeRR32CanMsg()
FromLn(c) ==
  IF c.kind = "sensor" THEN Frame(c, "none", TRUE, "ln")
  ELSE Frame(c, IF c.kind = "turnout" THEN Rail ELSE "none", FALSE, "ln")

-----------------------------------------------------------------------------
(***************************************************************************)
(* RoutingTask: one action per message; between them the interrupts run.   *)
(***************************************************************************)
\* TaskMain(), and getStopGoRequest() at the start of loop(): the copy.  The
\* flags are cleared in a step of their own.
Wake ==
  /\ pc = "blocked" /\ notified
  /\ notified' = FALSE
  /\ seen' = request
  /\ pc' = "power"
  /\ UNCHANGED <<last, led, lineVars, i2cVars, canVars, lnVars, userVars, history>>

\* Mutant: go over stop.
MakeRR32CanPowerMsgGo == Power(IF "go" \in seen THEN "go" ELSE "stop")

\* MakeRR32CanPowerMsg(): stop over go.
MakeRR32CanPowerMsg == Power(IF "stop" \in seen THEN "stop" ELSE "go")

\* The rest of getStopGoRequest() and of processI2CStopGo().
processI2CStopGo ==
  /\ pc = "power"
  /\ request' = {} /\ seen' = {}
  /\ LET f == Frame(MakeRR32CanPowerMsg, "none", FALSE, "line")
     IN  \/ /\ seen # {}
            /\ SendPacket(f)
            /\ AsyncSend(LnMessages(f), f.from)
            /\ HandlePacket(f)
         \/ /\ seen = {}
            /\ UNCHANGED <<toCentral, got, lnTx, passed, led>>
  /\ pc' = "can"
  /\ UNCHANGED <<notified, last, cooling, i2cVars, position, track, canRx, lnTrack, lnRx,
                 userVars, issued, power>>

\* processCAN(): one frame.
processCAN ==
  /\ pc = "can" /\ canRx # <<>>
  /\ LET f == Head(canRx)
     IN  /\ i2cTx' = i2cTx \o forwardToI2C(f)
         /\ AsyncSend(LnMessages(f), f.from)
         /\ HandlePacket(f)
  /\ canRx' = Tail(canRx)
  /\ UNCHANGED <<pc, notified, seen, last, lineVars, keyboard, lamp, i2cRx, position, track,
                 toCentral, lnTrack, lnRx, userVars, issued, got, power>>

\* processI2CMessages(): one message.
processI2CMessages ==
  /\ pc = "i2c" /\ i2cRx # <<>>
  /\ LET m == Head(i2cRx)
         f == MakeRR32CanMsg(m)
     IN  /\ last' = IF m.on THEN [at |-> TurnoutAddr(m), value |-> m.value] ELSE last
         /\ SendPacket(f)
         /\ AsyncSend(LnMessages(f), f.from)
         /\ i2cTx' = i2cTx \o ownResponse(m)
  /\ i2cRx' = Tail(i2cRx)
  /\ UNCHANGED <<pc, notified, seen, led, lineVars, keyboard, lamp, position, track, canRx,
                 lnTrack, lnRx, userVars, issued, power>>

\* processLocoNet(): one message that has a CAN form.
processLocoNet ==
  /\ pc = "ln" /\ lnRx # <<>> /\ Head(lnRx).kind # "query"
  /\ LET f == FromLn(Head(lnRx))
     IN  /\ i2cTx' = i2cTx \o forwardToI2C(f)
         /\ SendPacket(f)
         /\ HandlePacket(f)
  /\ lnRx' = Tail(lnRx)
  /\ UNCHANGED <<pc, notified, seen, last, lineVars, keyboard, lamp, i2cRx, position, track,
                 canRx, lnTrack, lnTx, userVars, issued, power, passed>>

\* HandleDummyMessages(): the state of a turnout is asked for.
HandleDummyMessages ==
  /\ pc = "ln" /\ lnRx # <<>> /\ Head(lnRx).kind = "query"
  /\ IF scenario.active THEN AsyncSend(<<Query>>, "own") ELSE UNCHANGED <<lnTx, passed>>
  /\ lnRx' = Tail(lnRx)
  /\ UNCHANGED <<pc, notified, seen, last, led, lineVars, i2cVars, canVars, lnTrack, userVars,
                 issued, got, power>>

\* One queue is empty, the next one follows.
NextQueue ==
  /\ \/ pc = "can" /\ canRx = <<>> /\ pc' = "i2c"
     \/ pc = "i2c" /\ i2cRx = <<>> /\ pc' = "ln"
     \/ pc = "ln"  /\ lnRx = <<>>  /\ pc' = "blocked"
  /\ UNCHANGED <<notified, seen, last, led, lineVars, i2cVars, canVars, lnVars, userVars, history>>

RoutingTask ==
  \/ Wake \/ processI2CStopGo \/ processCAN \/ processI2CMessages
  \/ processLocoNet \/ HandleDummyMessages \/ NextQueue

-----------------------------------------------------------------------------
(***************************************************************************)
(* The other side of the buses.                                            *)
(***************************************************************************)
Rest == pc = "blocked" /\ ~notified /\ canRx = <<>> /\ toCentral = <<>>
        /\ i2cRx = <<>> /\ i2cTx = <<>> /\ lnRx = <<>> /\ lnTx = <<>>

\* DoBlockingSend() of the ConsoleTask, which runs while the RoutingTask waits.
DoBlockingSend ==
  /\ pc = "blocked" /\ ~notified
  /\ lnTx # <<>>
  /\ LET m == Head(lnTx)
     IN  /\ got' = [got EXCEPT !.ln = Logged(@, m.from, m.cmd)]
         /\ lnTrack' = IF m.cmd.kind \in PowerKinds THEN m.cmd.kind ELSE lnTrack
  /\ lnTx' = Tail(lnTx)
  /\ UNCHANGED <<taskVars, lineVars, i2cVars, canVars, lnRx, userVars, issued, power, passed>>

\* The CAN central handles a request: turnouts only in the go state, and only
\* with an address that is one.
Central ==
  /\ toCentral # <<>>
  /\ LET f == Head(toCentral)
         c == f.cmd
         done == \/ c.kind \in PowerKinds
                 \/ c.kind = "turnout" /\ track = "go" /\ f.rail # "none"
     IN  /\ canRx' = IF done THEN Append(canRx, [f EXCEPT !.response = TRUE]) ELSE canRx
         /\ notified' = (notified \/ done)
         /\ track' = IF c.kind \in PowerKinds THEN c.kind ELSE track
         /\ position' = IF done /\ c.kind = "turnout" /\ isMatchingTurnoutRailProtocol(f.rail)
                           /\ c.at \in Turnout
                        THEN [position EXCEPT ![c.at] = c.value] ELSE position
  /\ toCentral' = Tail(toCentral)
  /\ UNCHANGED <<pc, seen, last, led, lineVars, i2cVars, lnVars, userVars, history>>

Keyboard == {t \div 16 : t \in {u \in Turnout : u <= 255}}
Busy(k) == keyboard[k].held # Nothing \/ keyboard[k].asking # Nothing
\* The turnout that the key held down, or just released, is for.
UsedBy(k) == IF keyboard[k].held # Nothing THEN keyboard[k].held.at ELSE keyboard[k].asking.at

\* A keyboard receives an answer.
KeyboardReceives ==
  /\ i2cTx # <<>>
  /\ LET m == Head(i2cTx)
         k == m.keyboard
     IN  /\ keyboard' =
              IF k \in Keyboard /\ keyboard[k].asking # Nothing /\ OfKeyboard(keyboard[k].asking) = m
              THEN [keyboard EXCEPT ![k].asking = Nothing] ELSE keyboard
         /\ lamp' = IF m.on /\ TurnoutAddr(m) \in Turnout
                    THEN [lamp EXCEPT ![TurnoutAddr(m)] = m.value] ELSE lamp
  /\ i2cTx' = Tail(i2cTx)
  /\ UNCHANGED <<taskVars, lineVars, i2cRx, canVars, lnVars, userVars, history>>

-----------------------------------------------------------------------------
(***************************************************************************)
(* The users.                                                              *)
(***************************************************************************)
Give(from, c) ==
  /\ ops < scenario.ops
  /\ ops' = ops + 1
  /\ issued' = Logged(issued, from, c)
  /\ power' = IF c.kind \in PowerKinds THEN [kind |-> c.kind, from |-> from] ELSE power
  /\ notified' = TRUE
  /\ UNCHANGED <<scenario, resent>>

Send(k, c) == i2cRx' = Append(i2cRx, OfKeyboard(c))

\* A key is pressed.  With another key down, or a request of LocoNet for the
\* same turnout not handled yet, it is one of the cases left out below.
Press(k, c) ==
  /\ ~Busy(k) /\ c.at \div 16 = k
  /\ Give("i2c", c)
  /\ keyboard' = [keyboard EXCEPT ![k] = [held |-> c, asking |-> c]]
  /\ Send(k, c)
  /\ passed' = passed \cup {p \in {"overlap"} : \E j \in Keyboard : Busy(j)}
                      \cup {p \in {"crossed"} : \E i \in 1..Len(lnRx) : lnRx[i].at = c.at}
  /\ UNCHANGED <<pc, seen, last, led, lineVars, lamp, i2cTx, canVars, lnVars, got>>

\* It is released, after its request was answered.
Release(k) ==
  /\ keyboard[k].held # Nothing /\ keyboard[k].asking = Nothing
  /\ LET c == [keyboard[k].held EXCEPT !.on = FALSE]
     IN  /\ keyboard' = [keyboard EXCEPT ![k] = [held |-> Nothing, asking |-> c]]
         /\ issued' = Logged(issued, "i2c", c)
         /\ Send(k, c)
  /\ notified' = TRUE
  /\ UNCHANGED <<pc, seen, last, led, lineVars, lamp, i2cTx, canVars, lnVars, userVars, got, power,
                 passed>>

\* A request that is not answered is repeated: once nothing is under way, or a
\* few times earlier.
Repeat(k) ==
  /\ keyboard[k].asking # Nothing
  /\ Len(issued["i2c"]) < MaxIssued
  /\ \/ Rest /\ track = "go" /\ "overlap" \notin passed /\ UNCHANGED resent
     \/ resent < scenario.resends /\ resent' = resent + 1
  /\ issued' = Logged(issued, "i2c", keyboard[k].asking)
  /\ Send(k, keyboard[k].asking)
  /\ notified' = TRUE
  /\ UNCHANGED <<pc, seen, last, led, lineVars, keyboard, lamp, i2cTx, canVars, lnVars, scenario,
                 ops, got, power, passed>>

\* The history of a command for a turnout whose key is in use, or of whose
\* decoder a repeated request waits.
Crossing(c) ==
  passed' = IF /\ c.kind = "turnout"
               /\ \/ \E k \in Keyboard : Busy(k) /\ UsedBy(k) = c.at
                  \/ \E i \in 1..Len(i2cRx) : sameDecoder(TurnoutAddr(i2cRx[i]), c.at)
            THEN passed \cup {"crossed"} ELSE passed

\* Another CAN device sends a command to the central; a sensor report is sent
\* as an answer.
CanUser(c, rail) ==
  /\ Give("can", c)
  /\ LET f == Frame(c, rail, c.kind = "sensor", "can")
     IN  canRx' = Append(canRx, f) /\ toCentral' = Append(toCentral, f)
  /\ Crossing(c)
  /\ UNCHANGED <<pc, seen, last, led, lineVars, i2cVars, position, track, lnVars, got>>

LnUser(c) ==
  /\ Give("ln", c)
  /\ lnRx' = Append(lnRx, c)
  /\ lnTrack' = IF c.kind \in PowerKinds THEN c.kind ELSE lnTrack
  /\ Crossing(c)
  /\ UNCHANGED <<pc, seen, last, led, lineVars, i2cVars, canVars, lnTx, got>>

\* exti4_isr(), exti15_isr(): an edge of the stop or go line, if its cooldown
\* is over.  One that comes between the copy and the clearing of the flags is
\* a case left out below; so is one that overtakes a power command of another
\* bus.
Edge(line) ==
  /\ line \notin cooling
  /\ Give("line", Power(line))
  /\ request' = request \cup {line}
  /\ cooling' = cooling \cup {line}
  /\ passed' = passed
       \cup {p \in {"wiped"} : pc = "power"}
       \cup {p \in {"overtaken"} :
               \/ \E i \in 1..Len(canRx) : canRx[i].cmd.kind \in PowerKinds /\ ~canRx[i].response
               \/ \E i \in 1..Len(lnRx) : lnRx[i].kind \in PowerKinds}
  /\ UNCHANGED <<pc, seen, last, led, i2cVars, canVars, lnVars, got>>

CooldownEnds(line) ==
  /\ line \in cooling
  /\ cooling' = cooling \ {line}
  /\ UNCHANGED <<taskVars, request, i2cVars, canVars, lnVars, userVars, history>>

Users ==
  \/ \E u \in scenario.commands :
       \/ u.from = "i2c"  /\ \E k \in Keyboard : Press(k, u.cmd)
       \/ u.from = "can"  /\ CanUser(u.cmd, u.rail)
       \/ u.from = "ln"   /\ LnUser(u.cmd)
       \/ u.from = "line" /\ Edge(u.cmd.kind)
  \/ \E k \in Keyboard : Release(k) \/ Repeat(k)
  \/ \E line \in PowerKinds : CooldownEnds(line)

-----------------------------------------------------------------------------
Init ==
  /\ pc = "blocked" /\ notified = FALSE /\ seen = {}
  /\ last = [at |-> 0, value |-> "red"] /\ led = "unknown"
  /\ request = {} /\ cooling = {}
  /\ keyboard = [k \in Keyboard |-> [held |-> Nothing, asking |-> Nothing]]
  /\ lamp = [t \in {u \in Turnout : u <= 255} |-> "red"]
  /\ i2cRx = <<>> /\ i2cTx = <<>>
  /\ position = [t \in Turnout |-> "red"]
  /\ scenario \in Scenarios
  /\ track = scenario.track /\ lnTrack = scenario.track
  /\ canRx = <<>> /\ toCentral = <<>> /\ lnRx = <<>> /\ lnTx = <<>>
  /\ ops = 0 /\ resent = 0
  /\ LET none == [from \in {"i2c", "can", "ln", "line"} |-> <<>>]
     IN  issued = none /\ got = [can |-> none, ln |-> none]
  /\ power = [kind |-> "none", from |-> "none"] /\ passed = {}

Next == RoutingTask \/ DoBlockingSend \/ Central \/ KeyboardReceives \/ Users

Spec == Init /\ [][Next]_vars

\* The RoutingTask always runs, the ConsoleTask whenever it waits; the central
\* handles its requests, the I2C bus delivers, and a keyboard repeats what is
\* not answered.
Fairness ==
  /\ WF_vars(RoutingTask) /\ WF_vars(DoBlockingSend) /\ WF_vars(Central)
  /\ WF_vars(KeyboardReceives)
  /\ \A k \in Keyboard : WF_vars(Repeat(k))
FairSpec == Spec /\ Fairness

-----------------------------------------------------------------------------
(***************************************************************************)
(* Properties.                                                             *)
(***************************************************************************)
\* GeneralOperation.md: control messages are forwarded between all buses.  Once
\* all is quiet each command of LocoNet has reached CAN, each of CAN LocoNet and
\* each of a keyboard both, exactly once and in the order in which its bus gave
\* them, whatever came from the others meanwhile, and none of CAN or LocoNet has
\* gone back to its bus.  This includes the power-off of a key, which does not
\* name its turnout, unless two keys were down at a time.  What the keyboards are
\* told of the other buses is the matter of LampsFollow.
EachReachesTheOthers ==
  Rest =>
    /\ got.can["can"] = <<>> /\ got.ln["ln"] = <<>>
    /\ got.can["ln"] = issued["ln"]
    /\ "dropped" \notin passed => got.ln["can"] = issued["can"]
    /\ "overlap" \notin passed =>
         /\ got.can["i2c"] = issued["i2c"]
         /\ "dropped" \notin passed => got.ln["i2c"] = issued["i2c"]

Stopped ==
  track = "stop" \/ \E b \in DOMAIN issued : \E i \in 1..Len(issued[b]) : issued[b][i].kind = "stop"

\* The keyboards show what the central has set, however requests of the three
\* buses cross: the lamps follow its answers only, and a power-off, which also
\* sets the turnout, does not set it back.  Left out: a command for a turnout
\* whose key is down; and with answers of our own a central that is stopped.
\* For other scenarios than ours it may fail: where another device switches a turnout
\* off, or where a keyboard takes the answer to another's request for its own
\* (UsersSwitchOn and ClearPress in StatelessRoutingProofs).
LampsFollow ==
  Rest /\ "crossed" \notin passed /\ (scenario.respond => ~Stopped) =>
    \A t \in DOMAIN lamp : lamp[t] = position[t]

\* The indicator ends with the state that the central ends with, whatever
\* order power commands of several buses are handled in.
IndicatorAgrees == Rest /\ led # "unknown" => led = track

\* stm32I2C.h: the flags indicate that a user pressed a button.  After a stop
\* from the stop line, with no power command after it, both the central and the
\* LocoNet devices are stopped in the end.
EachStopStops ==
  Rest /\ power = [kind |-> "stop", from |-> "line"] => track = "stop" /\ lnTrack = "stop"

\* The same where the edge does not come between the copy and the clearing of
\* the flags, does not overtake a power command that waits, and no message is
\* dropped.
StopStops == passed \cap {"wiped", "overtaken", "dropped"} = {} => EachStopStops

\* A keyboard, which is stuck until its request is answered, gets its answer
\* if the central is not stopped and no other key was down meanwhile.
KeyboardServed ==
  \A k \in Keyboard :
    keyboard[k].asking # Nothing ~>
      keyboard[k].asking = Nothing \/ track = "stop" \/ "overlap" \in passed
=============================================================================
