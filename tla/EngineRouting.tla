---------------------------- MODULE EngineRouting ----------------------------
(***************************************************************************)
(* Engine control between CAN and LocoNet: the slot server, the two        *)
(* forwarders of engine changes, the callbacks of the engine database, the *)
(* loop of the RoutingTask that calls them, the LocoNet transmit queue and *)
(* the ConsoleTask that empties it and dispatches slots.                   *)
(*                                                                         *)
(* The two buses are modelled by what their devices hold: can[a] is the    *)
(* state of engine a at the CAN central, bus[s] the engine the LocoNet     *)
(* throttles have in slot s.  An engine is its LocoNet address, of which   *)
(* the database knows the subset Known.  Its state is reduced to one       *)
(* attribute for each way the code treats one: the speed, which the two    *)
(* buses count in different units, the direction and function 0, which     *)
(* share a message, and function 9.                                        *)
(*                                                                         *)
(* Address 0 is not an engine, but nothing filters it: it can be asked for *)
(* like any other, and is the address of every cleared slot.               *)
(***************************************************************************)
EXTENDS Integers, Sequences, FiniteSets

CONSTANTS
  NumSlots,   \* slots the server has, not counting slot 0
  Addr,       \* addresses that are asked for, 0 among them or not
  Known,      \* the engines of which the CAN engine database has all details
  Mode,       \* lnSlotServerState
  LnDepth,    \* LocoNetTx::QueueDepth
  Steps,      \* speeds that the throttles set
  Velocities, \* velocities that the CAN central sets
  Inputs,     \* what the devices on the two buses and the console user do
  MaxOps,     \* bound: how often they do it
  Assigned    \* the slots the LocoNet master has assigned at the start

ASSUME SlotAssumption ==
  /\ NumSlots \in Nat \ {0}
  /\ LnDepth \in Nat \ {0}
ASSUME EngineAssumption ==
  /\ Addr \subseteq Nat
  /\ Known \subseteq Addr
  /\ Mode \in {"DISABLED", "PASSIVE", "ACTIVE"}
  /\ MaxOps \in Nat
ASSUME SpeedAssumption ==
  /\ Steps \subseteq 0..127
  /\ Velocities \subseteq 0..1000
ASSUME BusAssumption ==
  \E S \in SUBSET (1..NumSlots) : Assigned \in [S -> Addr \ {0}]

VARIABLES
  \* ---- RoutingTask
  pc,         \* where the task is in its loop
  notified,   \* its task notification value
  slots,      \* slotDB_
  inDispatch, \* slotInDispatch_
  db,         \* the engine database: value and pending changes of an engine
  overrun,    \* an entry past the end of slotDB_ was written
  \* ---- LocoNetTx and ConsoleTask
  lnTx,       \* msgBuffer_
  console,    \* the search of markAddressForDispatch()
  \* ---- the buses
  lnRx,       \* LocoNet messages heard and not yet handled
  canRx,      \* CAN frames received and not yet handled
  can,        \* what the CAN central holds of an engine
  bus,        \* what the LocoNet throttles hold of a slot
  ops,        \* inputs so far
  asked       \* history: "console" once it dispatches, "zero" once address 0 is asked for

taskVars == <<pc, notified, slots, inDispatch, db, overrun>>
busVars  == <<lnRx, canRx, can, bus, ops, asked>>
vars     == <<taskVars, lnTx, console, busVars>>

-----------------------------------------------------------------------------
(***************************************************************************)
(* Engines, messages and slots.                                            *)
(***************************************************************************)
Attr  == {"speed", "dir", "f0", "f9"}
Value == Nat
Blank == [x \in Attr |-> 0]

\* The speed is a step on LocoNet and a velocity on CAN.
kLocoNetMaxVeloctiy == 127
kMaxEngineVelocity  == 1000

lnSpeedToCanVelocity(speed) ==
  (((speed * 10) * kMaxEngineVelocity) \div kLocoNetMaxVeloctiy + 5) \div 10

canVelocityToLnSpeed(velocity) ==
  (((velocity * 10) * kLocoNetMaxVeloctiy) \div kMaxEngineVelocity + 5) \div 10

\* One attribute, and the state of an engine, as the other bus counts it.
OnCan(x, v) == IF x = "speed" THEN lnSpeedToCanVelocity(v) ELSE v
OnLn(x, v)  == IF x = "speed" THEN canVelocityToLnSpeed(v) ELSE v
ShownOnLn(w) == [x \in Attr |-> OnLn(x, w[x])]

Flip(v) == IF v = 0 THEN 1 ELSE 0

\* The attributes a LocoNet message carries.  SPD: OPC_LOCO_SPD; DIRF:
\* OPC_LOCO_DIRF; SND2: OPC_LOCO_SND2, for all messages of functions above 8.
Carries == [SPD |-> {"speed"}, DIRF |-> {"dir", "f0"}, SND2 |-> {"f9"}]

\* The slot data messages carry F0 to F8 and no more.
SlotData == {"speed", "dir", "f0"}

\* UIDs.  A locomotive that was only given an address has the UID 0.
NoUid     == <<"none", 0>>
MM2Uid(a) == <<"MM2", a>>
CanUid(a) == <<"CAN", a>>

Slot   == 1..NumSlots
NoSlot == 0
Cleared == [inUse |-> FALSE, addr |-> 0, uid |-> NoUid, val |-> Blank,
            diff |-> {}, match |-> FALSE]

\* initializeSlot()
initializeSlot(a) == [Cleared EXCEPT !.inUse = TRUE, !.addr = a, !.match = TRUE]

First(S) == IF S = {} THEN NoSlot ELSE CHOOSE s \in S : \A r \in S : s <= r

\* findSlotForAddress()
findSlotForAddress(a) == First({s \in Slot : slots[s].inUse /\ slots[s].addr = a})

\* Mutant: findOrAllocateSlotForAddress() does not look for the address.
findOrAllocateAlwaysNew(a) ==
  LET free == First({s \in Slot : ~slots[s].inUse})
  IN  [slot |-> free, new |-> TRUE]

\* Mutant: a slot in use counts as free.
findOrAllocateReuses(a) ==
  LET same == First({s \in Slot : slots[s].addr = a})
  IN  [slot |-> IF same # NoSlot THEN same ELSE 1, new |-> same = NoSlot]

\* findOrAllocateSlotForAddress(): the address is compared in every slot, in
\* use or not; only then the first free slot is taken.  Address 0 is found in
\* a cleared slot, which stays as it is.
findOrAllocate(a) ==
  LET same == First({s \in Slot : slots[s].addr = a})
      free == First({s \in Slot : ~slots[s].inUse})
  IN  IF same # NoSlot THEN [slot |-> same, new |-> FALSE]
                       ELSE [slot |-> free, new |-> TRUE]

Allocated(a) ==
  LET f == findOrAllocate(a)
  IN  IF f.new /\ f.slot # NoSlot THEN [slots EXCEPT ![f.slot] = initializeSlot(a)]
                                  ELSE slots

SetMsg(g, s, v) == [op |-> g, slot |-> s, val |-> [x \in Carries[g] |-> v[x]]]
RdMsg(op, s, a, v) ==
  [op |-> op, slot |-> s, addr |-> a, val |-> [x \in SlotData |-> v[x]]]
RqMsg(s) == [op |-> "RQ", slot |-> s]
LongAck  == [op |-> "LACK"]

\* Mutant: the limit of the queue is off by one.
AsyncSendOneMore(q, m) == IF Len(q) <= LnDepth THEN Append(q, m) ELSE q

\* AsyncSend(): a full queue drops the message, and no caller looks.
AsyncSend(q, m) == IF Len(q) < LnDepth THEN Append(q, m) ELSE q

-----------------------------------------------------------------------------
(***************************************************************************)
(* RoutingTask.  It has the highest priority: nothing but the interrupts   *)
(* that fill the two receive queues runs between two of its steps.         *)
(***************************************************************************)
At(p) == pc = p /\ ~overrun

Wake ==
  /\ At("blocked")
  /\ notified
  /\ notified' = FALSE
  /\ pc' = "can"
  /\ UNCHANGED <<slots, inDispatch, db, overrun, lnTx, console, busVars>>

\* setLocoVelocity(uid), setLocoDirection(), setLocoFunction()
Updated(e, x, v) ==
  IF e.val[x] # v THEN [val |-> [e.val EXCEPT ![x] = v], diff |-> e.diff \cup {x}]
                  ELSE e

\* changeLocoDirection()
Turned(e) == [val |-> [e.val EXCEPT !["dir"] = Flip(@)], diff |-> e.diff \cup {"dir"}]

\* Mutant: the frame stays in the queue, as without framePtr.reset().
HandleCanKeepsFrame ==
  /\ At("can")
  /\ canRx # <<>>
  /\ db' = [a \in Known |-> IF Head(canRx).kind = "stop" THEN Updated(db[a], "speed", 0)
                                                       ELSE db[a]]
  /\ UNCHANGED <<pc, notified, slots, inDispatch, overrun, lnTx, console, busVars>>

\* RR32Can.HandlePacket() calls the engine callbacks of the database.
HandleCan ==
  /\ At("can")
  /\ canRx # <<>>
  /\ LET f == Head(canRx)
     IN  db' = [a \in Known |->
           CASE f.kind = "stop"                -> Updated(db[a], "speed", 0)
             [] f.kind = "set" /\ f.addr = a   -> Updated(db[a], f.attr, f.v)
             [] f.kind = "turn" /\ f.addr = a  -> Turned(db[a])
             [] OTHER                          -> db[a]]
  /\ canRx' = Tail(canRx)
  /\ UNCHANGED <<pc, notified, slots, inDispatch, overrun, lnTx, console,
                 lnRx, can, bus, ops, asked>>

CanDone ==
  /\ At("can")
  /\ canRx = <<>>
  /\ pc' = IF Mode = "DISABLED" THEN "ln" ELSE "forward"
  /\ UNCHANGED <<notified, slots, inDispatch, db, overrun, lnTx, console, busVars>>

\* The messages of LocoNetForwarder::forwardLocoChange(), in their order.
SendChanges(q, s, e) ==
  LET one(r, g) == IF Carries[g] \cap e.diff # {} THEN AsyncSend(r, SetMsg(g, s, ShownOnLn(e.val)))
                                                  ELSE r
  IN  one(one(one(q, "SPD"), "DIRF"), "SND2")

HasTarget(a) == Mode = "ACTIVE" \/ findSlotForAddress(a) # NoSlot

\* Mutant: the changes are marked as sent and the slot keeps its values.
ForwardLocoChangeNoCopy(a) ==
  LET s == IF Mode = "ACTIVE" THEN findOrAllocate(a).slot ELSE findSlotForAddress(a)
      t == IF Mode = "ACTIVE" THEN Allocated(a) ELSE slots
  IN  /\ At("forward")
      /\ db[a].diff # {}
      /\ HasTarget(a)
      /\ IF s = NoSlot
         THEN overrun' = TRUE /\ UNCHANGED <<slots, lnTx, db>>
         ELSE /\ slots' = t
              /\ lnTx' = SendChanges(lnTx, s, db[a])
              /\ db' = [db EXCEPT ![a].diff = {}]
              /\ UNCHANGED overrun
      /\ UNCHANGED <<pc, notified, inDispatch, console, busVars>>

\* forwardLocoChange() of an engine of the database.  The slot takes over the
\* speed, the direction and F0 to F8 only.  Without a free slot
\* initializeSlot() writes past the end of the table.
ForwardLocoChange(a) ==
  LET s == IF Mode = "ACTIVE" THEN findOrAllocate(a).slot ELSE findSlotForAddress(a)
      t == IF Mode = "ACTIVE" THEN Allocated(a) ELSE slots
  IN  /\ At("forward")
      /\ db[a].diff # {}
      /\ HasTarget(a)
      /\ IF s = NoSlot
         THEN overrun' = TRUE /\ UNCHANGED <<slots, lnTx, db>>
         ELSE /\ slots' = [t EXCEPT ![s].val = [x \in Attr |->
                             IF x \in db[a].diff /\ x # "f9" THEN db[a].val[x] ELSE @[x]]]
              /\ lnTx' = SendChanges(lnTx, s, db[a])
              /\ db' = [db EXCEPT ![a].diff = {}]
              /\ UNCHANGED overrun
      /\ UNCHANGED <<pc, notified, inDispatch, console, busVars>>

\* Mutant: the loop ends at the first engine without a slot or a change.
ForwardDoneEarly ==
  /\ At("forward")
  /\ \E a \in Known : db[a].diff = {} \/ ~HasTarget(a)
  /\ pc' = "ln"
  /\ UNCHANGED <<notified, slots, inDispatch, db, overrun, lnTx, console, busVars>>

\* The end of the loop over the database: what is still pending has no slot.
ForwardDone ==
  /\ At("forward")
  /\ \A a \in Known : db[a].diff = {} \/ ~HasTarget(a)
  /\ pc' = "ln"
  /\ UNCHANGED <<notified, slots, inDispatch, db, overrun, lnTx, console, busVars>>

(***************************************************************************)
(* LocoNetSlotServer::process().                                           *)
(***************************************************************************)
Hears(op) == At("ln") /\ lnRx # <<>> /\ Head(lnRx).op = op
Heard == Head(lnRx)
LnHandled ==
  /\ lnRx' = Tail(lnRx)
  /\ UNCHANGED <<pc, notified, console, db, canRx, can, bus, ops, asked>>

\* findOrRequestSlot(): a slot not in use is asked for, and loses its changes.
NotRequested(s) == slots[s].inUse \/ Mode = "DISABLED"
Requested(s) == IF NotRequested(s) THEN lnTx ELSE AsyncSend(lnTx, RqMsg(s))
EntryOf(s) == IF NotRequested(s) THEN slots[s] ELSE [slots[s] EXCEPT !.diff = {}]

\* processLocoSpeed(): flagged as changed, whatever the speed was.
processLocoSpeed ==
  /\ Hears("SPD")
  /\ LET s == Heard.slot
         e == EntryOf(s)
     IN  slots' = [slots EXCEPT ![s] =
           [e EXCEPT !.val["speed"] = lnSpeedToCanVelocity(Heard.val["speed"]),
                     !.diff = @ \cup {"speed"}]]
  /\ lnTx' = Requested(Heard.slot)
  /\ LnHandled
  /\ UNCHANGED <<inDispatch, overrun>>

\* processLocoDirF(), processLocoSnd(), processLocoFunExt(): what differs
\* from the values the slot holds is taken over and flagged as changed.
processLocoFunctions ==
  /\ \E g \in {"DIRF", "SND2"} :
       /\ Hears(g)
       /\ LET s == Heard.slot
              e == EntryOf(s)
          IN  slots' = [slots EXCEPT ![s] =
                [e EXCEPT !.val = [x \in Attr |-> IF x \in Carries[g] THEN Heard.val[x] ELSE @[x]],
                          !.diff = @ \cup {x \in Carries[g] : Heard.val[x] # e.val[x]}]]
       /\ lnTx' = Requested(Heard.slot)
  /\ LnHandled
  /\ UNCHANGED <<inDispatch, overrun>>

\* processLocoRequest()
processLocoRequest ==
  /\ Hears("ADR")
  /\ LET a == Heard.addr
         s == findOrAllocate(a).slot
         t == Allocated(a)
     IN  IF Mode # "ACTIVE"
         THEN UNCHANGED <<slots, lnTx, overrun>>
         ELSE IF s = NoSlot
              THEN overrun' = TRUE /\ UNCHANGED <<slots, lnTx>>
              ELSE /\ slots' = t
                   /\ lnTx' = AsyncSend(lnTx, RdMsg("RD", s, t[s].addr, ShownOnLn(t[s].val)))
                   /\ UNCHANGED overrun
  /\ LnHandled
  /\ UNCHANGED inDispatch

\* processRequestSlotRead(): answered in every mode.
processRequestSlotRead ==
  /\ Hears("RQ")
  /\ LET s == Heard.slot
     IN  lnTx' = AsyncSend(lnTx, RdMsg("RD", s, slots[s].addr, ShownOnLn(slots[s].val)))
  /\ LnHandled
  /\ UNCHANGED <<slots, inDispatch, overrun>>

\* processSlotRead(), and the acknowledge of a slot write.
processSlotRead ==
  /\ \E op \in {"RD", "WR"} :
       /\ Hears(op)
       /\ slots' = [slots EXCEPT ![Heard.slot] =
            [inUse |-> TRUE, addr |-> Heard.addr, uid |-> MM2Uid(Heard.addr),
             val |-> [x \in Attr |-> IF x \in SlotData THEN OnCan(x, Heard.val[x]) ELSE 0],
             diff |-> @.diff, match |-> TRUE]]
       /\ lnTx' = IF op = "WR" /\ Mode = "ACTIVE" THEN AsyncSend(lnTx, LongAck) ELSE lnTx
  /\ LnHandled
  /\ UNCHANGED <<inDispatch, overrun>>

\* Mutant: a move copies the slot and leaves the old one in use.
processSlotMoveCopies ==
  /\ Hears("MOVE")
  /\ IF Heard.slot # 0 /\ Heard.dst # 0
     THEN slots' = [slots EXCEPT ![Heard.dst] = slots[Heard.slot]]
     ELSE UNCHANGED slots
  /\ LnHandled
  /\ UNCHANGED <<lnTx, inDispatch, overrun>>

\* processSlotMove().  Source 0 asks for the dispatched slot, destination 0
\* dispatches one; a move to itself is ignored.
processSlotMove ==
  /\ Hears("MOVE")
  /\ LET src == Heard.slot
         dst == Heard.dst
     IN  \/ /\ src = 0
            /\ IF Mode # "ACTIVE" THEN UNCHANGED <<lnTx, inDispatch>>
               ELSE IF inDispatch = NoSlot
                    THEN lnTx' = AsyncSend(lnTx, LongAck) /\ UNCHANGED inDispatch
                    ELSE LET e == slots[inDispatch]
                         IN  /\ lnTx' = AsyncSend(lnTx, RdMsg("RD", inDispatch, e.addr, ShownOnLn(e.val)))
                             /\ inDispatch' = NoSlot
            /\ UNCHANGED slots
         \/ /\ src # 0 /\ dst = 0
            /\ inDispatch' = src
            /\ UNCHANGED <<slots, lnTx>>
         \/ /\ src # 0 /\ dst = src
            /\ UNCHANGED <<slots, lnTx, inDispatch>>
         \/ /\ src # 0 /\ dst # 0 /\ dst # src
            /\ slots' = [slots EXCEPT ![dst] = slots[src], ![src] = Cleared]
            /\ UNCHANGED <<lnTx, inDispatch>>
  /\ LnHandled
  /\ UNCHANGED overrun

process ==
  \/ processLocoSpeed \/ processLocoFunctions \/ processLocoRequest
  \/ processRequestSlotRead \/ processSlotRead \/ processSlotMove

\* Mutant: one message for each notification.
LnDoneEarly ==
  /\ At("ln")
  /\ pc' = IF Mode = "DISABLED" THEN "blocked" ELSE "match"
  /\ UNCHANGED <<notified, slots, inDispatch, db, overrun, lnTx, console, busVars>>

LnDone ==
  /\ At("ln")
  /\ lnRx = <<>>
  /\ pc' = IF Mode = "DISABLED" THEN "blocked" ELSE "match"
  /\ UNCHANGED <<notified, slots, inDispatch, db, overrun, lnTx, console, busVars>>

(***************************************************************************)
(* matchEnginesFromLocoNetAndCan().  The frames a central confirms come    *)
(* back as received frames.                                                *)
(***************************************************************************)
\* Mutant: findEngine() takes the first engine with full details.
MatchedUidAny(s) ==
  IF slots[s].match /\ Known # {} THEN CanUid(CHOOSE a \in Known : TRUE) ELSE slots[s].uid

\* setUid() of the engine that findEngine() finds for the address.
MatchedUid(s) ==
  IF slots[s].match /\ slots[s].addr \in Known THEN CanUid(slots[s].addr) ELSE slots[s].uid

SetFrame(a, x, v) == [kind |-> "set", addr |-> a, attr |-> x, v |-> v]

\* The frames of CANForwarder::forwardLocoChange(), in their order.
Frames(a, e) ==
  LET one(r, x) == IF x \in e.diff THEN Append(r, SetFrame(a, x, e.val[x])) ELSE r
  IN  one(one(one(one(<<>>, "speed"), "dir"), "f0"), "f9")

\* One slot of the loop: its UID is taken from the database, its changes are
\* sent with this UID.  A UID that is no engine of the central reaches nobody.
MatchAndForward(s) ==
  /\ At("match")
  /\ slots[s].diff # {} \/ MatchedUid(s) # slots[s].uid
  /\ LET a == slots[s].addr
         reached == slots[s].diff # {} /\ MatchedUid(s) \in {CanUid(k) : k \in Known}
         engine == MatchedUid(s)[2]
     IN  /\ slots' = [slots EXCEPT ![s].diff = {}, ![s].uid = MatchedUid(s)]
         /\ canRx' = IF reached THEN canRx \o Frames(engine, slots[s]) ELSE canRx
         /\ can' = IF reached
                   THEN [can EXCEPT ![engine] = [x \in Attr |->
                          IF x \in slots[s].diff THEN slots[s].val[x] ELSE @[x]]]
                   ELSE can
         /\ notified' = (notified \/ reached)
  /\ UNCHANGED <<pc, inDispatch, db, overrun, lnTx, console, lnRx, bus, ops, asked>>

MatchDone ==
  /\ At("match")
  /\ \A s \in Slot : slots[s].diff = {} /\ MatchedUid(s) = slots[s].uid
  /\ pc' = "blocked"
  /\ UNCHANGED <<notified, slots, inDispatch, db, overrun, lnTx, console, busVars>>

RoutingTask ==
  \/ Wake
  \/ HandleCan \/ CanDone
  \/ \E a \in Known : ForwardLocoChange(a)
  \/ ForwardDone
  \/ process \/ LnDone
  \/ \E s \in Slot : MatchAndForward(s)
  \/ MatchDone

-----------------------------------------------------------------------------
(***************************************************************************)
(* ConsoleTask.  It has the lowest priority and runs while the RoutingTask *)
(* waits; the search for a slot to dispatch may be interrupted anywhere.   *)
(***************************************************************************)
ConsoleRuns == At("blocked") /\ ~notified

\* LocoNet.send() of one of our messages, as the other devices hear it.
BusHears(m) ==
  \/ /\ m.op \in DOMAIN Carries
     /\ bus' = [bus EXCEPT ![m.slot].val = [x \in Attr |->
                  IF x \in Carries[m.op] THEN m.val[x] ELSE @[x]]]
     /\ UNCHANGED <<lnRx, notified>>
  \/ /\ m.op = "RD" /\ Mode = "ACTIVE"
     /\ bus' = [bus EXCEPT ![m.slot] = [addr |-> m.addr, val |-> [x \in Attr |->
                  IF x \in SlotData THEN m.val[x]
                  ELSE IF @.addr = m.addr THEN @.val[x] ELSE 0]]]
     /\ UNCHANGED <<lnRx, notified>>
  \/ /\ m.op = "RQ" /\ Mode = "PASSIVE"
     /\ lnRx' = Append(lnRx, RdMsg("RD", m.slot, bus[m.slot].addr, bus[m.slot].val))
     /\ notified' = TRUE
     /\ UNCHANGED bus
  \/ /\ m.op = "LACK" \/ (m.op = "RD" /\ Mode # "ACTIVE") \/ (m.op = "RQ" /\ Mode # "PASSIVE")
     /\ UNCHANGED <<bus, lnRx, notified>>

\* DoBlockingSend()
DoBlockingSend ==
  /\ ConsoleRuns
  /\ console.at = 0
  /\ lnTx # <<>>
  /\ BusHears(Head(lnTx))
  /\ lnTx' = Tail(lnTx)
  /\ UNCHANGED <<pc, slots, inDispatch, db, overrun, console, canRx, can, ops, asked>>

Another(i)   == i \in Inputs /\ ops < MaxOps /\ ops' = ops + 1 /\ ~overrun
Input(i)     == Another(i) /\ UNCHANGED asked
Asks(who, a) == asked' = asked \cup who \cup (IF a = 0 THEN {"zero"} ELSE {})

\* run_ln_slot_server_dispatch(): markAddressForDispatch() starts its search.
Dispatch(a) ==
  /\ ConsoleRuns
  /\ console.at = 0
  /\ Another("DISPATCH") /\ Asks({"console"}, a)
  /\ console' = [at |-> 1, addr |-> a, free |-> NoSlot]
  /\ UNCHANGED <<taskVars, lnTx, lnRx, canRx, can, bus>>

\* One round of the loop of findOrAllocateSlotForAddress().
DispatchSearch ==
  /\ ConsoleRuns
  /\ console.at \in Slot
  /\ LET s == console.at
     IN  IF slots[s].addr = console.addr
         THEN console' = [console EXCEPT !.at = 0] /\ inDispatch' = s
         ELSE /\ console' = [console EXCEPT !.at = @ + 1,
                   !.free = IF @ = NoSlot /\ ~slots[s].inUse THEN s ELSE @]
              /\ UNCHANGED inDispatch
  /\ UNCHANGED <<pc, notified, slots, db, overrun, lnTx, busVars>>

\* Mutant: the free slot is dispatched as it is.
DispatchNewUninitialised ==
  /\ ConsoleRuns
  /\ console.at = NumSlots + 1
  /\ IF console.free = NoSlot
     THEN overrun' = TRUE /\ UNCHANGED inDispatch
     ELSE inDispatch' = console.free /\ UNCHANGED overrun
  /\ console' = [console EXCEPT !.at = 0]
  /\ UNCHANGED <<pc, notified, slots, db, lnTx, busVars>>

\* initializeSlot() of the free slot the search found, and its dispatch.
DispatchNew ==
  /\ ConsoleRuns
  /\ console.at = NumSlots + 1
  /\ IF console.free = NoSlot
     THEN overrun' = TRUE /\ UNCHANGED <<slots, inDispatch>>
     ELSE /\ slots' = [slots EXCEPT ![console.free] = initializeSlot(console.addr)]
          /\ inDispatch' = console.free
          /\ UNCHANGED overrun
  /\ console' = [console EXCEPT !.at = 0]
  /\ UNCHANGED <<pc, notified, db, lnTx, busVars>>

ConsoleTask == DoBlockingSend \/ DispatchSearch \/ DispatchNew

-----------------------------------------------------------------------------
(***************************************************************************)
(* The devices on the buses.  Every message wakes the RoutingTask.         *)
(***************************************************************************)
Hear(ms) ==
  /\ lnRx' = lnRx \o ms
  /\ notified' = TRUE
  /\ UNCHANGED <<pc, slots, inDispatch, db, overrun, lnTx, console, canRx, can>>

Receive(f) ==
  /\ canRx' = Append(canRx, f)
  /\ notified' = TRUE
  /\ UNCHANGED <<pc, slots, inDispatch, db, overrun, lnTx, console, lnRx, bus>>

Held == {s \in Slot : bus[s].addr # 0}

\* A device that asks for address 0 is given a slot that nobody holds.
GivenForZero == IF "zero" \in asked THEN {s \in Slot : bus[s].addr = 0} ELSE {}

\* In every mode but ACTIVE there is a LocoNet master, which answers.
MasterSays(s) ==
  IF Mode = "ACTIVE" THEN <<>> ELSE <<RdMsg("RD", s, bus[s].addr, bus[s].val)>>

\* A throttle changes the speed, the direction or a function.
ThrottleSets(s, g, x) ==
  /\ Input(g)
  /\ \E v \in (IF x = "speed" THEN Steps ELSE {0, 1}) \ {bus[s].val[x]} :
       bus' = [bus EXCEPT ![s].val[x] = v]
  /\ Hear(<<SetMsg(g, s, bus'[s].val)>>)

\* A throttle asks for an engine.  Without a gateway in ACTIVE mode the master
\* answers with its slot, or with a free slot that it assigns.
ThrottleAsks(a) ==
  /\ Another("ADR") /\ Asks({}, a)
  /\ LET ask == [op |-> "ADR", addr |-> a]
         has == {s \in Slot : bus[s].addr = a}
     IN  \/ /\ Mode = "ACTIVE"
            /\ Hear(<<ask>>)
            /\ UNCHANGED bus
         \/ /\ Mode # "ACTIVE"
            /\ \E s \in IF has # {} THEN has ELSE {r \in Slot : bus[r].addr = 0} :
                 /\ bus' = [bus EXCEPT ![s] = IF @.addr = a THEN @ ELSE [addr |-> a, val |-> Blank]]
                 /\ Hear(<<ask, RdMsg("RD", s, a, bus'[s].val)>>)

\* A device asks what is in a slot.
ThrottleReads(s) ==
  /\ Input("RQ")
  /\ Hear(<<RqMsg(s)>> \o MasterSays(s))
  /\ UNCHANGED bus

\* A throttle writes back the slot it holds.
ThrottleWrites(s) ==
  /\ Input("WR")
  /\ Hear(<<RdMsg("WR", s, bus[s].addr, bus[s].val)>>)
  /\ UNCHANGED bus

MoveMsg(src, dst) == [op |-> "MOVE", slot |-> src, dst |-> dst]
Unassigned == [addr |-> 0, val |-> Blank]

\* A throttle moves its engine to another slot, or to the same.
ThrottleMoves(src, dst) ==
  /\ Input("MOVE")
  /\ bus' = IF src = dst THEN bus ELSE [bus EXCEPT ![dst] = bus[src], ![src] = Unassigned]
  /\ Hear(<<MoveMsg(src, dst)>>)

\* It asks for the dispatched engine, or dispatches its own.
ThrottleGets ==
  /\ Input("GET")
  /\ Hear(<<MoveMsg(0, 0)>>)
  /\ UNCHANGED bus

ThrottlePuts(s) ==
  /\ Input("PUT")
  /\ Hear(<<MoveMsg(s, 0)>>)
  /\ UNCHANGED bus

\* An engine is controlled on CAN: one attribute, its direction turned, all stopped.
CentralSets(a, x) ==
  /\ Input(x)
  /\ \E v \in (IF x = "speed" THEN Velocities ELSE {0, 1}) \ {can[a][x]} :
       can' = [can EXCEPT ![a][x] = v]
  /\ Receive(SetFrame(a, x, can'[a][x]))

CentralTurns(a) ==
  /\ Input("TURN")
  /\ can' = [can EXCEPT ![a]["dir"] = Flip(@)]
  /\ Receive([kind |-> "turn", addr |-> a])

CentralStops ==
  /\ Input("STOP")
  /\ can' = [a \in Known |-> [can[a] EXCEPT !["speed"] = 0]]
  /\ Receive([kind |-> "stop"])

Devices ==
  \/ \E s \in Held, g \in DOMAIN Carries : \E x \in Carries[g] : ThrottleSets(s, g, x)
  \/ \E a \in Addr : ThrottleAsks(a)
  \/ \E s \in Slot : ThrottleReads(s)
  \/ \E s \in Held : ThrottleWrites(s)
  \/ \E src \in Held, dst \in Slot : ThrottleMoves(src, dst)
  \/ ThrottleGets
  \/ \E s \in Held \cup GivenForZero : ThrottlePuts(s)
  \/ \E a \in Known, x \in Attr : CentralSets(a, x)
  \/ \E a \in Known : CentralTurns(a)
  \/ CentralStops

-----------------------------------------------------------------------------
\* The slots the master has assigned, as the throttles know them.
InitBus == [s \in Slot |-> [addr |-> IF s \in DOMAIN Assigned THEN Assigned[s] ELSE 0,
                            val |-> Blank]]

Init ==
  /\ pc = "blocked"
  /\ notified = FALSE
  /\ slots = [s \in Slot |-> Cleared]
  /\ inDispatch = NoSlot
  /\ db = [a \in Known |-> [val |-> Blank, diff |-> {}]]
  /\ overrun = FALSE
  /\ lnTx = <<>>
  /\ console = [at |-> 0, addr |-> 0, free |-> NoSlot]
  /\ lnRx = <<>>
  /\ canRx = <<>>
  /\ can = [a \in Known |-> Blank]
  /\ bus = InitBus
  /\ ops = 0 /\ asked = {}

\* The state in which the master has reported every slot it assigned.
Learned ==
  [s \in Slot |-> IF s \in DOMAIN Assigned
                  THEN [Cleared EXCEPT !.inUse = TRUE, !.addr = Assigned[s],
                                       !.uid = MM2Uid(Assigned[s]), !.match = TRUE]
                  ELSE Cleared]

LearnedInit ==
  /\ pc = "blocked" /\ notified = FALSE
  /\ slots = Learned /\ inDispatch = NoSlot
  /\ db = [a \in Known |-> [val |-> Blank, diff |-> {}]]
  /\ overrun = FALSE
  /\ lnTx = <<>> /\ console = [at |-> 0, addr |-> 0, free |-> NoSlot]
  /\ lnRx = <<>> /\ canRx = <<>>
  /\ can = [a \in Known |-> Blank]
  /\ bus = InitBus
  /\ ops = 0 /\ asked = {}

Next ==
  \/ RoutingTask
  \/ ConsoleTask
  \/ \E a \in Addr : Dispatch(a)
  \/ Devices

Spec        == Init /\ [][Next]_vars
LearnedSpec == LearnedInit /\ [][Next]_vars

\* Both tasks go on when they can run; nobody is obliged to touch a throttle.
Fairness == WF_vars(RoutingTask) /\ WF_vars(ConsoleTask)

FairSpec        == Spec /\ Fairness
FairLearnedSpec == LearnedSpec /\ Fairness

-----------------------------------------------------------------------------
(***************************************************************************)
(* Properties.                                                             *)
(***************************************************************************)
Uid == {NoUid} \cup {MM2Uid(a) : a \in Addr \cup {0}} \cup {CanUid(a) : a \in Addr}

SlotEntry == [inUse : BOOLEAN, addr : Addr \cup {0}, uid : Uid, val : [Attr -> Value],
              diff : SUBSET Attr, match : BOOLEAN]

SetMessages(g) == [op : {g}, slot : Slot, val : [Carries[g] -> Value]]
SlotMessages   == [op : {"RD", "WR"}, slot : Slot, addr : Addr \cup {0},
                   val : [SlotData -> Value]]
LnMessage ==
  SetMessages("SPD") \cup SetMessages("DIRF") \cup SetMessages("SND2")
    \cup SlotMessages
    \cup [op : {"RQ"}, slot : Slot]
    \cup [op : {"MOVE"}, slot : Slot \cup {0}, dst : Slot \cup {0}]
    \cup [op : {"ADR"}, addr : Addr]
    \cup [op : {"LACK"}]

CanFrame ==
  [kind : {"set"}, addr : Known, attr : Attr, v : Value]
    \cup [kind : {"turn"}, addr : Known] \cup [kind : {"stop"}]

\* The types of the state, and that the transmit queue keeps its limit.
TypeOK ==
  /\ pc \in {"blocked", "can", "forward", "ln", "match"}
  /\ notified \in BOOLEAN
  /\ slots \in [Slot -> SlotEntry]
  /\ inDispatch \in Slot \cup {NoSlot}
  /\ db \in [Known -> [val : [Attr -> Value], diff : SUBSET Attr]]
  /\ overrun \in BOOLEAN
  /\ lnTx \in Seq(LnMessage) /\ Len(lnTx) <= LnDepth
  /\ console \in [at : 0..(NumSlots + 1), addr : Addr \cup {0}, free : Slot \cup {NoSlot}]
  /\ lnRx \in Seq(LnMessage)
  /\ canRx \in Seq(CanFrame)
  /\ can \in [Known -> [Attr -> Value]]
  /\ bus \in [Slot -> [addr : Addr \cup {0}, val : [Attr -> Value]]]
  /\ ops \in 0..MaxOps
  /\ asked \subseteq {"console", "zero"}

Settled ==
  /\ pc = "blocked" /\ ~notified /\ ~overrun
  /\ lnTx = <<>> /\ console.at = 0

Agree == \A s \in Held : bus[s].addr \in Known => bus[s].val = ShownOnLn(can[bus[s].addr])

\* When both sides have been told everything, a throttle shows for the engine
\* in its slot what the CAN central shows, in the steps of LocoNet, whatever was
\* changed on either side and in whatever order the changes crossed.
Converged == Settled => Agree

\* The echo of a change does not circulate: once nobody touches a control any
\* more, both buses come to rest and agree.
EventuallyAgree == <>[](Settled /\ Agree)

\* The task never waits without a notification while a message of either bus
\* is in its queue, although its loop looks at each queue only once.
QueuesServed == pc = "blocked" /\ ~notified => lnRx = <<>> /\ canRx = <<>>

\* A change made on LocoNet has been sent to CAN before the task waits; in
\* ACTIVE mode a change made on CAN has been sent to LocoNet.
NothingPending ==
  pc = "blocked" /\ ~overrun /\ Mode # "DISABLED" =>
    /\ \A s \in Slot : slots[s].diff = {}
    /\ Mode = "ACTIVE" => \A a \in Known : db[a].diff = {}

\* A slot never controls an engine on CAN other than the one of its address,
\* whatever it was assigned to, moved from or matched to before.
UidOfSlot ==
  \A s \in Slot : slots[s].uid \in {NoUid, MM2Uid(slots[s].addr), CanUid(slots[s].addr)}

\* In PASSIVE mode the table of the slot server follows the master: a slot in
\* use holds the engine that the throttle of that slot controls, as soon as
\* every message heard has been handled.
FollowsMaster ==
  Mode = "PASSIVE" /\ lnRx = <<>> =>
    \A s \in Slot : slots[s].inUse => slots[s].addr = bus[s].addr

\* As the master, the slot server assigns an engine to one slot at a time, as
\* long as nobody dispatches at the console: DispatchNew acts on what its search
\* saw, and the engine may have got a slot since.
UniqueSlot ==
  Mode = "ACTIVE" /\ "console" \notin asked =>
    \A s, r \in Slot :
      slots[s].inUse /\ slots[r].inUse /\ slots[s].addr = slots[r].addr => s = r

\* A slot in use keeps its engine, except through a move or a write of a slot
\* that another device asks for, and through the console, whose search for a
\* free slot is not protected from the RoutingTask.
SlotKept ==
  [][\A s \in Slot :
       slots[s].inUse /\ slots'[s].addr # slots[s].addr =>
         \/ lnRx # <<>> /\ Head(lnRx).op \in {"MOVE", "WR", "RD"}
         \/ console.at = NumSlots + 1 /\ console'.at = 0]_vars

\* The slot that a throttle gets with a dispatch is in use, whether it was offered
\* from the bus or from the console (and not moved away since), as long as nobody
\* has asked for address 0: the search finds this address in a cleared slot.
DispatchNamesEngine ==
  inDispatch # NoSlot /\ "zero" \notin asked => slots[inDispatch].inUse
=============================================================================
