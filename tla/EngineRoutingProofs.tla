------------------------- MODULE EngineRoutingProofs -------------------------
(***************************************************************************)
(* The invariants of EngineRouting for every number of slots, every set of *)
(* engines, every size of the transmit queue and every bound on the        *)
(* inputs, then the dispatch of engines, the engine of a slot, the table   *)
(* that follows the master's, and the two buses that agree at rest.        *)
(***************************************************************************)
EXTENDS EngineRouting, SequenceTheorems, WellFoundedInduction, TLAPS

USE SlotAssumption, EngineAssumption DEF SlotAssumption, EngineAssumption

-----------------------------------------------------------------------------
(***************************************************************************)
(* The units of the speed.                                                 *)
(***************************************************************************)
LEMMA SpeedTypes ==
  /\ \A n \in Nat : lnSpeedToCanVelocity(n) \in Nat /\ canVelocityToLnSpeed(n) \in Nat
  /\ lnSpeedToCanVelocity(0) = 0 /\ canVelocityToLnSpeed(0) = 0
  BY DEF lnSpeedToCanVelocity, canVelocityToLnSpeed, kMaxEngineVelocity, kLocoNetMaxVeloctiy

\* A speed of LocoNet that was converted to a velocity of CAN is the same step
\* when it is converted back, although both divisions round.
THEOREM SpeedReturns ==
  \A n \in Nat : canVelocityToLnSpeed(lnSpeedToCanVelocity(n)) = n
<1> SUFFICES ASSUME NEW n \in Nat
             PROVE  canVelocityToLnSpeed(lnSpeedToCanVelocity(n)) = n
  OBVIOUS
<1> DEFINE a == ((n * 10) * 1000) \div 127
           v == (a + 5) \div 10
           b == ((v * 10) * 127) \div 1000
<1>1. a \in Nat /\ 127 * a <= 10000 * n /\ 10000 * n < 127 * a + 127
  OBVIOUS
<1>2. v \in Nat /\ 10 * v <= a + 5 /\ a + 5 < 10 * v + 10
  BY <1>1
<1>3. b \in Nat /\ 1000 * b <= 1270 * v /\ 1270 * v < 1000 * b + 1000
  BY <1>2
<1>4. lnSpeedToCanVelocity(n) = v
  BY DEF lnSpeedToCanVelocity, kMaxEngineVelocity, kLocoNetMaxVeloctiy
<1>5. canVelocityToLnSpeed(v) = (b + 5) \div 10
  BY DEF canVelocityToLnSpeed, kMaxEngineVelocity, kLocoNetMaxVeloctiy
<1> HIDE DEF a, v, b
<1>6. b + 5 >= 10 * n /\ b + 5 < 10 * n + 10
  BY <1>1, <1>2, <1>3
<1>7. (b + 5) \div 10 = n
  BY <1>3, <1>6
<1> QED
  BY <1>4, <1>5, <1>7

\* The same for any attribute, and for the whole state of an engine.
LEMMA Units ==
  /\ \A x \in Attr, n \in Value :
       /\ OnCan(x, n) \in Value /\ OnLn(x, n) \in Value
       /\ OnLn(x, OnCan(x, n)) = n
       /\ x # "speed" => OnCan(x, n) = n /\ OnLn(x, n) = n
  /\ \A x \in Attr : OnCan(x, 0) = 0 /\ OnLn(x, 0) = 0
  BY SpeedTypes, SpeedReturns DEF OnCan, OnLn, Value

LEMMA Shown ==
  ASSUME NEW w \in [Attr -> Value]
  PROVE  /\ ShownOnLn(w) \in [Attr -> Value]
         /\ \A x \in Attr : ShownOnLn(w)[x] = OnLn(x, w[x])
<1>1. \A x \in Attr : OnLn(x, w[x]) \in Value
  BY Units
<1> QED
  BY <1>1 DEF ShownOnLn

LEMMA FlipType == \A n \in Value : Flip(n) \in Value
  BY DEF Flip, Value

-----------------------------------------------------------------------------
(***************************************************************************)
(* The operators of the slot server.                                       *)
(***************************************************************************)
\* First() finds an element of a set of slots that has one.
LEMMA FirstFound ==
  ASSUME NEW S \in SUBSET Slot
  PROVE  /\ First(S) \in S \cup {NoSlot}
         /\ S # {} => First(S) \in S
<1>1. CASE S = {}
  BY <1>1 DEF First
<1>2. CASE S # {}
  <2> DEFINE R == OpToRel(<, Nat)
  <2>1. S \subseteq Nat
    BY DEF Slot
  <2>2. ASSUME NEW r \in Nat, NEW s \in Nat, r < s
        PROVE  <<r, s>> \in R
    BY <2>2, Zenon DEF OpToRel
  <2>3. IsWellFoundedOn(R, Nat)
    BY NatLessThanWellFounded
  <2> HIDE DEF R
  <2>4. PICK s \in S : \A r \in S : ~ (<<r, s>> \in R)
    BY <1>2, <2>1, <2>3, WFMin
  <2>5. ASSUME NEW r \in S
        PROVE  s <= r
    <3>1. r \in Nat /\ s \in Nat
      BY <2>1
    <3>2. ~ (r < s)
      BY <2>2, <2>4, <3>1, Zenon
    <3> QED
      BY <3>1, <3>2
  <2> QED
    BY <1>2, <2>5 DEF First
<1> QED
  BY <1>1, <1>2

\* A slot found for an address holds this address; if none is found, none does.
LEMMA AllocateFinds ==
  ASSUME slots \in [Slot -> SlotEntry], NEW a \in Addr
  PROVE  /\ findOrAllocate(a).slot \in Slot \cup {NoSlot}
         /\ findOrAllocate(a).new \in BOOLEAN
         /\ findOrAllocate(a).slot # NoSlot /\ ~findOrAllocate(a).new
              => slots[findOrAllocate(a).slot].addr = a
         /\ findOrAllocate(a).new
              => /\ \A s \in Slot : slots[s].addr # a
                 /\ findOrAllocate(a).slot # NoSlot => ~slots[findOrAllocate(a).slot].inUse
<1> DEFINE same == {s \in Slot : slots[s].addr = a}
           free == {s \in Slot : ~slots[s].inUse}
<1>1. same \in SUBSET Slot /\ free \in SUBSET Slot /\ NoSlot \notin Slot
  BY DEF Slot, NoSlot
<1>2. /\ First(same) \in same \cup {NoSlot} /\ (same # {} => First(same) \in same)
      /\ First(free) \in free \cup {NoSlot}
  BY <1>1, FirstFound
<1>3. findOrAllocate(a) = IF First(same) # NoSlot
                          THEN [slot |-> First(same), new |-> FALSE]
                          ELSE [slot |-> First(free), new |-> TRUE]
  BY DEF findOrAllocate
<1> QED
  BY <1>1, <1>2, <1>3

\* A fresh slot and a cleared one are entries of the table.
LEMMA EntryTypes ==
  /\ Blank \in [Attr -> Value]
  /\ Cleared \in SlotEntry
  /\ \A a \in Addr \cup {0} : initializeSlot(a) \in SlotEntry
  BY DEF Blank, Value, Cleared, SlotEntry, initializeSlot, Uid

LEMMA EntryUpdates ==
  ASSUME NEW e \in SlotEntry
  PROVE  /\ e.addr \in Addr \cup {0} /\ e.val \in [Attr -> Value]
         /\ e.diff \in SUBSET Attr /\ e.uid \in Uid
         /\ \A v \in [Attr -> Value] : [e EXCEPT !.val = v] \in SlotEntry
         /\ \A d \in SUBSET Attr : [e EXCEPT !.diff = d] \in SlotEntry
         /\ \A v \in [Attr -> Value], d \in SUBSET Attr :
              [e EXCEPT !.val = v, !.diff = d] \in SlotEntry
         /\ \A d \in SUBSET Attr, u \in Uid : [e EXCEPT !.diff = d, !.uid = u] \in SlotEntry
  BY DEF SlotEntry

LEMMA AllocatedType ==
  ASSUME slots \in [Slot -> SlotEntry], NEW a \in Addr
  PROVE  Allocated(a) \in [Slot -> SlotEntry]
  BY EntryTypes, AllocateFinds DEF Allocated

-----------------------------------------------------------------------------
(***************************************************************************)
(* Messages.                                                               *)
(***************************************************************************)
LEMMA MessageFields ==
  ASSUME NEW q \in LnMessage
  PROVE  /\ \A g \in {"SPD", "DIRF", "SND2"} :
              q.op = g => q.slot \in Slot /\ q.val \in [Carries[g] -> Value]
         /\ q.op \in {"RD", "WR"} =>
              q.slot \in Slot /\ q.addr \in Addr \cup {0} /\ q.val \in [SlotData -> Value]
         /\ q.op = "RQ" => q.slot \in Slot
         /\ q.op = "MOVE" => q.slot \in Slot \cup {0} /\ q.dst \in Slot \cup {0}
         /\ q.op = "ADR" => q.addr \in Addr
  BY DEF LnMessage, SetMessages, SlotMessages

LEMMA MessageTypes ==
  /\ \A g \in {"SPD", "DIRF", "SND2"}, s \in Slot, v \in [Attr -> Value] :
       SetMsg(g, s, v) \in LnMessage
  /\ \A op \in {"RD", "WR"}, s \in Slot, a \in Addr \cup {0}, v \in [Attr -> Value] :
       RdMsg(op, s, a, v) \in LnMessage
  /\ \A s \in Slot : RqMsg(s) \in LnMessage
  /\ LongAck \in LnMessage
<1>1. \A g \in {"SPD", "DIRF", "SND2"} : Carries[g] \subseteq Attr
  BY DEF Carries, Attr
<1>2. SlotData \subseteq Attr
  BY DEF SlotData, Attr
<1>3. ASSUME NEW g \in {"SPD", "DIRF", "SND2"}, NEW s \in Slot, NEW v \in [Attr -> Value]
      PROVE  SetMsg(g, s, v) \in SetMessages(g)
  BY <1>1 DEF SetMsg, SetMessages
<1>4. ASSUME NEW op \in {"RD", "WR"}, NEW s \in Slot, NEW a \in Addr \cup {0},
             NEW v \in [Attr -> Value]
      PROVE  RdMsg(op, s, a, v) \in SlotMessages
  BY <1>2 DEF RdMsg, SlotMessages
<1> QED
  BY <1>3, <1>4 DEF LnMessage, RqMsg, LongAck

\* A full queue stays as it is.
LEMMA AsyncSendType ==
  ASSUME NEW q \in Seq(LnMessage), Len(q) <= LnDepth, NEW e \in LnMessage
  PROVE  AsyncSend(q, e) \in Seq(LnMessage) /\ Len(AsyncSend(q, e)) <= LnDepth
  BY DEF AsyncSend

LEMMA SendChangesType ==
  ASSUME NEW q \in Seq(LnMessage), Len(q) <= LnDepth, NEW s \in Slot,
         NEW e, e.val \in [Attr -> Value]
  PROVE  SendChanges(q, s, e) \in Seq(LnMessage) /\ Len(SendChanges(q, s, e)) <= LnDepth
<1> DEFINE one(r, g) == IF Carries[g] \cap e.diff # {} THEN AsyncSend(r, SetMsg(g, s, ShownOnLn(e.val)))
                                                      ELSE r
<1>0. ShownOnLn(e.val) \in [Attr -> Value]
  BY Shown
<1>1. ASSUME NEW r \in Seq(LnMessage), Len(r) <= LnDepth, NEW g \in {"SPD", "DIRF", "SND2"}
      PROVE  one(r, g) \in Seq(LnMessage) /\ Len(one(r, g)) <= LnDepth
  BY <1>0, <1>1, AsyncSendType, MessageTypes
<1>2. SendChanges(q, s, e) = one(one(one(q, "SPD"), "DIRF"), "SND2")
  BY DEF SendChanges
<1> HIDE DEF one
<1>3. one(q, "SPD") \in Seq(LnMessage) /\ Len(one(q, "SPD")) <= LnDepth
  BY <1>1
<1>4. one(one(q, "SPD"), "DIRF") \in Seq(LnMessage) /\ Len(one(one(q, "SPD"), "DIRF")) <= LnDepth
  BY <1>1, <1>3
<1> QED
  BY <1>1, <1>2, <1>4

LEMMA FramesType ==
  ASSUME NEW a \in Known, NEW e, e.val \in [Attr -> Value]
  PROVE  Frames(a, e) \in Seq(CanFrame)
<1> DEFINE one(r, x) == IF x \in e.diff THEN Append(r, SetFrame(a, x, e.val[x])) ELSE r
<1>1. ASSUME NEW r \in Seq(CanFrame), NEW x \in Attr
      PROVE  one(r, x) \in Seq(CanFrame)
  <2>1. SetFrame(a, x, e.val[x]) \in CanFrame
    BY DEF SetFrame, CanFrame
  <2> QED
    BY <2>1
<1>2. Frames(a, e) = one(one(one(one(<<>>, "speed"), "dir"), "f0"), "f9")
  BY DEF Frames
<1>3. <<>> \in Seq(CanFrame) /\ {"speed", "dir", "f0", "f9"} = Attr
  BY DEF Attr
<1> HIDE DEF one
<1>4. one(<<>>, "speed") \in Seq(CanFrame)
  BY <1>1, <1>3
<1>5. one(one(<<>>, "speed"), "dir") \in Seq(CanFrame)
  BY <1>1, <1>3, <1>4
<1>6. one(one(one(<<>>, "speed"), "dir"), "f0") \in Seq(CanFrame)
  BY <1>1, <1>3, <1>5
<1> QED
  BY <1>1, <1>2, <1>3, <1>6

-----------------------------------------------------------------------------
(***************************************************************************)
(* The types, one lemma for each part of the next-state relation.          *)
(***************************************************************************)
\* The steps of the loop that move on to its next part.
LEMMA PhaseType ==
  ASSUME TypeOK, Wake \/ CanDone \/ ForwardDone \/ LnDone \/ MatchDone
  PROVE  TypeOK'
  BY DEF TypeOK, Wake, CanDone, ForwardDone, LnDone, MatchDone, busVars, At

\* A received frame keeps the entries of the database well formed.
LEMMA HandleCanType ==
  ASSUME TypeOK, HandleCan
  PROVE  TypeOK'
<1> DEFINE f == Head(canRx)
<1>1. f \in CanFrame /\ canRx' \in Seq(CanFrame)
  BY DEF TypeOK, HandleCan
<1>2. ASSUME NEW a \in Known, NEW x \in Attr, NEW v \in Value
      PROVE  /\ Updated(db[a], x, v) \in [val : [Attr -> Value], diff : SUBSET Attr]
             /\ Turned(db[a]) \in [val : [Attr -> Value], diff : SUBSET Attr]
  <2>1. db[a].val \in [Attr -> Value] /\ db[a].diff \in SUBSET Attr
        /\ db[a] \in [val : [Attr -> Value], diff : SUBSET Attr]
    BY DEF TypeOK
  <2>2. "dir" \in Attr
    BY DEF Attr
  <2>3. [db[a].val EXCEPT !["dir"] = Flip(@)] \in [Attr -> Value]
    BY <2>1, <2>2, FlipType
  <2> QED
    BY <2>1, <2>2, <2>3 DEF Updated, Turned
<1>3. "speed" \in Attr /\ 0 \in Value
  BY DEF Attr, Value
<1>4. f.kind = "set" => f.attr \in Attr /\ f.v \in Value
  BY <1>1 DEF CanFrame
<1>5. db' \in [Known -> [val : [Attr -> Value], diff : SUBSET Attr]]
  <2> DEFINE E(a) == CASE f.kind = "stop"              -> Updated(db[a], "speed", 0)
                       [] f.kind = "set" /\ f.addr = a   -> Updated(db[a], f.attr, f.v)
                       [] f.kind = "turn" /\ f.addr = a  -> Turned(db[a])
                       [] OTHER                          -> db[a]
  <2>1. db' = [a \in Known |-> E(a)]
    BY DEF HandleCan
  <2>2. ASSUME NEW a \in Known
        PROVE  E(a) \in [val : [Attr -> Value], diff : SUBSET Attr]
    <3>1. db[a] \in [val : [Attr -> Value], diff : SUBSET Attr]
      BY DEF TypeOK
    <3>2. Updated(db[a], "speed", 0) \in [val : [Attr -> Value], diff : SUBSET Attr]
      BY <1>2, <1>3
    <3>3. Turned(db[a]) \in [val : [Attr -> Value], diff : SUBSET Attr]
      BY <1>2, <1>3
    <3>4. f.kind = "set" =>
            Updated(db[a], f.attr, f.v) \in [val : [Attr -> Value], diff : SUBSET Attr]
      BY <1>2, <1>4
    <3> QED
      BY <3>1, <3>2, <3>3, <3>4
  <2> HIDE DEF E
  <2> QED
    BY <2>1, <2>2
<1> QED
  BY <1>1, <1>5 DEF TypeOK, HandleCan

\* The slot that takes over the changes is an entry of the table.
LEMMA ForwardLocoChangeType ==
  ASSUME TypeOK, NEW a \in Known, ForwardLocoChange(a)
  PROVE  TypeOK'
<1> DEFINE s == IF Mode = "ACTIVE" THEN findOrAllocate(a).slot ELSE findSlotForAddress(a)
           t == IF Mode = "ACTIVE" THEN Allocated(a) ELSE slots
           v == [x \in Attr |-> IF x \in db[a].diff /\ x # "f9" THEN db[a].val[x] ELSE t[s].val[x]]
<1>1. slots \in [Slot -> SlotEntry] /\ a \in Addr
  BY DEF TypeOK
<1>2. s \in Slot \cup {NoSlot}
  <2>1. findSlotForAddress(a) \in Slot \cup {NoSlot}
    BY FirstFound DEF findSlotForAddress
  <2> QED
    BY <1>1, <2>1, AllocateFinds
<1>3. t \in [Slot -> SlotEntry]
  BY <1>1, AllocatedType
<1>4. CASE s = NoSlot
  BY <1>4 DEF TypeOK, ForwardLocoChange, busVars
<1>5. CASE s # NoSlot
  <2>1. s \in Slot
    BY <1>2, <1>5
  <2>2. db[a] \in [val : [Attr -> Value], diff : SUBSET Attr]
    BY DEF TypeOK
  <2>3. v \in [Attr -> Value]
    BY <1>3, <2>1, <2>2 DEF SlotEntry
  <2>4. /\ slots' = [t EXCEPT ![s].val = v]
        /\ lnTx' = SendChanges(lnTx, s, db[a])
        /\ db' = [db EXCEPT ![a].diff = {}]
    BY <1>5 DEF ForwardLocoChange
  <2>5. slots' \in [Slot -> SlotEntry]
    <3>1. [t[s] EXCEPT !.val = v] \in SlotEntry
      <4> HIDE DEF v, t, s
      <4> QED
        BY <1>3, <2>1, <2>3, EntryUpdates
    <3> QED
      BY <1>3, <2>1, <2>4, <3>1
  <2>6. lnTx' \in Seq(LnMessage) /\ Len(lnTx') <= LnDepth
    BY <2>1, <2>2, <2>4, SendChangesType DEF TypeOK
  <2>7. db' \in [Known -> [val : [Attr -> Value], diff : SUBSET Attr]]
    BY <2>2, <2>4 DEF TypeOK
  <2>8. UNCHANGED <<pc, notified, inDispatch, overrun, console, lnRx, canRx, can, bus, ops, asked>>
    BY <1>5 DEF ForwardLocoChange, busVars
  <2> QED
    BY <2>5, <2>6, <2>7, <2>8 DEF TypeOK
<1> QED
  BY <1>4, <1>5

\* What the task does with any message it hears.
LEMMA HeardType ==
  ASSUME TypeOK, lnRx # <<>>, LnHandled
  PROVE  /\ Heard \in LnMessage
         /\ lnRx' \in Seq(LnMessage)
         /\ UNCHANGED <<pc, notified, console, db, canRx, can, bus, ops, asked>>
  BY DEF TypeOK, Heard, LnHandled

LEMMA RequestedType ==
  ASSUME TypeOK, NEW s \in Slot
  PROVE  /\ EntryOf(s) \in SlotEntry
         /\ Requested(s) \in Seq(LnMessage) /\ Len(Requested(s)) <= LnDepth
<1>1. slots[s] \in SlotEntry
  BY DEF TypeOK
<1>2. EntryOf(s) \in SlotEntry
  BY <1>1, EntryUpdates DEF EntryOf
<1>3. lnTx \in Seq(LnMessage) /\ Len(lnTx) <= LnDepth /\ RqMsg(s) \in LnMessage
  BY MessageTypes DEF TypeOK
<1>4. AsyncSend(lnTx, RqMsg(s)) \in Seq(LnMessage) /\ Len(AsyncSend(lnTx, RqMsg(s))) <= LnDepth
  BY <1>3, AsyncSendType
<1> QED
  BY <1>2, <1>3, <1>4 DEF Requested

LEMMA processLocoSpeedType ==
  ASSUME TypeOK, processLocoSpeed
  PROVE  TypeOK'
<1> DEFINE s == Heard.slot
           e == EntryOf(s)
           v == [e.val EXCEPT !["speed"] = lnSpeedToCanVelocity(Heard.val["speed"])]
<1>1. lnRx # <<>> /\ LnHandled /\ Heard.op = "SPD"
  BY DEF processLocoSpeed, Hears, Heard
<1>2. s \in Slot /\ Heard.val \in [Carries["SPD"] -> Value]
  BY <1>1, HeardType, MessageFields
<1>3. lnSpeedToCanVelocity(Heard.val["speed"]) \in Value /\ "speed" \in Attr
  BY <1>2, SpeedTypes DEF Carries, Attr, Value
<1>4. e \in SlotEntry /\ e.val \in [Attr -> Value] /\ e.diff \in SUBSET Attr
  BY <1>2, RequestedType, EntryUpdates
<1>5. v \in [Attr -> Value] /\ e.diff \cup {"speed"} \in SUBSET Attr
  BY <1>3, <1>4
<1>6. slots' = [slots EXCEPT ![s] = [e EXCEPT !.val = v, !.diff = e.diff \cup {"speed"}]]
      /\ lnTx' = Requested(s)
      /\ UNCHANGED <<inDispatch, overrun>>
  BY DEF processLocoSpeed
<1>7. [e EXCEPT !.val = v, !.diff = e.diff \cup {"speed"}] \in SlotEntry
  <2> HIDE DEF e, v, s
  <2> QED
    BY <1>4, <1>5, EntryUpdates
<1> HIDE DEF e, v, s
<1>8. slots' \in [Slot -> SlotEntry]
  BY <1>2, <1>6, <1>7 DEF TypeOK
<1>9. lnTx' \in Seq(LnMessage) /\ Len(lnTx') <= LnDepth
  BY <1>2, <1>6, RequestedType
<1> QED
  BY <1>1, <1>6, <1>8, <1>9, HeardType DEF TypeOK

LEMMA processLocoFunctionsType ==
  ASSUME TypeOK, processLocoFunctions
  PROVE  TypeOK'
<1> DEFINE s == Heard.slot
           e == EntryOf(s)
<1>1. PICK g \in {"DIRF", "SND2"} :
        /\ Hears(g)
        /\ slots' = [slots EXCEPT ![s] =
             [e EXCEPT !.val = [x \in Attr |-> IF x \in Carries[g] THEN Heard.val[x] ELSE e.val[x]],
                       !.diff = e.diff \cup {x \in Carries[g] : Heard.val[x] # e.val[x]}]]
        /\ lnTx' = Requested(s)
        /\ LnHandled
        /\ UNCHANGED <<inDispatch, overrun>>
  BY DEF processLocoFunctions
<1> DEFINE v == [x \in Attr |-> IF x \in Carries[g] THEN Heard.val[x] ELSE e.val[x]]
           d == e.diff \cup {x \in Carries[g] : Heard.val[x] # e.val[x]}
<1>2. lnRx # <<>> /\ LnHandled /\ Heard.op = g
  BY <1>1 DEF Hears, Heard
<1>3. s \in Slot /\ Heard.val \in [Carries[g] -> Value]
  BY <1>2, HeardType, MessageFields
<1>4. e \in SlotEntry /\ e.val \in [Attr -> Value] /\ e.diff \in SUBSET Attr
  BY <1>3, RequestedType, EntryUpdates
<1>5. Carries[g] \subseteq Attr
  BY DEF Carries, Attr
<1>6. v \in [Attr -> Value] /\ d \in SUBSET Attr
  BY <1>3, <1>4, <1>5
<1>7. slots' = [slots EXCEPT ![s] = [e EXCEPT !.val = v, !.diff = d]]
  BY <1>1
<1>8. [e EXCEPT !.val = v, !.diff = d] \in SlotEntry
  <2> HIDE DEF e, v, d, s
  <2> QED
    BY <1>4, <1>6, EntryUpdates
<1> HIDE DEF e, v, d, s
<1>9. slots' \in [Slot -> SlotEntry]
  BY <1>3, <1>7, <1>8 DEF TypeOK
<1>10. lnTx' \in Seq(LnMessage) /\ Len(lnTx') <= LnDepth
  BY <1>1, <1>3, RequestedType
<1> QED
  BY <1>1, <1>2, <1>9, <1>10, HeardType DEF TypeOK

\* An answer with the data of a slot.
LEMMA AnswerType ==
  ASSUME TypeOK, NEW t \in [Slot -> SlotEntry], NEW s \in Slot
  PROVE  /\ AsyncSend(lnTx, RdMsg("RD", s, t[s].addr, ShownOnLn(t[s].val))) \in Seq(LnMessage)
         /\ Len(AsyncSend(lnTx, RdMsg("RD", s, t[s].addr, ShownOnLn(t[s].val)))) <= LnDepth
<1>1. t[s].addr \in Addr \cup {0} /\ ShownOnLn(t[s].val) \in [Attr -> Value]
  BY EntryUpdates, Shown
<1>2. RdMsg("RD", s, t[s].addr, ShownOnLn(t[s].val)) \in LnMessage
  BY <1>1, MessageTypes
<1> QED
  BY <1>2, AsyncSendType DEF TypeOK

LEMMA AckType ==
  ASSUME TypeOK
  PROVE  AsyncSend(lnTx, LongAck) \in Seq(LnMessage) /\ Len(AsyncSend(lnTx, LongAck)) <= LnDepth
<1>1. LongAck \in LnMessage
  BY MessageTypes
<1> QED
  BY <1>1, AsyncSendType DEF TypeOK

LEMMA processLocoRequestType ==
  ASSUME TypeOK, processLocoRequest
  PROVE  TypeOK'
<1> DEFINE a == Heard.addr
           s == findOrAllocate(a).slot
           t == Allocated(a)
<1>1. lnRx # <<>> /\ LnHandled /\ Heard.op = "ADR" /\ UNCHANGED inDispatch
  BY DEF processLocoRequest, Hears, Heard
<1>2. a \in Addr
  BY <1>1, HeardType, MessageFields
<1>3. s \in Slot \cup {NoSlot} /\ t \in [Slot -> SlotEntry]
  BY <1>2, AllocateFinds, AllocatedType DEF TypeOK
<1>4. \/ UNCHANGED <<slots, lnTx, overrun>>
      \/ overrun' = TRUE /\ UNCHANGED <<slots, lnTx>>
      \/ /\ s # NoSlot /\ slots' = t /\ UNCHANGED overrun
         /\ lnTx' = AsyncSend(lnTx, RdMsg("RD", s, t[s].addr, ShownOnLn(t[s].val)))
  BY DEF processLocoRequest
<1> HIDE DEF s, t
<1>5. /\ slots' \in [Slot -> SlotEntry] /\ overrun' \in BOOLEAN
      /\ lnTx' \in Seq(LnMessage) /\ Len(lnTx') <= LnDepth
  <2> DEFINE q == AsyncSend(lnTx, RdMsg("RD", s, t[s].addr, ShownOnLn(t[s].val)))
  <2>1. s # NoSlot => q \in Seq(LnMessage) /\ Len(q) <= LnDepth
    BY <1>3, AnswerType
  <2> QED
    BY <1>3, <1>4, <2>1 DEF TypeOK
<1> QED
  BY <1>1, <1>5, HeardType DEF TypeOK

LEMMA processRequestSlotReadType ==
  ASSUME TypeOK, processRequestSlotRead
  PROVE  TypeOK'
<1>1. lnRx # <<>> /\ LnHandled /\ Heard.op = "RQ" /\ UNCHANGED <<slots, inDispatch, overrun>>
  BY DEF processRequestSlotRead, Hears, Heard
<1>2. Heard.slot \in Slot
  BY <1>1, HeardType, MessageFields
<1>3. lnTx' \in Seq(LnMessage) /\ Len(lnTx') <= LnDepth
  BY <1>2, AnswerType DEF TypeOK, processRequestSlotRead
<1> QED
  BY <1>1, <1>3, HeardType DEF TypeOK

LEMMA processSlotReadType ==
  ASSUME TypeOK, processSlotRead
  PROVE  TypeOK'
<1> DEFINE s == Heard.slot
           e == [inUse |-> TRUE, addr |-> Heard.addr, uid |-> MM2Uid(Heard.addr),
                 val |-> [x \in Attr |-> IF x \in SlotData THEN OnCan(x, Heard.val[x]) ELSE 0],
                 diff |-> slots[s].diff, match |-> TRUE]
<1>1. /\ lnRx # <<>> /\ LnHandled /\ Heard.op \in {"RD", "WR"}
      /\ slots' = [slots EXCEPT ![s] = e]
      /\ lnTx' \in {lnTx, AsyncSend(lnTx, LongAck)}
      /\ UNCHANGED <<inDispatch, overrun>>
  BY DEF processSlotRead, Hears, Heard
<1>2. s \in Slot /\ Heard.addr \in Addr \cup {0} /\ Heard.val \in [SlotData -> Value]
  BY <1>1, HeardType, MessageFields
<1>3. e \in SlotEntry
  <2>1. slots[s].diff \in SUBSET Attr
    BY <1>2, EntryUpdates DEF TypeOK
  <2>2. MM2Uid(Heard.addr) \in Uid
    BY <1>2 DEF Uid
  <2>3. [x \in Attr |-> IF x \in SlotData THEN OnCan(x, Heard.val[x]) ELSE 0] \in [Attr -> Value]
    BY <1>2, Units DEF Value
  <2> QED
    BY <1>2, <2>1, <2>2, <2>3 DEF SlotEntry
<1> HIDE DEF e
<1>4. slots' \in [Slot -> SlotEntry]
  BY <1>1, <1>2, <1>3 DEF TypeOK
<1>5. lnTx' \in Seq(LnMessage) /\ Len(lnTx') <= LnDepth
  BY <1>1, AckType DEF TypeOK
<1> QED
  BY <1>1, <1>4, <1>5, HeardType DEF TypeOK

LEMMA processSlotMoveType ==
  ASSUME TypeOK, processSlotMove
  PROVE  TypeOK'
<1>1. lnRx # <<>> /\ LnHandled /\ Heard.op = "MOVE" /\ UNCHANGED overrun
  BY DEF processSlotMove, Hears, Heard
<1>2. Heard.slot \in Slot \cup {0} /\ Heard.dst \in Slot \cup {0}
  BY <1>1, HeardType, MessageFields
<1>3. slots' \in [Slot -> SlotEntry]
  <2>1. slots \in [Slot -> SlotEntry] /\ Cleared \in SlotEntry
    BY EntryTypes DEF TypeOK
  <2>2. \/ slots' = slots
        \/ /\ Heard.slot # 0 /\ Heard.dst # 0
           /\ slots' = [slots EXCEPT ![Heard.dst] = slots[Heard.slot], ![Heard.slot] = Cleared]
    BY DEF processSlotMove
  <2> QED
    BY <1>2, <2>1, <2>2
<1>4. inDispatch' \in Slot \cup {NoSlot}
  <2>1. \/ inDispatch' = inDispatch
        \/ inDispatch' = NoSlot
        \/ Heard.slot # 0 /\ inDispatch' = Heard.slot
    BY DEF processSlotMove
  <2> QED
    BY <1>2, <2>1 DEF TypeOK
<1>5. lnTx' \in Seq(LnMessage) /\ Len(lnTx') <= LnDepth
  <2>1. CASE lnTx' = lnTx
    BY <2>1 DEF TypeOK
  <2>2. CASE lnTx' = AsyncSend(lnTx, LongAck)
    BY <2>2, AckType
  <2>3. CASE /\ inDispatch # NoSlot
             /\ lnTx' = AsyncSend(lnTx, RdMsg("RD", inDispatch, slots[inDispatch].addr,
                                              ShownOnLn(slots[inDispatch].val)))
    BY <2>3, AnswerType DEF TypeOK
  <2> QED
    BY <2>1, <2>2, <2>3 DEF processSlotMove
<1> QED
  BY <1>1, <1>3, <1>4, <1>5, HeardType DEF TypeOK

\* A slot and the frames of its changes.
LEMMA MatchedUidType ==
  ASSUME TypeOK, NEW s \in Slot
  PROVE  /\ MatchedUid(s) \in Uid
         /\ MatchedUid(s) \in {CanUid(k) : k \in Known} => MatchedUid(s)[2] \in Known
<1>1. slots[s].uid \in Uid
  BY EntryUpdates DEF TypeOK
<1>2. \A k \in Known : CanUid(k) \in Uid /\ CanUid(k)[2] = k
  BY DEF Uid, CanUid
<1> QED
  BY <1>1, <1>2 DEF MatchedUid

LEMMA MatchAndForwardType ==
  ASSUME TypeOK, NEW s \in Slot, MatchAndForward(s)
  PROVE  TypeOK'
<1> DEFINE u == MatchedUid(s)
           reached == slots[s].diff # {} /\ u \in {CanUid(k) : k \in Known}
           v == [x \in Attr |-> IF x \in slots[s].diff THEN slots[s].val[x] ELSE can[u[2]][x]]
<1>1. /\ slots' = [slots EXCEPT ![s].diff = {}, ![s].uid = u]
      /\ canRx' = IF reached THEN canRx \o Frames(u[2], slots[s]) ELSE canRx
      /\ can' = IF reached THEN [can EXCEPT ![u[2]] = v] ELSE can
      /\ notified' = (notified \/ reached)
      /\ UNCHANGED <<pc, inDispatch, db, overrun, lnTx, console, lnRx, bus, ops, asked>>
  BY DEF MatchAndForward
<1>2. slots[s] \in SlotEntry /\ slots[s].val \in [Attr -> Value]
  BY EntryUpdates DEF TypeOK
<1>3. u \in Uid /\ (reached => u[2] \in Known)
  BY MatchedUidType
<1>4. slots' \in [Slot -> SlotEntry]
  <2>1. [slots[s] EXCEPT !.diff = {}, !.uid = u] \in SlotEntry
    <3> HIDE DEF u
    <3> QED
      BY <1>2, <1>3, EntryUpdates
  <2>2. slots' = [slots EXCEPT ![s] = [slots[s] EXCEPT !.diff = {}, !.uid = u]]
    BY <1>1 DEF TypeOK
  <2> HIDE DEF u
  <2> QED
    BY <2>1, <2>2 DEF TypeOK
<1>5. canRx' \in Seq(CanFrame)
  <2>1. reached => Frames(u[2], slots[s]) \in Seq(CanFrame)
    BY <1>2, <1>3, FramesType
  <2> HIDE DEF u, reached
  <2> QED
    BY <1>1, <2>1 DEF TypeOK
<1>6. can' \in [Known -> [Attr -> Value]]
  <2>1. ASSUME reached
        PROVE  v \in [Attr -> Value]
    <3>1. can[u[2]] \in [Attr -> Value]
      BY <1>3, <2>1 DEF TypeOK
    <3> HIDE DEF u
    <3> QED
      BY <1>2, <3>1
  <2> HIDE DEF u, reached, v
  <2> QED
    BY <1>1, <1>3, <2>1 DEF TypeOK
<1>7. notified' \in BOOLEAN
  <2> HIDE DEF reached
  <2> QED
    BY <1>1 DEF TypeOK
<1> QED
  BY <1>1, <1>4, <1>5, <1>6, <1>7 DEF TypeOK

\* What the buses and the console do.
LEMMA DoBlockingSendType ==
  ASSUME TypeOK, DoBlockingSend
  PROVE  TypeOK'
<1> DEFINE q == Head(lnTx)
           B == [addr : Addr \cup {0}, val : [Attr -> Value]]
<1>1. /\ q \in LnMessage /\ lnTx' = Tail(lnTx) /\ BusHears(q)
      /\ UNCHANGED <<pc, slots, inDispatch, db, overrun, console, canRx, can, ops, asked>>
  BY DEF TypeOK, DoBlockingSend
<1>2. lnTx' \in Seq(LnMessage) /\ Len(lnTx') <= LnDepth
  BY <1>1 DEF TypeOK, DoBlockingSend
<1>3. bus \in [Slot -> B]
  BY DEF TypeOK
<1>4. CASE q.op \in DOMAIN Carries
  <2>1. q.op \in {"SPD", "DIRF", "SND2"}
    BY <1>4 DEF Carries
  <2>2. q.slot \in Slot /\ q.val \in [Carries[q.op] -> Value]
    BY <1>1, <2>1, MessageFields
  <2> DEFINE v == [x \in Attr |-> IF x \in Carries[q.op] THEN q.val[x] ELSE bus[q.slot].val[x]]
  <2>3. v \in [Attr -> Value]
    BY <1>3, <2>2
  <2>4. bus' = [bus EXCEPT ![q.slot].val = v] /\ UNCHANGED <<lnRx, notified>>
    BY <1>1, <2>1 DEF BusHears
  <2> HIDE DEF v
  <2>5. bus' \in [Slot -> B]
    BY <1>3, <2>2, <2>3, <2>4
  <2> QED
    BY <1>1, <1>2, <2>4, <2>5 DEF TypeOK
<1>5. CASE q.op = "RD" /\ Mode = "ACTIVE"
  <2>1. q.slot \in Slot /\ q.addr \in Addr \cup {0} /\ q.val \in [SlotData -> Value]
    BY <1>1, <1>5, MessageFields
  <2> DEFINE b == bus[q.slot]
             v == [x \in Attr |-> IF x \in SlotData THEN q.val[x]
                                  ELSE IF b.addr = q.addr THEN b.val[x] ELSE 0]
  <2>2. v \in [Attr -> Value]
    BY <1>3, <2>1 DEF Value
  <2>3. /\ bus' = [bus EXCEPT ![q.slot] = [addr |-> q.addr, val |-> v]]
        /\ UNCHANGED <<lnRx, notified>>
    BY <1>1, <1>5 DEF BusHears, Carries
  <2> HIDE DEF v
  <2>4. bus' \in [Slot -> B]
    BY <1>3, <2>1, <2>2, <2>3
  <2> QED
    BY <1>1, <1>2, <2>3, <2>4 DEF TypeOK
<1>6. CASE q.op = "RQ" /\ Mode = "PASSIVE"
  <2>1. q.slot \in Slot
    BY <1>1, <1>6, MessageFields
  <2>2. bus[q.slot].addr \in Addr \cup {0} /\ bus[q.slot].val \in [Attr -> Value]
    BY <1>3, <2>1
  <2>3. RdMsg("RD", q.slot, bus[q.slot].addr, bus[q.slot].val) \in LnMessage
    BY <2>1, <2>2, MessageTypes
  <2>4. /\ lnRx' = Append(lnRx, RdMsg("RD", q.slot, bus[q.slot].addr, bus[q.slot].val))
        /\ notified' = TRUE /\ bus' = bus
    BY <1>1, <1>6 DEF BusHears, Carries
  <2> QED
    BY <1>1, <1>2, <2>3, <2>4 DEF TypeOK
<1>7. CASE UNCHANGED <<bus, lnRx, notified>>
  BY <1>1, <1>2, <1>7 DEF TypeOK
<1> QED
  BY <1>1, <1>4, <1>5, <1>6, <1>7 DEF BusHears

\* What is counted and remembered of an input.
LEMMA InputType ==
  ASSUME TypeOK, NEW i, Input(i)
  PROVE  Another(i) /\ asked' \subseteq {"console", "zero"}
  BY DEF TypeOK, Input

LEMMA AsksType ==
  ASSUME TypeOK, NEW who \in SUBSET {"console"}, NEW a, Asks(who, a)
  PROVE  asked' \subseteq {"console", "zero"}
  BY DEF TypeOK, Asks

LEMMA CountType ==
  ASSUME TypeOK, NEW i, Another(i)
  PROVE  ops' \in 0..MaxOps
  BY DEF TypeOK, Another

LEMMA DispatchType ==
  ASSUME TypeOK, (\E a \in Addr : Dispatch(a)) \/ DispatchSearch \/ DispatchNew
  PROVE  TypeOK'
<1> DEFINE C == [at : 0..(NumSlots + 1), addr : Addr \cup {0}, free : Slot \cup {NoSlot}]
<1>0. console \in C /\ 0 \in 0..(NumSlots + 1)
  BY DEF TypeOK
<1>1. CASE \E a \in Addr : Dispatch(a)
  <2>1. ops' \in 0..MaxOps /\ asked' \subseteq {"console", "zero"}
    BY <1>1, AsksType, CountType DEF Dispatch
  <2> QED
    BY <1>1, <2>1 DEF TypeOK, Dispatch, taskVars, NoSlot
<1>2. CASE DispatchSearch
  <2>1. console.at \in Slot /\ console.at + 1 \in 0..(NumSlots + 1)
    BY <1>2 DEF DispatchSearch, Slot
  <2>2. UNCHANGED <<pc, notified, slots, db, overrun, lnTx, lnRx, canRx, can, bus, ops, asked>>
    BY <1>2 DEF DispatchSearch, busVars
  <2>3. inDispatch' \in {inDispatch, console.at}
    BY <1>2 DEF DispatchSearch
  <2>4. \/ console' = [console EXCEPT !.at = 0]
        \/ \E s \in {console.free, console.at} :
             console' = [console EXCEPT !.at = console.at + 1, !.free = s]
    BY <1>2 DEF DispatchSearch
  <2>5. console' \in C
    <3>1. console.free \in Slot \cup {NoSlot}
      BY <1>0
    <3> QED
      BY <1>0, <2>1, <2>4, <3>1
  <2> QED
    BY <2>1, <2>2, <2>3, <2>5 DEF TypeOK
<1>3. CASE DispatchNew
  <2>1. initializeSlot(console.addr) \in SlotEntry
    BY EntryTypes DEF TypeOK
  <2>2. /\ UNCHANGED <<pc, notified, db, lnTx, lnRx, canRx, can, bus, ops, asked>>
        /\ console' = [console EXCEPT !.at = 0]
    BY <1>3 DEF DispatchNew, busVars
  <2>3. \/ overrun' = TRUE /\ UNCHANGED <<slots, inDispatch>>
        \/ /\ console.free # NoSlot
           /\ slots' = [slots EXCEPT ![console.free] = initializeSlot(console.addr)]
           /\ inDispatch' = console.free
           /\ UNCHANGED overrun
    BY <1>3 DEF DispatchNew
  <2>4. slots' \in [Slot -> SlotEntry] /\ inDispatch' \in Slot \cup {NoSlot}
        /\ overrun' \in BOOLEAN
    <3>1. slots \in [Slot -> SlotEntry] /\ inDispatch \in Slot \cup {NoSlot}
          /\ overrun \in BOOLEAN
      BY DEF TypeOK
    <3>2. CASE overrun' = TRUE /\ UNCHANGED <<slots, inDispatch>>
      BY <3>1, <3>2
    <3>3. CASE console.free # NoSlot
               /\ slots' = [slots EXCEPT ![console.free] = initializeSlot(console.addr)]
               /\ inDispatch' = console.free
               /\ UNCHANGED overrun
      <4>1. console.free \in Slot
        BY <1>0, <3>3
      <4> QED
        BY <2>1, <3>1, <3>3, <4>1
    <3> QED
      BY <2>3, <3>2, <3>3
  <2>5. console' \in C
    BY <1>0, <2>2
  <2> QED
    BY <2>2, <2>4, <2>5 DEF TypeOK
<1> QED
  BY <1>1, <1>2, <1>3

\* The devices: what is heard is appended to one of the two receive queues.
LEMMA HearType ==
  ASSUME TypeOK, NEW ms \in Seq(LnMessage), Hear(ms), NEW i, Another(i),
         asked' \subseteq {"console", "zero"},
         bus' \in [Slot -> [addr : Addr \cup {0}, val : [Attr -> Value]]]
  PROVE  TypeOK'
<1>1. ops' \in 0..MaxOps
  BY CountType
<1>2. lnRx' \in Seq(LnMessage)
  BY DEF TypeOK, Hear
<1> QED
  BY <1>1, <1>2 DEF TypeOK, Hear

LEMMA ReceiveType ==
  ASSUME TypeOK, NEW f \in CanFrame, Receive(f), NEW i, Another(i),
         asked' \subseteq {"console", "zero"},
         can' \in [Known -> [Attr -> Value]]
  PROVE  TypeOK'
<1>1. ops' \in 0..MaxOps
  BY CountType
<1>2. canRx' \in Seq(CanFrame)
  BY DEF TypeOK, Receive
<1> QED
  BY <1>1, <1>2 DEF TypeOK, Receive

\* The answer of the master, if there is one, is a message.
LEMMA MasterSaysType ==
  ASSUME TypeOK, NEW s \in Slot
  PROVE  MasterSays(s) \in Seq(LnMessage)
<1>1. bus[s].addr \in Addr \cup {0} /\ bus[s].val \in [Attr -> Value]
  BY DEF TypeOK
<1>2. RdMsg("RD", s, bus[s].addr, bus[s].val) \in LnMessage
  BY <1>1, MessageTypes
<1> QED
  BY <1>2 DEF MasterSays

LEMMA LocoNetDevicesType ==
  ASSUME TypeOK,
         \/ \E s \in Held, g \in DOMAIN Carries : \E x \in Carries[g] : ThrottleSets(s, g, x)
         \/ \E a \in Addr : ThrottleAsks(a)
         \/ \E s \in Slot : ThrottleReads(s)
         \/ \E s \in Held : ThrottleWrites(s)
         \/ \E src \in Held, dst \in Slot : ThrottleMoves(src, dst)
         \/ ThrottleGets
         \/ \E s \in Held \cup GivenForZero : ThrottlePuts(s)
  PROVE  TypeOK'
<1> DEFINE B == [addr : Addr \cup {0}, val : [Attr -> Value]]
<1>1. bus \in [Slot -> B] /\ Held \subseteq Slot /\ GivenForZero \subseteq Slot
  BY DEF TypeOK, Held, GivenForZero
<1>2. ASSUME NEW s \in Held, NEW g \in DOMAIN Carries, NEW x \in Carries[g],
             ThrottleSets(s, g, x)
      PROVE  TypeOK'
  <2>1. g \in {"SPD", "DIRF", "SND2"} /\ x \in Attr
    BY DEF Carries, Attr
  <2>2. PICK v \in Value : bus' = [bus EXCEPT ![s].val[x] = v]
    <3>1. (IF x = "speed" THEN Steps ELSE {0, 1}) \subseteq Value
      BY SpeedAssumption DEF SpeedAssumption, Value
    <3> QED
      BY <1>2, <3>1 DEF ThrottleSets
  <2>3. bus' \in [Slot -> B] /\ s \in Slot
    BY <1>1, <2>1, <2>2
  <2>4. bus'[s].val \in [Attr -> Value]
    BY <2>3
  <2>5. SetMsg(g, s, bus'[s].val) \in LnMessage
    BY <2>1, <2>3, <2>4, MessageTypes
  <2>6. <<SetMsg(g, s, bus'[s].val)>> \in Seq(LnMessage)
    BY <2>5
  <2> QED
    BY <1>2, <2>3, <2>6, HearType, InputType DEF ThrottleSets
<1>3. ASSUME NEW a \in Addr, ThrottleAsks(a)
      PROVE  TypeOK'
  <2> DEFINE ask == [op |-> "ADR", addr |-> a]
  <2>1. ask \in LnMessage
    BY DEF LnMessage
  <2>2. CASE Hear(<<ask>>) /\ UNCHANGED bus
    <3>1. <<ask>> \in Seq(LnMessage)
      BY <2>1
    <3> QED
      BY <1>1, <1>3, <2>2, <3>1, HearType, AsksType DEF ThrottleAsks
  <2>3. CASE \E s \in Slot :
               /\ bus' = [bus EXCEPT ![s] = IF @.addr = a THEN @ ELSE [addr |-> a, val |-> Blank]]
               /\ Hear(<<ask, RdMsg("RD", s, a, bus'[s].val)>>)
    <3>1. PICK s \in Slot :
               /\ bus' = [bus EXCEPT ![s] = IF @.addr = a THEN @ ELSE [addr |-> a, val |-> Blank]]
               /\ Hear(<<ask, RdMsg("RD", s, a, bus'[s].val)>>)
      BY <2>3
    <3>2. bus' \in [Slot -> B]
      BY <1>1, <3>1, EntryTypes
    <3>3. bus'[s].val \in [Attr -> Value]
      BY <3>2
    <3>4. RdMsg("RD", s, a, bus'[s].val) \in LnMessage
      BY <3>3, MessageTypes
    <3>5. <<ask, RdMsg("RD", s, a, bus'[s].val)>> \in Seq(LnMessage)
      BY <2>1, <3>4
    <3> HIDE DEF ask
    <3> QED
      BY <1>3, <3>1, <3>2, <3>5, HearType, AsksType DEF ThrottleAsks
  <2>4. \/ Hear(<<ask>>) /\ UNCHANGED bus
        \/ \E s \in Slot :
             /\ bus' = [bus EXCEPT ![s] = IF @.addr = a THEN @ ELSE [addr |-> a, val |-> Blank]]
             /\ Hear(<<ask, RdMsg("RD", s, a, bus'[s].val)>>)
    <3> DEFINE has == {s \in Slot : bus[s].addr = a}
    <3>1. (IF has # {} THEN has ELSE {r \in Slot : bus[r].addr = 0}) \subseteq Slot
      OBVIOUS
    <3> QED
      BY <1>3, <3>1 DEF ThrottleAsks
  <2> QED
    BY <2>2, <2>3, <2>4
<1>4. ASSUME NEW s \in Slot, ThrottleReads(s)
      PROVE  TypeOK'
  <2>1. <<RqMsg(s)>> \o MasterSays(s) \in Seq(LnMessage)
    BY MessageTypes, MasterSaysType
  <2> QED
    BY <1>1, <1>4, <2>1, HearType, InputType DEF ThrottleReads
<1>5. ASSUME NEW s \in Held, ThrottleWrites(s)
      PROVE  TypeOK'
  <2>1. RdMsg("WR", s, bus[s].addr, bus[s].val) \in LnMessage
    BY <1>1, MessageTypes
  <2>2. <<RdMsg("WR", s, bus[s].addr, bus[s].val)>> \in Seq(LnMessage)
    BY <2>1
  <2> QED
    BY <1>1, <1>5, <2>2, HearType, InputType DEF ThrottleWrites
<1>6. \A src, dst \in Slot \cup {0} : <<MoveMsg(src, dst)>> \in Seq(LnMessage)
  <2>1. \A src, dst \in Slot \cup {0} : MoveMsg(src, dst) \in LnMessage
    BY DEF LnMessage, MoveMsg
  <2> QED
    BY <2>1
<1>7. ASSUME NEW src \in Held, NEW dst \in Slot, ThrottleMoves(src, dst)
      PROVE  TypeOK'
  <2>1. Unassigned \in B
    BY EntryTypes DEF Unassigned
  <2>2. bus' \in [Slot -> B]
    BY <1>1, <1>7, <2>1 DEF ThrottleMoves
  <2> QED
    BY <1>1, <1>6, <1>7, <2>2, HearType, InputType DEF ThrottleMoves
<1>8. ASSUME ThrottleGets
      PROVE  TypeOK'
  BY <1>1, <1>6, <1>8, HearType, InputType DEF ThrottleGets
<1>9. ASSUME NEW s \in Held \cup GivenForZero, ThrottlePuts(s)
      PROVE  TypeOK'
  BY <1>1, <1>6, <1>9, HearType, InputType DEF ThrottlePuts
<1> QED
  BY <1>2, <1>3, <1>4, <1>5, <1>7, <1>8, <1>9

LEMMA CentralType ==
  ASSUME TypeOK,
         \/ \E a \in Known, x \in Attr : CentralSets(a, x)
         \/ \E a \in Known : CentralTurns(a)
         \/ CentralStops
  PROVE  TypeOK'
<1>1. can \in [Known -> [Attr -> Value]] /\ "dir" \in Attr /\ "speed" \in Attr /\ 0 \in Value
  BY DEF TypeOK, Attr, Value
<1>2. ASSUME NEW a \in Known, NEW x \in Attr, CentralSets(a, x)
      PROVE  TypeOK'
  <2>1. PICK v \in Value : can' = [can EXCEPT ![a][x] = v]
    <3>1. (IF x = "speed" THEN Velocities ELSE {0, 1}) \subseteq Value
      BY SpeedAssumption DEF SpeedAssumption, Value
    <3> QED
      BY <1>2, <3>1 DEF CentralSets
  <2>2. can' \in [Known -> [Attr -> Value]]
    BY <1>1, <2>1
  <2>3. SetFrame(a, x, can'[a][x]) \in CanFrame
    BY <2>2 DEF SetFrame, CanFrame
  <2> QED
    BY <1>2, <2>2, <2>3, ReceiveType, InputType DEF CentralSets
<1>3. ASSUME NEW a \in Known, CentralTurns(a)
      PROVE  TypeOK'
  <2>1. [can[a] EXCEPT !["dir"] = Flip(@)] \in [Attr -> Value]
    BY <1>1, FlipType
  <2>2. can' \in [Known -> [Attr -> Value]]
    BY <1>1, <1>3, <2>1 DEF CentralTurns
  <2>3. [kind |-> "turn", addr |-> a] \in CanFrame
    BY DEF CanFrame
  <2> QED
    BY <1>3, <2>2, <2>3, ReceiveType, InputType DEF CentralTurns
<1>4. ASSUME CentralStops
      PROVE  TypeOK'
  <2>1. can' \in [Known -> [Attr -> Value]]
    BY <1>1, <1>4 DEF CentralStops
  <2>2. [kind |-> "stop"] \in CanFrame
    BY DEF CanFrame
  <2> QED
    BY <1>4, <2>1, <2>2, ReceiveType, InputType DEF CentralStops
<1> QED
  BY <1>2, <1>3, <1>4

LEMMA InitType ==
  ASSUME Init
  PROVE  TypeOK
<1>1. InitBus \in [Slot -> [addr : Addr \cup {0}, val : [Attr -> Value]]]
  BY EntryTypes, BusAssumption DEF InitBus, BusAssumption
<1>2. /\ slots \in [Slot -> SlotEntry]
      /\ db \in [Known -> [val : [Attr -> Value], diff : SUBSET Attr]]
      /\ can \in [Known -> [Attr -> Value]]
  BY EntryTypes DEF Init
<1>3. console \in [at : 0..(NumSlots + 1), addr : Addr \cup {0}, free : Slot \cup {NoSlot}]
  BY DEF Init
<1>4. <<>> \in Seq(LnMessage) /\ <<>> \in Seq(CanFrame) /\ Len(<<>>) <= LnDepth
  OBVIOUS
<1>5. /\ pc = "blocked" /\ notified = FALSE /\ inDispatch = NoSlot /\ overrun = FALSE
      /\ lnTx = <<>> /\ lnRx = <<>> /\ canRx = <<>> /\ bus = InitBus
      /\ ops = 0 /\ asked = {}
  BY DEF Init
<1>6. /\ lnTx \in Seq(LnMessage) /\ Len(lnTx) <= LnDepth
      /\ lnRx \in Seq(LnMessage) /\ canRx \in Seq(CanFrame)
  BY <1>4, <1>5
<1>7. /\ pc \in {"blocked", "can", "forward", "ln", "match"}
      /\ inDispatch \in Slot \cup {NoSlot} /\ ops \in 0..MaxOps
      /\ asked \subseteq {"console", "zero"}
      /\ bus \in [Slot -> [addr : Addr \cup {0}, val : [Attr -> Value]]]
  BY <1>1, <1>5
<1>8. notified \in BOOLEAN /\ overrun \in BOOLEAN
  BY <1>5, Zenon
<1> QED
  BY <1>2, <1>3, <1>6, <1>7, <1>8 DEF TypeOK

LEMMA TypeStep ==
  ASSUME TypeOK, [Next]_vars
  PROVE  TypeOK'
<1>1. CASE RoutingTask
  BY <1>1, PhaseType, HandleCanType, ForwardLocoChangeType, processLocoSpeedType,
     processLocoFunctionsType, processLocoRequestType, processRequestSlotReadType,
     processSlotReadType, processSlotMoveType, MatchAndForwardType
     DEF RoutingTask, process
<1>2. CASE ConsoleTask \/ \E a \in Addr : Dispatch(a)
  BY <1>2, DoBlockingSendType, DispatchType DEF ConsoleTask
<1>3. CASE Devices
  BY <1>3, LocoNetDevicesType, CentralType DEF Devices
<1>4. CASE UNCHANGED vars
  BY <1>4 DEF TypeOK, vars, taskVars, busVars
<1> QED
  BY <1>1, <1>2, <1>3, <1>4 DEF Next

-----------------------------------------------------------------------------
(***************************************************************************)
(* The inductive invariant.  PendingInv says at which points of the loop a *)
(* change may be waiting, QueueInv from which points on a message in a     *)
(* receive queue needs a notification to be noticed.                       *)
(***************************************************************************)
PendingInv ==
  Mode # "DISABLED" /\ ~overrun =>
    /\ pc \in {"blocked", "can", "forward"} => \A s \in Slot : slots[s].diff = {}
    /\ Mode = "ACTIVE" /\ pc \in {"ln", "match", "blocked"} => \A a \in Known : db[a].diff = {}

QueueInv ==
  /\ canRx # <<>> /\ pc # "can" => notified
  /\ lnRx # <<>> /\ pc \in {"blocked", "match"} => notified

IInv ==
  /\ TypeOK
  /\ UidOfSlot
  /\ PendingInv
  /\ QueueInv

LEMMA IInvInit ==
  ASSUME Init
  PROVE  IInv
<1>1. UidOfSlot
  BY DEF Init, UidOfSlot, Cleared
<1>2. PendingInv
  BY DEF Init, PendingInv, Cleared
<1>3. QueueInv
  BY DEF Init, QueueInv
<1> QED
  BY <1>1, <1>2, <1>3, InitType DEF IInv

\* The receive queues.
LEMMA QueueStep ==
  ASSUME TypeOK, QueueInv, [Next]_vars
  PROVE  QueueInv'
<1>1. CASE Wake \/ HandleCan \/ CanDone \/ ForwardDone \/ LnDone \/ MatchDone
  BY <1>1 DEF TypeOK, QueueInv, Wake, HandleCan, CanDone, ForwardDone, LnDone, MatchDone, At, busVars
<1>2. ASSUME NEW a \in Known, ForwardLocoChange(a)
      PROVE  QueueInv'
  BY <1>2 DEF QueueInv, ForwardLocoChange, busVars
<1>3. CASE process
  <2>1. pc = "ln" /\ LnHandled
    BY <1>3 DEF process, processLocoSpeed, processLocoFunctions, processLocoRequest,
       processRequestSlotRead, processSlotRead, processSlotMove, Hears, At
  <2> QED
    BY <2>1 DEF QueueInv, LnHandled
<1>4. ASSUME NEW s \in Slot, MatchAndForward(s)
      PROVE  QueueInv'
  <2> DEFINE reached == slots[s].diff # {} /\ MatchedUid(s) \in {CanUid(k) : k \in Known}
  <2>1. /\ canRx' = IF reached THEN canRx \o Frames(MatchedUid(s)[2], slots[s]) ELSE canRx
        /\ notified' = (notified \/ reached)
        /\ UNCHANGED <<pc, lnRx>>
    BY <1>4 DEF MatchAndForward
  <2> HIDE DEF reached
  <2> QED
    BY <2>1 DEF QueueInv
<1>5. CASE ConsoleTask \/ \E a \in Addr : Dispatch(a)
  <2>1. CASE DoBlockingSend
    <3>1. UNCHANGED <<pc, canRx>> /\ (UNCHANGED <<lnRx, notified>> \/ notified' = TRUE)
      BY <2>1 DEF DoBlockingSend, BusHears
    <3> QED
      BY <3>1 DEF QueueInv
  <2>2. CASE DispatchSearch \/ DispatchNew \/ \E a \in Addr : Dispatch(a)
    BY <2>2 DEF QueueInv, DispatchSearch, DispatchNew, Dispatch, busVars, taskVars
  <2> QED
    BY <1>5, <2>1, <2>2 DEF ConsoleTask
<1>6. CASE Devices
  <2>1. notified' = TRUE
    BY <1>6 DEF Devices, ThrottleSets, ThrottleAsks, ThrottleReads, ThrottleWrites,
       ThrottleMoves, ThrottleGets, ThrottlePuts, CentralSets, CentralTurns, CentralStops,
       Hear, Receive
  <2> QED
    BY <2>1 DEF QueueInv
<1>7. CASE UNCHANGED vars
  BY <1>7 DEF QueueInv, vars, taskVars, busVars
<1> QED
  BY <1>1, <1>2, <1>3, <1>4, <1>5, <1>6, <1>7 DEF Next, RoutingTask

\* What the devices, the console's sending and a sleeping task leave alone.
LEMMA DevicesFrame ==
  ASSUME Devices
  PROVE  UNCHANGED <<pc, slots, inDispatch, db, overrun, lnTx, console>>
  BY DEF Devices, ThrottleSets, ThrottleAsks, ThrottleReads, ThrottleWrites,
     ThrottleMoves, ThrottleGets, ThrottlePuts, CentralSets, CentralTurns, CentralStops,
     Hear, Receive

\* The UID of a slot.
LEMMA MatchedUidOfSlot ==
  ASSUME UidOfSlot, NEW s \in Slot
  PROVE  MatchedUid(s) \in {NoUid, MM2Uid(slots[s].addr), CanUid(slots[s].addr)}
  BY DEF UidOfSlot, MatchedUid

\* How the steps change the entries of the table: a step that is not named
\* here leaves it alone.
LEMMA SlotEffect ==
  ASSUME TypeOK, [Next]_vars
  PROVE  \/ UNCHANGED slots
         \/ \E a \in Known : pc = "forward" /\ ForwardLocoChange(a)
         \/ pc = "ln" /\ process
         \/ \E s \in Slot : pc = "match" /\ MatchAndForward(s)
         \/ DispatchNew
<1>1. CASE RoutingTask
  BY <1>1 DEF RoutingTask, Wake, HandleCan, CanDone, ForwardDone, LnDone, MatchDone,
     ForwardLocoChange, MatchAndForward, process, processLocoSpeed, processLocoFunctions,
     processLocoRequest, processRequestSlotRead, processSlotRead, processSlotMove, Hears, At
<1>2. CASE ConsoleTask \/ \E a \in Addr : Dispatch(a)
  BY <1>2 DEF ConsoleTask, DoBlockingSend, DispatchSearch, Dispatch, taskVars
<1>3. CASE Devices
  BY <1>3, DevicesFrame
<1>4. CASE UNCHANGED vars
  BY <1>4 DEF vars, taskVars
<1> QED
  BY <1>1, <1>2, <1>3, <1>4 DEF Next

LEMMA UidStep ==
  ASSUME TypeOK, UidOfSlot, [Next]_vars
  PROVE  UidOfSlot'
<1> DEFINE Good(e) == e.uid \in {NoUid, MM2Uid(e.addr), CanUid(e.addr)}
<1>1. slots \in [Slot -> SlotEntry] /\ \A s \in Slot : Good(slots[s])
  BY DEF TypeOK, UidOfSlot
<1>2. Good(Cleared) /\ \A a : Good(initializeSlot(a))
  BY DEF Cleared, initializeSlot
<1>3. ASSUME NEW a \in Addr
      PROVE  Allocated(a) \in [Slot -> SlotEntry] /\ \A s \in Slot : Good(Allocated(a)[s])
  <2> HIDE DEF Good
  <2> QED
    BY <1>1, <1>2, AllocateFinds, AllocatedType DEF Allocated
<1>4. ASSUME NEW e \in SlotEntry, Good(e)
      PROVE  /\ \A v : Good([e EXCEPT !.val = v])
             /\ \A v, d : Good([e EXCEPT !.val = v, !.diff = d])
  BY <1>4 DEF SlotEntry
<1>5. ASSUME NEW s \in Slot
      PROVE  EntryOf(s) \in SlotEntry /\ Good(EntryOf(s))
  BY <1>1, RequestedType DEF EntryOf, SlotEntry
<1>6. SUFFICES ASSUME NEW r \in Slot, slots' # slots
               PROVE  Good(slots'[r])
  BY <1>1 DEF UidOfSlot
<1> HIDE DEF Good
<1>7. CASE \E a \in Known : pc = "forward" /\ ForwardLocoChange(a)
  <2>1. PICK a \in Known : ForwardLocoChange(a)
    BY <1>7
  <2> DEFINE s == IF Mode = "ACTIVE" THEN findOrAllocate(a).slot ELSE findSlotForAddress(a)
             t == IF Mode = "ACTIVE" THEN Allocated(a) ELSE slots
  <2>2. t \in [Slot -> SlotEntry] /\ \A q \in Slot : Good(t[q])
    BY <1>1, <1>3
  <2>3. PICK v : slots' = [t EXCEPT ![s].val = v]
    BY <1>6, <2>1 DEF ForwardLocoChange
  <2> HIDE DEF s, t
  <2>4. slots'[r] = t[r] \/ slots'[r] = [t[r] EXCEPT !.val = v]
    BY <2>2, <2>3
  <2>5. Good(t[r]) /\ Good([t[r] EXCEPT !.val = v])
    BY <1>4, <2>2
  <2> QED
    BY <2>4, <2>5
<1>8. CASE process
  <2>1. lnRx # <<>> /\ Heard \in LnMessage /\ UNCHANGED db
    BY <1>8, HeardType DEF process, processLocoSpeed, processLocoFunctions, processLocoRequest,
       processRequestSlotRead, processSlotRead, processSlotMove, Hears, LnHandled
  <2> DEFINE s == Heard.slot
  <2>2. CASE processLocoSpeed \/ processLocoFunctions
    <3>1. s \in Slot
      BY <2>1, <2>2, MessageFields DEF processLocoSpeed, processLocoFunctions, Hears, Heard
    <3> DEFINE e == EntryOf(s)
    <3>2. PICK v, d : slots' = [slots EXCEPT ![s] = [e EXCEPT !.val = v, !.diff = d]]
      BY <2>2 DEF processLocoSpeed, processLocoFunctions
    <3>3. e \in SlotEntry /\ Good(e)
      BY <1>5, <3>1
    <3> HIDE DEF e, s
    <3>4. slots'[r] = slots[r] \/ slots'[r] = [e EXCEPT !.val = v, !.diff = d]
      BY <1>1, <3>1, <3>2
    <3>5. Good([e EXCEPT !.val = v, !.diff = d])
      BY <1>4, <3>3
    <3> QED
      BY <1>1, <3>4, <3>5
  <2>3. CASE processLocoRequest
    <3>1. Heard.addr \in Addr
      BY <2>1, <2>3, MessageFields DEF processLocoRequest, Hears, Heard
    <3>2. slots' = Allocated(Heard.addr)
      BY <1>6, <2>3 DEF processLocoRequest
    <3> QED
      BY <1>3, <3>1, <3>2
  <2>4. CASE processRequestSlotRead
    BY <1>6, <2>4 DEF processRequestSlotRead
  <2>5. CASE processSlotRead
    <3> DEFINE e == [inUse |-> TRUE, addr |-> Heard.addr, uid |-> MM2Uid(Heard.addr),
                 val |-> [x \in Attr |-> IF x \in SlotData THEN OnCan(x, Heard.val[x]) ELSE 0],
                 diff |-> slots[s].diff, match |-> TRUE]
    <3>1. slots' = [slots EXCEPT ![s] = e]
      BY <2>5 DEF processSlotRead
    <3>2. Good(e)
      BY DEF Good
    <3> HIDE DEF e
    <3>3. slots'[r] = slots[r] \/ slots'[r] = e
      BY <1>1, <3>1
    <3> QED
      BY <1>1, <3>2, <3>3
  <2>6. CASE processSlotMove
    <3>1. slots' = [slots EXCEPT ![Heard.dst] = slots[s], ![s] = Cleared]
          /\ s # 0 /\ Heard.dst # 0
      BY <1>6, <2>6 DEF processSlotMove
    <3>2. s \in Slot \cup {0}
      BY <2>1, <2>6, MessageFields DEF processSlotMove, Hears, Heard
    <3>3. slots'[r] = slots[r] \/ slots'[r] = slots[s] \/ slots'[r] = Cleared
      BY <1>1, <3>1
    <3> QED
      BY <1>1, <1>2, <3>1, <3>2, <3>3
  <2> QED
    BY <1>8, <2>2, <2>3, <2>4, <2>5, <2>6 DEF process
<1>9. CASE \E s \in Slot : MatchAndForward(s)
  <2>1. PICK s \in Slot : slots' = [slots EXCEPT ![s].diff = {}, ![s].uid = MatchedUid(s)]
    BY <1>9 DEF MatchAndForward
  <2>2. MatchedUid(s) \in {NoUid, MM2Uid(slots[s].addr), CanUid(slots[s].addr)}
    BY MatchedUidOfSlot
  <2>3. slots'[r] = slots[r] \/ (slots'[r].uid = MatchedUid(s) /\ slots'[r].addr = slots[s].addr)
    BY <1>1, <2>1 DEF SlotEntry
  <2> QED
    BY <1>1, <2>2, <2>3 DEF Good
<1>10. CASE DispatchNew
  <2>1. slots' = [slots EXCEPT ![console.free] = initializeSlot(console.addr)]
    BY <1>6, <1>10 DEF DispatchNew
  <2>2. slots'[r] = slots[r] \/ slots'[r] = initializeSlot(console.addr)
    BY <1>1, <2>1
  <2> QED
    BY <1>1, <1>2, <2>2
<1> QED
  BY <1>6, <1>7, <1>8, <1>9, <1>10, SlotEffect

\* The changes that wait.
LEMMA PendingStep ==
  ASSUME TypeOK, PendingInv, [Next]_vars
  PROVE  PendingInv'
<1>1. slots \in [Slot -> SlotEntry]
      /\ db \in [Known -> [val : [Attr -> Value], diff : SUBSET Attr]]
  BY DEF TypeOK
<1>2. CASE Wake \/ HandleCan \/ CanDone \/ ForwardDone \/ LnDone \/ MatchDone
  BY <1>2 DEF PendingInv, Wake, HandleCan, CanDone, ForwardDone, LnDone, MatchDone, At,
     HasTarget, busVars
<1>3. ASSUME NEW a \in Known, ForwardLocoChange(a)
      PROVE  PendingInv'
  <2>1. pc = "forward" /\ pc' = pc /\ ~overrun
    BY <1>3 DEF ForwardLocoChange, At
  <2> DEFINE s == IF Mode = "ACTIVE" THEN findOrAllocate(a).slot ELSE findSlotForAddress(a)
             t == IF Mode = "ACTIVE" THEN Allocated(a) ELSE slots
  <2>2. \/ overrun' = TRUE
        \/ \E v : slots' = [t EXCEPT ![s].val = v]
    BY <1>3 DEF ForwardLocoChange
  <2>3. t \in [Slot -> SlotEntry]
    BY <1>1, AllocatedType
  <2>4. ASSUME Mode # "DISABLED"
        PROVE  \A q \in Slot : t[q].diff = {}
    <3>1. \A q \in Slot : slots[q].diff = {}
      BY <2>1, <2>4 DEF PendingInv
    <3>2. initializeSlot(a).diff = {}
      BY DEF initializeSlot, Cleared
    <3> QED
      BY <1>1, <3>1, <3>2, AllocateFinds DEF Allocated
  <2> HIDE DEF s, t
  <2>5. ASSUME Mode # "DISABLED", ~overrun', NEW q \in Slot
        PROVE  slots'[q].diff = {}
    <3>1. PICK v : slots' = [t EXCEPT ![s].val = v]
      BY <2>2, <2>5
    <3>2. slots'[q].diff = t[q].diff
      BY <2>3, <3>1 DEF SlotEntry
    <3> QED
      BY <2>4, <2>5, <3>2
  <2> QED
    BY <2>1, <2>5 DEF PendingInv
<1>4. CASE process
  <2>1. pc = "ln" /\ UNCHANGED <<pc, db>> /\ ~overrun
    BY <1>4 DEF process, processLocoSpeed, processLocoFunctions, processLocoRequest,
       processRequestSlotRead, processSlotRead, processSlotMove, Hears, At, LnHandled
  <2> QED
    BY <2>1 DEF PendingInv
<1>5. ASSUME NEW s \in Slot, MatchAndForward(s)
      PROVE  PendingInv'
  <2>1. pc = "match" /\ UNCHANGED <<pc, db, overrun>>
    BY <1>5 DEF MatchAndForward, At
  <2> QED
    BY <2>1 DEF PendingInv
<1>6. CASE DispatchNew
  <2>1. pc = "blocked" /\ ~overrun /\ UNCHANGED <<pc, db>>
    BY <1>6 DEF DispatchNew, ConsoleRuns, At
  <2>2. overrun' = TRUE \/ slots' = [slots EXCEPT ![console.free] = initializeSlot(console.addr)]
    BY <1>6 DEF DispatchNew
  <2>3. initializeSlot(console.addr).diff = {}
    BY DEF initializeSlot, Cleared
  <2>4. ASSUME Mode # "DISABLED", ~overrun', NEW q \in Slot
        PROVE  slots'[q].diff = {}
    <3>1. slots[q].diff = {}
      BY <2>1, <2>4 DEF PendingInv
    <3>2. slots'[q] = slots[q] \/ slots'[q] = initializeSlot(console.addr)
      BY <1>1, <2>2, <2>4
    <3> QED
      BY <2>3, <3>1, <3>2
  <2> QED
    BY <2>1, <2>4 DEF PendingInv
<1>7. CASE UNCHANGED <<pc, slots, db, overrun>>
  BY <1>7 DEF PendingInv
<1>8. CASE Devices
  BY <1>7, <1>8, DevicesFrame
<1>9. CASE DoBlockingSend \/ DispatchSearch \/ (\E a \in Addr : Dispatch(a)) \/ UNCHANGED vars
  <2>1. UNCHANGED <<pc, slots, db, overrun>>
    BY <1>9 DEF DoBlockingSend, DispatchSearch, Dispatch, vars, taskVars
  <2> QED
    BY <1>7, <2>1
<1> QED
  BY <1>2, <1>3, <1>4, <1>5, <1>6, <1>8, <1>9 DEF Next, RoutingTask, ConsoleTask

-----------------------------------------------------------------------------
\* The conjunction of the types, the UIDs of the slots, the pending changes and
\* the receive queues is inductive.
THEOREM Inductive == Spec => []IInv
<1>1. Init => IInv
  BY IInvInit
<1>2. IInv /\ [Next]_vars => IInv'
  BY TypeStep, UidStep, PendingStep, QueueStep DEF IInv
<1> QED
  BY <1>1, <1>2, PTL DEF Spec

\* Every part of the state has its type, and the transmit queue its limit.
THEOREM TypeCorrect == Spec => []TypeOK
<1>1. IInv => TypeOK
  BY DEF IInv
<1> QED
  BY <1>1, Inductive, PTL

\* A slot is only ever matched to the engine of its own address.
THEOREM SlotKeepsEngine == Spec => []UidOfSlot
<1>1. IInv => UidOfSlot
  BY DEF IInv
<1> QED
  BY <1>1, Inductive, PTL

\* When the RoutingTask waits, it has forwarded every change it could.
THEOREM ForwardsAll == Spec => []NothingPending
<1>1. IInv => NothingPending
  BY DEF IInv, PendingInv, NothingPending
<1> QED
  BY <1>1, Inductive, PTL

\* The RoutingTask does not sleep on a received message.
THEOREM ServesQueues == Spec => []QueuesServed
<1>1. IInv => QueuesServed
  BY DEF IInv, QueueInv, QueuesServed
<1> QED
  BY <1>1, Inductive, PTL

-----------------------------------------------------------------------------
(***************************************************************************)
(* One slot for an engine.  This holds of the RoutingTask alone: neither   *)
(* may the console search the table at the same time, nor may a device     *)
(* write a slot it chose itself.                                           *)
(***************************************************************************)
Alone == Mode = "ACTIVE" /\ Inputs \cap {"DISPATCH", "WR"} = {}

\* findOrAllocateSlotForAddress() looks at all slots, in use or not, so the
\* addresses of all slots must differ; nothing else may assign a slot.  Address 0
\* is found in every cleared slot, so that no slot is ever taken for it.
UniqueInv ==
  /\ \A s, r \in Slot : slots[s].addr = slots[r].addr /\ slots[s].addr # 0 => s = r
  /\ \A s \in Slot : slots[s].inUse <=> slots[s].addr # 0
  /\ console.at = 0
  /\ \A i \in 1..Len(lnRx) : lnRx[i].op \notin {"RD", "WR"}

\* No reading of a slot is heard.
LEMMA NoReadHeard ==
  ASSUME Alone, TypeOK, UniqueInv, [Next]_vars
  PROVE  /\ console'.at = 0
         /\ \A i \in 1..Len(lnRx') : lnRx'[i].op \notin {"RD", "WR"}
<1> DEFINE Quiet(q) == \A i \in 1..Len(q) : q[i].op \notin {"RD", "WR"}
<1>1. lnRx \in Seq(LnMessage) /\ Quiet(lnRx) /\ console.at = 0
  BY DEF TypeOK, UniqueInv
<1>2. \A i \in {"DISPATCH", "WR"} : ~Another(i)
  BY DEF Alone, Another
<1>3. CASE RoutingTask
  <2>1. UNCHANGED console
    BY <1>3 DEF RoutingTask, Wake, HandleCan, CanDone, ForwardDone, LnDone, MatchDone,
       ForwardLocoChange, MatchAndForward, process, processLocoSpeed, processLocoFunctions,
       processLocoRequest, processRequestSlotRead, processSlotRead, processSlotMove, LnHandled
  <2>2. UNCHANGED lnRx \/ (lnRx # <<>> /\ lnRx' = Tail(lnRx))
    BY <1>3 DEF RoutingTask, Wake, HandleCan, CanDone, ForwardDone, LnDone, MatchDone, busVars,
       ForwardLocoChange, MatchAndForward, process, processLocoSpeed, processLocoFunctions,
       processLocoRequest, processRequestSlotRead, processSlotRead, processSlotMove, LnHandled,
       Hears
  <2> QED
    BY <1>1, <2>1, <2>2
<1>4. CASE DoBlockingSend
  <2>1. UNCHANGED <<console, lnRx>>
    BY <1>4 DEF Alone, DoBlockingSend, BusHears
  <2> QED
    BY <1>1, <2>1
<1>5. CASE DispatchSearch \/ DispatchNew \/ \E a \in Addr : Dispatch(a)
  BY <1>1, <1>2, <1>5 DEF DispatchSearch, DispatchNew, Dispatch, Slot
<1>6. CASE Devices
  <2>1. UNCHANGED console
    BY <1>6, DevicesFrame
  <2>2. UNCHANGED lnRx \/ \E e : e.op \notin {"RD", "WR"} /\ lnRx' = lnRx \o <<e>>
    <3>1. ASSUME NEW s \in Held, NEW g \in DOMAIN Carries, NEW x \in Carries[g],
                 ThrottleSets(s, g, x)
          PROVE  SetMsg(g, s, bus'[s].val).op \notin {"RD", "WR"}
                 /\ lnRx' = lnRx \o <<SetMsg(g, s, bus'[s].val)>>
      BY <3>1 DEF ThrottleSets, Hear, SetMsg, Carries
    <3>2. ASSUME NEW a \in Addr, ThrottleAsks(a)
          PROVE  lnRx' = lnRx \o <<[op |-> "ADR", addr |-> a]>>
      BY <3>2 DEF Alone, ThrottleAsks, Hear
    <3>3. ASSUME NEW s \in Slot, ThrottleReads(s)
          PROVE  lnRx' = lnRx \o <<RqMsg(s)>> /\ RqMsg(s).op \notin {"RD", "WR"}
      BY <3>3 DEF Alone, ThrottleReads, MasterSays, Hear, RqMsg
    <3>4. ASSUME NEW src, NEW dst, Hear(<<MoveMsg(src, dst)>>)
          PROVE  lnRx' = lnRx \o <<MoveMsg(src, dst)>> /\ MoveMsg(src, dst).op \notin {"RD", "WR"}
      BY <3>4 DEF Hear, MoveMsg
    <3>5. CASE (\E src \in Held, dst \in Slot : ThrottleMoves(src, dst)) \/ ThrottleGets
               \/ \E s \in Held \cup GivenForZero : ThrottlePuts(s)
      BY <3>4, <3>5 DEF ThrottleMoves, ThrottleGets, ThrottlePuts
    <3>6. CASE \/ \E a \in Known, x \in Attr : CentralSets(a, x)
               \/ \E a \in Known : CentralTurns(a)
               \/ CentralStops
      BY <3>6 DEF CentralSets, CentralTurns, CentralStops, Receive
    <3>7. ~ \E s \in Held : ThrottleWrites(s)
      BY <1>2 DEF ThrottleWrites, Input
    <3> QED
      BY <1>6, <3>1, <3>2, <3>3, <3>5, <3>6, <3>7 DEF Devices
  <2>3. ASSUME NEW e, e.op \notin {"RD", "WR"}, lnRx' = lnRx \o <<e>>
        PROVE  Quiet(lnRx')
    <3>1. lnRx \in Seq(LnMessage \cup {e}) /\ <<e>> \in Seq(LnMessage \cup {e})
      BY <1>1
    <3>2. /\ Len(lnRx') = Len(lnRx) + 1 /\ Len(lnRx) \in Nat
          /\ \A i \in 1..Len(lnRx) : lnRx'[i] = lnRx[i]
          /\ lnRx'[Len(lnRx) + 1] = e
      BY <2>3, <3>1
    <3> QED
      BY <1>1, <2>3, <3>2
  <2> QED
    BY <1>1, <2>1, <2>2, <2>3
<1>7. CASE UNCHANGED vars
  BY <1>1, <1>7 DEF vars, busVars
<1> QED
  BY <1>3, <1>4, <1>5, <1>6, <1>7 DEF Next, ConsoleTask

LEMMA UniqueStep ==
  ASSUME Alone, TypeOK, UniqueInv, [Next]_vars
  PROVE  UniqueInv'
<1> DEFINE Differ(t) == \A s, r \in Slot : t[s].addr = t[r].addr /\ t[s].addr # 0 => s = r
           Named(t)  == \A s \in Slot : t[s].inUse <=> t[s].addr # 0
           Same(t)   == \A s \in Slot : t[s].addr = slots[s].addr /\ t[s].inUse = slots[s].inUse
<1>1. /\ slots \in [Slot -> SlotEntry] /\ Differ(slots) /\ Named(slots)
      /\ Mode = "ACTIVE" /\ console.at = 0
      /\ \A i \in 1..Len(lnRx) : lnRx[i].op \notin {"RD", "WR"}
  BY DEF TypeOK, UniqueInv, Alone
<1>2. SUFFICES Differ(slots') /\ Named(slots')
  BY NoReadHeard DEF UniqueInv
<1>3. ASSUME NEW t, Same(t)
      PROVE  Differ(t) /\ Named(t)
  BY <1>1, <1>3
<1>4. ASSUME NEW a \in Addr
      PROVE  /\ Allocated(a) \in [Slot -> SlotEntry]
             /\ Differ(Allocated(a)) /\ Named(Allocated(a))
  <2>1. initializeSlot(a).addr = a /\ initializeSlot(a).inUse
    BY DEF initializeSlot, Cleared
  <2>2. CASE findOrAllocate(a).new /\ findOrAllocate(a).slot # NoSlot
    <3> DEFINE f == findOrAllocate(a).slot
    <3>1. /\ f \in Slot /\ Allocated(a) = [slots EXCEPT ![f] = initializeSlot(a)]
          /\ \A s \in Slot : slots[s].addr # a
          /\ ~slots[f].inUse
      BY <1>1, <2>2, AllocateFinds DEF Allocated
    <3> HIDE DEF f
    <3>0. a # 0
      BY <1>1, <3>1
    <3>2. Differ(Allocated(a)) /\ Named(Allocated(a))
      BY <1>1, <2>1, <3>0, <3>1
    <3> QED
      BY <1>1, <3>2, AllocatedType
  <2>3. CASE ~(findOrAllocate(a).new /\ findOrAllocate(a).slot # NoSlot)
    BY <1>1, <2>3 DEF Allocated
  <2> QED
    BY <2>2, <2>3
<1>5. CASE UNCHANGED slots
  BY <1>1, <1>5
<1>6. CASE \E a \in Known : pc = "forward" /\ ForwardLocoChange(a)
  <2>1. PICK a \in Known : ForwardLocoChange(a)
    BY <1>6
  <2> DEFINE s == findOrAllocate(a).slot
             t == Allocated(a)
  <2>2. t \in [Slot -> SlotEntry] /\ Differ(t) /\ Named(t)
    BY <1>4
  <2>3. UNCHANGED slots \/ \E v : slots' = [t EXCEPT ![s].val = v]
    BY <1>1, <2>1 DEF ForwardLocoChange
  <2> HIDE DEF s, t
  <2>4. ASSUME NEW v, slots' = [t EXCEPT ![s].val = v]
        PROVE  \A q \in Slot : slots'[q].addr = t[q].addr /\ slots'[q].inUse = t[q].inUse
    BY <2>2, <2>4 DEF SlotEntry
  <2>5. ASSUME ~ UNCHANGED slots
        PROVE  Differ(slots') /\ Named(slots')
    <3>1. \A q \in Slot : slots'[q].addr = t[q].addr /\ slots'[q].inUse = t[q].inUse
      BY <2>3, <2>4, <2>5
    <3> QED
      BY <2>2, <3>1
  <2> QED
    BY <1>5, <2>5
<1>7. CASE pc = "ln" /\ process
  <2>1. lnRx # <<>> /\ Heard \in LnMessage /\ Heard.op \notin {"RD", "WR"}
    <3>1. lnRx # <<>> /\ LnHandled
      BY <1>7 DEF process, processLocoSpeed, processLocoFunctions, processLocoRequest,
         processRequestSlotRead, processSlotRead, processSlotMove, Hears
    <3>2. Heard = lnRx[1] /\ 1 \in 1..Len(lnRx)
      BY <3>1 DEF Heard, TypeOK
    <3> QED
      BY <1>1, <3>1, <3>2, HeardType
  <2> DEFINE s == Heard.slot
             e == EntryOf(s)
  <2>2. CASE processLocoSpeed \/ processLocoFunctions
    <3>1. s \in Slot
      BY <2>1, <2>2, MessageFields DEF processLocoSpeed, processLocoFunctions, Hears, Heard
    <3>2. PICK v, d : slots' = [slots EXCEPT ![s] = [e EXCEPT !.val = v, !.diff = d]]
      BY <2>2 DEF processLocoSpeed, processLocoFunctions
    <3>3. e \in SlotEntry /\ e.addr = slots[s].addr /\ e.inUse = slots[s].inUse
      BY <1>1, <3>1, RequestedType DEF EntryOf, SlotEntry
    <3> HIDE DEF e, s
    <3>4. Same(slots')
      BY <1>1, <3>1, <3>2, <3>3 DEF SlotEntry
    <3> QED
      BY <1>3, <3>4
  <2>3. CASE processLocoRequest
    <3>1. Heard.addr \in Addr
      BY <2>1, <2>3, MessageFields DEF processLocoRequest, Hears, Heard
    <3>2. slots' = Allocated(Heard.addr) \/ UNCHANGED slots
      BY <2>3 DEF processLocoRequest
    <3>3. Differ(Allocated(Heard.addr)) /\ Named(Allocated(Heard.addr))
      BY <1>4, <3>1
    <3>4. CASE slots' = Allocated(Heard.addr)
      BY <3>3, <3>4
    <3> QED
      BY <1>5, <3>2, <3>4
  <2>4. CASE processRequestSlotRead
    BY <1>5, <2>4 DEF processRequestSlotRead
  <2>5. ~ processSlotRead
    BY <2>1 DEF processSlotRead, Hears, Heard
  <2>6. CASE processSlotMove
    <3>1. \/ UNCHANGED slots
          \/ /\ slots' = [slots EXCEPT ![Heard.dst] = slots[s], ![s] = Cleared]
             /\ s # 0 /\ Heard.dst # 0 /\ Heard.dst # s
      BY <2>6 DEF processSlotMove
    <3>2. s \in Slot \cup {0} /\ Heard.dst \in Slot \cup {0}
      BY <2>1, <2>6, MessageFields DEF processSlotMove, Hears, Heard
    <3>3. Cleared.addr = 0 /\ ~Cleared.inUse
      BY DEF Cleared
    <3>4. ASSUME ~ UNCHANGED slots, NEW q \in Slot
          PROVE  slots'[q] = IF q = s THEN Cleared ELSE IF q = Heard.dst THEN slots[s] ELSE slots[q]
      BY <1>1, <3>1, <3>2, <3>4
    <3>5. ASSUME ~ UNCHANGED slots
          PROVE  Differ(slots') /\ Named(slots')
      BY <1>1, <3>1, <3>2, <3>3, <3>4, <3>5
    <3> QED
      BY <1>5, <3>5
  <2> QED
    BY <1>7, <2>2, <2>3, <2>4, <2>5, <2>6 DEF process
<1>8. CASE \E s \in Slot : pc = "match" /\ MatchAndForward(s)
  <2>1. PICK s \in Slot : slots' = [slots EXCEPT ![s].diff = {}, ![s].uid = MatchedUid(s)]
    BY <1>8 DEF MatchAndForward
  <2>2. Same(slots')
    BY <1>1, <2>1 DEF SlotEntry
  <2> QED
    BY <1>3, <2>2
<1>9. ~ DispatchNew
  BY <1>1 DEF DispatchNew
<1> QED
  BY <1>5, <1>6, <1>7, <1>8, <1>9, SlotEffect

\* The slot server never has an engine in two slots, for every number of slots
\* and engines, as long as only the RoutingTask assigns them.
THEOREM OneSlotEach == ASSUME Alone PROVE Spec => []UniqueSlot
<1>1. Init => UniqueInv
  BY DEF Init, UniqueInv, Cleared
<1>2. TypeOK /\ UniqueInv /\ [Next]_vars => UniqueInv'
  BY UniqueStep
<1>3. UniqueInv => UniqueSlot
  BY DEF UniqueInv, UniqueSlot
<1> QED
  BY <1>1, <1>2, <1>3, TypeCorrect, PTL DEF Spec

-----------------------------------------------------------------------------
(***************************************************************************)
(* Dispatch.  What is offered from the bus or from the console is a slot   *)
(* with an engine, although the console searches the table while the       *)
(* RoutingTask changes it.  The address 0 is asked for like any other, and *)
(* the search finds it in a cleared slot, which is not in use: from then   *)
(* on nothing is claimed of what is offered.                               *)
(***************************************************************************)
\* The gateway is the master and has assigned every slot itself, and nobody
\* moves a slot: a move clears the slot it starts from, dispatched or not.
Unmoved == Mode = "ACTIVE" /\ "MOVE" \notin Inputs /\ DOMAIN Assigned = {}

\* What the throttles have heard of a slot, what they will hear of it, and what
\* they said of it: it is in use, as long as nobody has asked for address 0.
OfferedTx(t, q) ==
  \A i \in 1..Len(q) : q[i].op = "RD" /\ q[i].addr # 0 => t[q[i].slot].inUse
OfferedRx(t, q, who) ==
  \A i \in 1..Len(q) :
    q[i].op = "MOVE" /\ q[i].slot # 0 =>
      q[i].dst = 0 /\ ("zero" \notin who => t[q[i].slot].inUse)

\* An address is in a slot in use only: the search of the console compares the
\* address and not the state of a slot.
DispatchInv ==
  /\ \A s \in Slot : slots[s].addr # 0 => slots[s].inUse
  /\ \A s \in Slot : bus[s].addr # 0 => slots[s].inUse
  /\ DispatchNamesEngine
  /\ OfferedTx(slots, lnTx)
  /\ OfferedRx(slots, lnRx, asked)
  /\ console.at # 0 /\ "zero" \notin asked => console.addr # 0

\* No slot goes out of use, and an address that is written makes it used.
Kept(t) == \A s \in Slot : /\ slots[s].inUse => t[s].inUse
                           /\ t[s].addr # 0 => t[s].inUse

-----------------------------------------------------------------------------
(***************************************************************************)
(* The table.                                                              *)
(***************************************************************************)
LEMMA EntryKept ==
  ASSUME slots \in [Slot -> SlotEntry], \A s \in Slot : slots[s].addr # 0 => slots[s].inUse,
         NEW s \in Slot, NEW e, e.inUse \/ (e.inUse = slots[s].inUse /\ e.addr = slots[s].addr)
  PROVE  Kept([slots EXCEPT ![s] = e])
BY DEF Kept

LEMMA SameKept ==
  ASSUME \A s \in Slot : slots[s].addr # 0 => slots[s].inUse
  PROVE  Kept(slots)
BY DEF Kept

LEMMA AllocatedKept ==
  ASSUME slots \in [Slot -> SlotEntry], \A s \in Slot : slots[s].addr # 0 => slots[s].inUse,
         NEW a \in Addr
  PROVE  /\ Allocated(a) \in [Slot -> SlotEntry] /\ Kept(Allocated(a))
<1> DEFINE f == findOrAllocate(a).slot
<1>1. f \in Slot \cup {NoSlot} /\ initializeSlot(a).inUse
  BY AllocateFinds DEF initializeSlot, Cleared
<1>2. CASE findOrAllocate(a).new /\ f # NoSlot
  <2>1. f \in Slot /\ Allocated(a) = [slots EXCEPT ![f] = initializeSlot(a)]
    BY <1>1, <1>2 DEF Allocated
  <2> HIDE DEF f
  <2>2. Kept(Allocated(a))
    BY <1>1, <2>1, EntryKept
  <2> QED
    BY <2>2, AllocatedType DEF f
<1>3. CASE ~(findOrAllocate(a).new /\ f # NoSlot)
  <2>1. Allocated(a) = slots
    BY <1>3 DEF Allocated
  <2> QED
    BY <2>1, SameKept
<1> QED
  BY <1>2, <1>3

\* The message the task hears, and what the invariant says of a move.
LEMMA HeardMove ==
  ASSUME TypeOK, DispatchInv, lnRx # <<>>
  PROVE  /\ Heard \in LnMessage
         /\ Heard.op = "MOVE" /\ Heard.slot # 0 =>
              /\ Heard.slot \in Slot /\ Heard.dst = 0
              /\ "zero" \notin asked => slots[Heard.slot].inUse
<1>1. lnRx \in Seq(LnMessage) /\ Heard = lnRx[1] /\ 1 \in 1..Len(lnRx)
  BY DEF TypeOK, Heard
<1>2. Heard \in LnMessage
  BY <1>1
<1>3. Heard.op = "MOVE" => Heard.slot \in Slot \cup {0}
  BY <1>2, MessageFields
<1>4. Heard.op = "MOVE" /\ Heard.slot # 0 =>
        Heard.dst = 0 /\ ("zero" \notin asked => slots[Heard.slot].inUse)
  BY <1>1 DEF DispatchInv, OfferedRx
<1> QED
  BY <1>2, <1>3, <1>4

LEMMA ProcessKept ==
  ASSUME TypeOK, DispatchInv, process
  PROVE  Kept(slots')
<1> DEFINE s == Heard.slot
<1>1. slots \in [Slot -> SlotEntry] /\ \A r \in Slot : slots[r].addr # 0 => slots[r].inUse
  BY DEF TypeOK, DispatchInv
<1>2. lnRx # <<>>
  BY DEF process, processLocoSpeed, processLocoFunctions, processLocoRequest,
     processRequestSlotRead, processSlotRead, processSlotMove, Hears
<1>3. Heard \in LnMessage
  BY <1>2, HeardMove
<1>4. ASSUME UNCHANGED slots PROVE Kept(slots')
  BY <1>1, <1>4, SameKept
<1>5. CASE processLocoSpeed \/ processLocoFunctions
  <2> DEFINE e == EntryOf(s)
  <2>1. s \in Slot
    BY <1>3, <1>5, MessageFields DEF processLocoSpeed, processLocoFunctions, Hears, Heard
  <2>2. PICK v, d : slots' = [slots EXCEPT ![s] = [e EXCEPT !.val = v, !.diff = d]]
    BY <1>5 DEF processLocoSpeed, processLocoFunctions
  <2>3. e \in SlotEntry /\ e.addr = slots[s].addr /\ e.inUse = slots[s].inUse
    <3>1. e \in SlotEntry
      BY <2>1, RequestedType
    <3>2. slots[s] \in SlotEntry
      BY <1>1, <2>1
    <3>3. e.addr = slots[s].addr /\ e.inUse = slots[s].inUse
      BY <3>2 DEF EntryOf, SlotEntry
    <3> QED
      BY <3>1, <3>3
  <2> HIDE DEF e, s
  <2>4. [e EXCEPT !.val = v, !.diff = d].addr = e.addr
        /\ [e EXCEPT !.val = v, !.diff = d].inUse = e.inUse
    BY <2>3 DEF SlotEntry
  <2> QED
    BY <1>1, <2>1, <2>2, <2>3, <2>4, EntryKept
<1>6. CASE processLocoRequest
  <2>1. Heard.addr \in Addr
    BY <1>3, <1>6, MessageFields DEF processLocoRequest, Hears, Heard
  <2>2. slots' = Allocated(Heard.addr) \/ UNCHANGED slots
    BY <1>6 DEF processLocoRequest
  <2> QED
    BY <1>1, <1>4, <2>1, <2>2, AllocatedKept
<1>7. CASE processRequestSlotRead
  BY <1>4, <1>7 DEF processRequestSlotRead
<1>8. CASE processSlotRead
  <2>1. s \in Slot
    BY <1>3, <1>8, MessageFields DEF processSlotRead, Hears, Heard
  <2>2. PICK e : e.inUse /\ slots' = [slots EXCEPT ![s] = e]
    BY <1>8 DEF processSlotRead
  <2> QED
    BY <1>1, <2>1, <2>2, EntryKept
<1>9. CASE processSlotMove
  <2>1. Heard.slot # 0 => Heard.dst = 0
    BY <1>2, <1>9, HeardMove DEF processSlotMove, Hears, Heard
  <2> QED
    BY <1>4, <1>9, <2>1 DEF processSlotMove
<1> QED
  BY <1>5, <1>6, <1>7, <1>8, <1>9 DEF process

LEMMA SlotsKept ==
  ASSUME TypeOK, DispatchInv, [Next]_vars
  PROVE  Kept(slots')
<1>1. slots \in [Slot -> SlotEntry] /\ \A r \in Slot : slots[r].addr # 0 => slots[r].inUse
  BY DEF TypeOK, DispatchInv
<1>2. CASE UNCHANGED slots
  BY <1>1, <1>2, SameKept
<1>3. ASSUME NEW a \in Known, ForwardLocoChange(a)
      PROVE  Kept(slots')
  <2> DEFINE s == IF Mode = "ACTIVE" THEN findOrAllocate(a).slot ELSE findSlotForAddress(a)
             t == IF Mode = "ACTIVE" THEN Allocated(a) ELSE slots
  <2>1. t \in [Slot -> SlotEntry] /\ Kept(t)
    BY <1>1, AllocatedKept, SameKept
  <2>2. UNCHANGED slots \/ \E v : slots' = [t EXCEPT ![s].val = v]
    BY <1>3 DEF ForwardLocoChange
  <2> HIDE DEF s, t
  <2>3. ASSUME NEW v, slots' = [t EXCEPT ![s].val = v], NEW q \in Slot
        PROVE  slots'[q].addr = t[q].addr /\ slots'[q].inUse = t[q].inUse
    BY <2>1, <2>3 DEF SlotEntry
  <2> QED
    BY <1>2, <2>1, <2>2, <2>3 DEF Kept
<1>4. ASSUME NEW s \in Slot, MatchAndForward(s)
      PROVE  Kept(slots')
  <2>1. slots' = [slots EXCEPT ![s].diff = {}, ![s].uid = MatchedUid(s)]
    BY <1>4 DEF MatchAndForward
  <2>2. \A q \in Slot : slots'[q].addr = slots[q].addr /\ slots'[q].inUse = slots[q].inUse
    BY <1>1, <2>1 DEF SlotEntry
  <2> QED
    BY <1>1, <2>2 DEF Kept
<1>5. CASE DispatchNew
  <2>1. \/ UNCHANGED slots
        \/ console.free \in Slot
           /\ slots' = [slots EXCEPT ![console.free] = initializeSlot(console.addr)]
    BY <1>5 DEF DispatchNew, TypeOK
  <2>2. initializeSlot(console.addr).inUse
    BY DEF initializeSlot, Cleared
  <2> QED
    BY <1>1, <1>2, <2>1, <2>2, EntryKept
<1> QED
  BY <1>2, <1>3, <1>4, <1>5, ProcessKept, SlotEffect

-----------------------------------------------------------------------------
(***************************************************************************)
(* The messages to the bus.                                                *)
(***************************************************************************)
\* A table in which no slot goes out of use keeps what was said before.
LEMMA StillOffered ==
  ASSUME TypeOK, DispatchInv, Kept(slots')
  PROVE  OfferedTx(slots', lnTx) /\ OfferedRx(slots', lnRx, asked)
<1>1. \A i \in 1..Len(lnTx) : lnTx[i] \in LnMessage
  BY DEF TypeOK
<1>2. \A i \in 1..Len(lnRx) : lnRx[i] \in LnMessage
  BY DEF TypeOK
<1>3. ASSUME NEW i \in 1..Len(lnTx), lnTx[i].op = "RD", lnTx[i].addr # 0
      PROVE  slots'[lnTx[i].slot].inUse
  <2>1. lnTx[i].slot \in Slot /\ slots[lnTx[i].slot].inUse
    BY <1>1, <1>3, MessageFields DEF DispatchInv, OfferedTx
  <2> QED
    BY <2>1 DEF Kept
<1>4. ASSUME NEW i \in 1..Len(lnRx), lnRx[i].op = "MOVE", lnRx[i].slot # 0
      PROVE  lnRx[i].dst = 0 /\ ("zero" \notin asked => slots'[lnRx[i].slot].inUse)
  <2>1. /\ lnRx[i].slot \in Slot /\ lnRx[i].dst = 0
        /\ "zero" \notin asked => slots[lnRx[i].slot].inUse
    BY <1>2, <1>4, MessageFields DEF DispatchInv, OfferedRx
  <2> QED
    BY <2>1 DEF Kept
<1> QED
  BY <1>3, <1>4 DEF OfferedTx, OfferedRx

\* One more message that offers nothing, or a slot in use.
LEMMA SentOffered ==
  ASSUME NEW t, NEW q \in Seq(LnMessage), OfferedTx(t, q), NEW m \in LnMessage,
         m.op = "RD" /\ m.addr # 0 => t[m.slot].inUse
  PROVE  OfferedTx(t, AsyncSend(q, m))
<1>1. /\ Append(q, m) \in Seq(LnMessage) /\ Len(q) \in Nat /\ Len(Append(q, m)) = Len(q) + 1
      /\ \A i \in 1..Len(q) : Append(q, m)[i] = q[i]
      /\ Append(q, m)[Len(q) + 1] = m
  OBVIOUS
<1>2. \A i \in 1..Len(Append(q, m)) : i \in 1..Len(q) \/ i = Len(q) + 1
  BY <1>1
<1>3. OfferedTx(t, Append(q, m))
  BY <1>1, <1>2 DEF OfferedTx
<1> QED
  BY <1>3 DEF AsyncSend

LEMMA ChangesOffered ==
  ASSUME NEW t, NEW q \in Seq(LnMessage), Len(q) <= LnDepth, OfferedTx(t, q), NEW s \in Slot,
         NEW e, e.val \in [Attr -> Value]
  PROVE  OfferedTx(t, SendChanges(q, s, e))
<1> DEFINE w == ShownOnLn(e.val)
           one(r, g) == IF Carries[g] \cap e.diff # {} THEN AsyncSend(r, SetMsg(g, s, w)) ELSE r
           Good(r) == r \in Seq(LnMessage) /\ Len(r) <= LnDepth /\ OfferedTx(t, r)
<1>1. ASSUME NEW r, Good(r), NEW g \in {"SPD", "DIRF", "SND2"}
      PROVE  Good(one(r, g))
  <2>0. w \in [Attr -> Value]
    BY Shown
  <2> HIDE DEF w
  <2>1. SetMsg(g, s, w) \in LnMessage /\ SetMsg(g, s, w).op # "RD"
    BY <2>0, MessageTypes DEF SetMsg
  <2>2. Good(AsyncSend(r, SetMsg(g, s, w)))
    BY <1>1, <2>1, AsyncSendType, SentOffered
  <2> QED
    BY <1>1, <2>2
<1>2. SendChanges(q, s, e) = one(one(one(q, "SPD"), "DIRF"), "SND2")
  BY DEF SendChanges
<1> HIDE DEF one
<1>3. Good(one(q, "SPD"))
  BY <1>1
<1>4. Good(one(one(q, "SPD"), "DIRF"))
  BY <1>1, <1>3
<1> QED
  BY <1>1, <1>2, <1>4

LEMMA TxKept ==
  ASSUME Unmoved, TypeOK, DispatchInv, [Next]_vars
  PROVE  OfferedTx(slots', lnTx')
<1>1. Kept(slots')
  BY SlotsKept
<1>2. OfferedTx(slots', lnTx) /\ lnTx \in Seq(LnMessage) /\ Len(lnTx) <= LnDepth
  BY <1>1, StillOffered DEF TypeOK
<1>3. CASE UNCHANGED lnTx
  BY <1>2, <1>3
<1>4. CASE lnTx # <<>> /\ lnTx' = Tail(lnTx)
  <2>1. Len(lnTx') = Len(lnTx) - 1 /\ Len(lnTx) \in Nat
        /\ \A i \in 1..Len(lnTx') : lnTx'[i] = lnTx[i + 1]
    BY <1>2, <1>4
  <2>2. \A i \in 1..Len(lnTx') : i + 1 \in 1..Len(lnTx)
    BY <2>1
  <2> QED
    BY <1>2, <2>1, <2>2 DEF OfferedTx
<1>5. ASSUME NEW m \in LnMessage, lnTx' = AsyncSend(lnTx, m),
             m.op = "RD" /\ m.addr # 0 => slots'[m.slot].inUse
      PROVE  OfferedTx(slots', lnTx')
  BY <1>2, <1>5, SentOffered
<1>6. ASSUME NEW a \in Known, ForwardLocoChange(a), ~ UNCHANGED lnTx
      PROVE  OfferedTx(slots', lnTx')
  <2> DEFINE s == findOrAllocate(a).slot
  <2>1. s \in Slot /\ lnTx' = SendChanges(lnTx, s, db[a])
    BY <1>6, AllocateFinds DEF ForwardLocoChange, Unmoved, TypeOK
  <2>2. db[a].val \in [Attr -> Value]
    BY DEF TypeOK
  <2> HIDE DEF s
  <2> QED
    BY <1>2, <2>1, <2>2, ChangesOffered
<1>7. CASE process /\ ~ UNCHANGED lnTx
  <2>1. lnRx # <<>>
    BY <1>7 DEF process, processLocoSpeed, processLocoFunctions, processLocoRequest,
       processRequestSlotRead, processSlotRead, processSlotMove, Hears
  <2>2. Heard \in LnMessage
    BY <2>1, HeardMove
  <2>3. LongAck \in LnMessage /\ LongAck.op # "RD"
    BY MessageTypes DEF LongAck
  <2>4. CASE processLocoSpeed \/ processLocoFunctions
    <3>1. Heard.slot \in Slot /\ lnTx' = Requested(Heard.slot)
      BY <2>2, <2>4, MessageFields DEF processLocoSpeed, processLocoFunctions, Hears, Heard
    <3>2. RqMsg(Heard.slot) \in LnMessage /\ RqMsg(Heard.slot).op # "RD"
      BY <3>1, MessageTypes DEF RqMsg
    <3>3. lnTx' = AsyncSend(lnTx, RqMsg(Heard.slot))
      BY <1>7, <3>1 DEF Requested
    <3> QED
      BY <1>5, <3>2, <3>3
  <2>5. CASE processLocoRequest
    <3> DEFINE a == Heard.addr
               s == findOrAllocate(a).slot
               m == RdMsg("RD", s, Allocated(a)[s].addr, ShownOnLn(Allocated(a)[s].val))
    <3>1. a \in Addr
      BY <2>2, <2>5, MessageFields DEF processLocoRequest, Hears, Heard
    <3>2. s # NoSlot /\ slots' = Allocated(a) /\ lnTx' = AsyncSend(lnTx, m)
      BY <1>7, <2>5 DEF processLocoRequest
    <3>3. s \in Slot /\ Allocated(a) \in [Slot -> SlotEntry] /\ Kept(Allocated(a))
      BY <3>1, <3>2, AllocateFinds, AllocatedKept DEF TypeOK, DispatchInv
    <3>4. m \in LnMessage
      BY <3>3, MessageTypes, EntryUpdates, Shown
    <3>5. m.slot = s /\ m.addr = Allocated(a)[s].addr
      BY DEF RdMsg
    <3> HIDE DEF m, s, a
    <3>6. m.addr # 0 => slots'[m.slot].inUse
      BY <3>2, <3>3, <3>5 DEF Kept
    <3> QED
      BY <1>5, <3>2, <3>4, <3>6
  <2>6. CASE processRequestSlotRead
    <3> DEFINE s == Heard.slot
               m == RdMsg("RD", s, slots[s].addr, ShownOnLn(slots[s].val))
    <3>1. s \in Slot
      BY <2>2, <2>6, MessageFields DEF processRequestSlotRead, Hears, Heard
    <3>2. UNCHANGED slots /\ lnTx' = AsyncSend(lnTx, m)
      BY <2>6 DEF processRequestSlotRead
    <3>3. m \in LnMessage
      BY <3>1, MessageTypes, EntryUpdates, Shown DEF TypeOK
    <3>4. m.slot = s /\ m.addr = slots[s].addr
      BY DEF RdMsg
    <3> HIDE DEF m, s
    <3>5. m.addr # 0 => slots'[m.slot].inUse
      BY <3>1, <3>2, <3>4 DEF DispatchInv
    <3> QED
      BY <1>5, <3>2, <3>3, <3>5
  <2>7. CASE processSlotRead
    <3>1. lnTx' = AsyncSend(lnTx, LongAck)
      BY <1>7, <2>7 DEF processSlotRead
    <3> QED
      BY <1>5, <2>3, <3>1
  <2>8. CASE processSlotMove
    <3> DEFINE s == inDispatch
               m == RdMsg("RD", s, slots[s].addr, ShownOnLn(slots[s].val))
    <3>1. UNCHANGED slots \/ (Heard.slot # 0 /\ Heard.dst # 0)
      BY <2>8 DEF processSlotMove
    <3>2. UNCHANGED slots
      BY <2>1, <2>8, <3>1, HeardMove DEF processSlotMove, Hears, Heard
    <3>3. \/ lnTx' = AsyncSend(lnTx, LongAck)
          \/ s # NoSlot /\ lnTx' = AsyncSend(lnTx, m)
      BY <1>7, <2>8 DEF processSlotMove
    <3>4. ASSUME s # NoSlot
          PROVE  m \in LnMessage /\ m.slot = s /\ (m.addr # 0 => slots[s].inUse)
      <4>1. s \in Slot /\ (slots[s].addr # 0 => slots[s].inUse)
        BY <3>4 DEF TypeOK, DispatchInv
      <4>2. m \in LnMessage
        BY <4>1, MessageTypes, EntryUpdates, Shown DEF TypeOK
      <4> QED
        BY <4>1, <4>2 DEF RdMsg
    <3> HIDE DEF m, s
    <3> QED
      BY <1>5, <2>3, <3>2, <3>3, <3>4
  <2> QED
    BY <1>7, <2>4, <2>5, <2>6, <2>7, <2>8 DEF process
<1>8. \/ UNCHANGED lnTx \/ (lnTx # <<>> /\ lnTx' = Tail(lnTx))
      \/ process \/ \E a \in Known : ForwardLocoChange(a)
  <2>1. CASE RoutingTask
    BY <2>1 DEF RoutingTask, Wake, HandleCan, CanDone, ForwardDone, LnDone, MatchDone,
       MatchAndForward
  <2>2. CASE ConsoleTask \/ \E a \in Addr : Dispatch(a)
    BY <2>2 DEF ConsoleTask, DoBlockingSend, DispatchSearch, DispatchNew, Dispatch
  <2>3. CASE Devices
    BY <2>3, DevicesFrame
  <2>4. CASE UNCHANGED vars
    BY <2>4 DEF vars
  <2> QED
    BY <2>1, <2>2, <2>3, <2>4 DEF Next
<1> QED
  BY <1>3, <1>4, <1>6, <1>7, <1>8

-----------------------------------------------------------------------------
(***************************************************************************)
(* What the throttles hold and say.                                        *)
(***************************************************************************)
LEMMA BusKept ==
  ASSUME Unmoved, TypeOK, DispatchInv, [Next]_vars, NEW s \in Slot, bus'[s].addr # 0
  PROVE  slots'[s].inUse
<1>1. Kept(slots') /\ bus \in [Slot -> [addr : Addr \cup {0}, val : [Attr -> Value]]]
  BY SlotsKept DEF TypeOK
<1>2. CASE bus'[s].addr = bus[s].addr
  BY <1>1, <1>2 DEF DispatchInv, Kept
<1>3. CASE DoBlockingSend
  <2> DEFINE m == Head(lnTx)
  <2>1. UNCHANGED slots /\ BusHears(m) /\ lnTx # <<>>
    BY <1>3 DEF DoBlockingSend
  <2>2. m = lnTx[1] /\ 1 \in 1..Len(lnTx) /\ m \in LnMessage
    BY <2>1 DEF TypeOK
  <2>3. m.op = "RD" /\ m.addr # 0 => slots[m.slot].inUse
    BY <2>2 DEF DispatchInv, OfferedTx
  <2> HIDE DEF m
  <2>4. CASE m.op \in DOMAIN Carries
    <3>1. PICK v : bus' = [bus EXCEPT ![m.slot].val = v]
      BY <2>1, <2>4 DEF BusHears, Carries
    <3>2. bus'[s].addr = bus[s].addr
      BY <1>1, <3>1
    <3> QED
      BY <1>2, <3>2
  <2>5. CASE m.op = "RD"
    <3>1. m.slot \in Slot
      BY <2>2, <2>5, MessageFields
    <3>2. PICK v : bus' = [bus EXCEPT ![m.slot] = [addr |-> m.addr, val |-> v]]
      BY <2>1, <2>5 DEF BusHears, Carries, Unmoved
    <3>3. bus'[s].addr = IF s = m.slot THEN m.addr ELSE bus[s].addr
      BY <1>1, <3>1, <3>2
    <3> QED
      BY <1>2, <2>1, <2>3, <2>5, <3>3
  <2>6. CASE m.op \notin DOMAIN Carries /\ m.op # "RD"
    BY <1>2, <2>1, <2>6 DEF BusHears, Unmoved
  <2> QED
    BY <2>4, <2>5, <2>6
<1>4. CASE Devices
  <2>1. ASSUME NEW r, NEW g, NEW x, ThrottleSets(r, g, x)
        PROVE  bus'[s].addr = bus[s].addr
    <3>1. PICK v : bus' = [bus EXCEPT ![r].val[x] = v]
      BY <2>1 DEF ThrottleSets
    <3> QED
      BY <1>1, <3>1
  <2>2. ~ \E src, dst : ThrottleMoves(src, dst)
    BY DEF ThrottleMoves, Input, Another, Unmoved
  <2>3. CASE UNCHANGED bus
    BY <1>2, <2>3
  <2> QED
    BY <1>2, <1>4, <2>1, <2>2, <2>3 DEF Devices, ThrottleAsks, ThrottleReads, ThrottleWrites,
       ThrottleGets, ThrottlePuts, CentralSets, CentralTurns, CentralStops, Receive, Unmoved
<1>5. CASE RoutingTask
  <2>1. UNCHANGED bus
    BY <1>5 DEF RoutingTask, Wake, HandleCan, CanDone, ForwardDone, LnDone, MatchDone, busVars,
       ForwardLocoChange, MatchAndForward, process, processLocoSpeed, processLocoFunctions,
       processLocoRequest, processRequestSlotRead, processSlotRead, processSlotMove, LnHandled
  <2> QED
    BY <1>2, <2>1
<1>6. CASE DispatchSearch \/ DispatchNew \/ (\E a \in Addr : Dispatch(a)) \/ UNCHANGED vars
  <2>1. UNCHANGED bus
    BY <1>6 DEF DispatchSearch, DispatchNew, Dispatch, vars, busVars
  <2> QED
    BY <1>2, <2>1
<1> QED
  BY <1>3, <1>4, <1>5, <1>6 DEF Next, ConsoleTask

\* What was once asked for is not forgotten.
LEMMA StillAsked ==
  ASSUME [Next]_vars
  PROVE  asked \subseteq asked'
<1>1. CASE RoutingTask
  BY <1>1 DEF RoutingTask, Wake, HandleCan, CanDone, ForwardDone, LnDone, MatchDone, busVars,
     ForwardLocoChange, MatchAndForward, process, processLocoSpeed, processLocoFunctions,
     processLocoRequest, processRequestSlotRead, processSlotRead, processSlotMove, LnHandled
<1>2. CASE ConsoleTask \/ (\E a \in Addr : Dispatch(a)) \/ UNCHANGED vars
  BY <1>2 DEF ConsoleTask, DoBlockingSend, DispatchSearch, DispatchNew, Dispatch, Asks, vars,
     busVars
<1>3. CASE Devices
  BY <1>3 DEF Devices, ThrottleSets, ThrottleAsks, ThrottleReads, ThrottleWrites, ThrottleMoves,
     ThrottleGets, ThrottlePuts, CentralSets, CentralTurns, CentralStops, Input, Asks
<1> QED
  BY <1>1, <1>2, <1>3 DEF Next

LEMMA RxKept ==
  ASSUME Unmoved, TypeOK, DispatchInv, [Next]_vars
  PROVE  OfferedRx(slots', lnRx', asked')
<1>1. Kept(slots')
  BY SlotsKept
<1>2. OfferedRx(slots', lnRx, asked') /\ lnRx \in Seq(LnMessage)
  BY <1>1, StillOffered, StillAsked DEF OfferedRx, TypeOK
<1>3. CASE UNCHANGED lnRx
  BY <1>2, <1>3
<1>4. CASE lnRx # <<>> /\ lnRx' = Tail(lnRx)
  <2>1. Len(lnRx') = Len(lnRx) - 1 /\ Len(lnRx) \in Nat
        /\ \A i \in 1..Len(lnRx') : lnRx'[i] = lnRx[i + 1]
    BY <1>2, <1>4
  <2>2. \A i \in 1..Len(lnRx') : i + 1 \in 1..Len(lnRx)
    BY <2>1
  <2> QED
    BY <1>2, <2>1, <2>2 DEF OfferedRx
<1>5. ASSUME NEW e, lnRx' = lnRx \o <<e>>,
             e.op = "MOVE" /\ e.slot # 0 =>
               e.dst = 0 /\ ("zero" \notin asked' => slots'[e.slot].inUse)
      PROVE  OfferedRx(slots', lnRx', asked')
  <2>1. lnRx \in Seq(LnMessage \cup {e}) /\ <<e>> \in Seq(LnMessage \cup {e})
    BY <1>2
  <2>2. /\ Len(lnRx') = Len(lnRx) + 1 /\ Len(lnRx) \in Nat
        /\ \A i \in 1..Len(lnRx) : lnRx'[i] = lnRx[i]
        /\ lnRx'[Len(lnRx) + 1] = e
    BY <1>5, <2>1
  <2>3. \A i \in 1..Len(lnRx') : i \in 1..Len(lnRx) \/ i = Len(lnRx) + 1
    BY <2>2
  <2> QED
    BY <1>2, <1>5, <2>2, <2>3 DEF OfferedRx
<1>6. CASE RoutingTask
  <2>1. UNCHANGED lnRx \/ (lnRx # <<>> /\ lnRx' = Tail(lnRx))
    BY <1>6 DEF RoutingTask, Wake, HandleCan, CanDone, ForwardDone, LnDone, MatchDone, busVars,
       ForwardLocoChange, MatchAndForward, process, processLocoSpeed, processLocoFunctions,
       processLocoRequest, processRequestSlotRead, processSlotRead, processSlotMove, LnHandled,
       Hears
  <2> QED
    BY <1>3, <1>4, <2>1
<1>7. CASE ConsoleTask \/ (\E a \in Addr : Dispatch(a)) \/ UNCHANGED vars
  <2>1. UNCHANGED lnRx
    BY <1>7 DEF ConsoleTask, DoBlockingSend, BusHears, Unmoved, DispatchSearch, DispatchNew,
       Dispatch, vars, busVars
  <2> QED
    BY <1>3, <2>1
<1>8. CASE Devices
  <2>1. UNCHANGED slots
    BY <1>8, DevicesFrame
  <2>2. ASSUME NEW r \in Held, NEW g \in DOMAIN Carries, NEW x \in Carries[g],
               ThrottleSets(r, g, x)
        PROVE  OfferedRx(slots', lnRx', asked')
    <3> DEFINE m == SetMsg(g, r, bus'[r].val)
    <3>1. lnRx' = lnRx \o <<m>> /\ m.op # "MOVE"
      BY <2>2 DEF ThrottleSets, Hear, SetMsg, Carries
    <3> HIDE DEF m
    <3> QED
      BY <1>5, <3>1
  <2>3. ASSUME NEW a \in Addr, ThrottleAsks(a)
        PROVE  OfferedRx(slots', lnRx', asked')
    <3> DEFINE m == [op |-> "ADR", addr |-> a]
    <3>1. lnRx' = lnRx \o <<m>> /\ m.op # "MOVE"
      BY <2>3 DEF ThrottleAsks, Hear, Unmoved
    <3> HIDE DEF m
    <3> QED
      BY <1>5, <3>1
  <2>4. ASSUME NEW r \in Slot, ThrottleReads(r)
        PROVE  OfferedRx(slots', lnRx', asked')
    <3> DEFINE m == RqMsg(r)
    <3>1. lnRx' = lnRx \o <<m>> /\ m.op # "MOVE"
      BY <2>4 DEF ThrottleReads, MasterSays, Hear, RqMsg, Unmoved
    <3> HIDE DEF m
    <3> QED
      BY <1>5, <3>1
  <2>5. ASSUME NEW r \in Held, ThrottleWrites(r)
        PROVE  OfferedRx(slots', lnRx', asked')
    <3> DEFINE m == RdMsg("WR", r, bus[r].addr, bus[r].val)
    <3>1. lnRx' = lnRx \o <<m>> /\ m.op # "MOVE"
      BY <2>5 DEF ThrottleWrites, Hear, RdMsg
    <3> HIDE DEF m
    <3> QED
      BY <1>5, <3>1
  <2>6. ~ \E src, dst : ThrottleMoves(src, dst)
    BY DEF ThrottleMoves, Input, Another, Unmoved
  <2>7. CASE ThrottleGets
    <3> DEFINE m == MoveMsg(0, 0)
    <3>1. lnRx' = lnRx \o <<m>> /\ m.slot = 0
      BY <2>7 DEF ThrottleGets, Hear, MoveMsg
    <3> HIDE DEF m
    <3> QED
      BY <1>5, <3>1
  <2>8. ASSUME NEW r \in Held \cup GivenForZero, ThrottlePuts(r)
        PROVE  OfferedRx(slots', lnRx', asked')
    <3> DEFINE m == MoveMsg(r, 0)
    <3>1. lnRx' = lnRx \o <<m>> /\ m.slot = r /\ m.dst = 0
      BY <2>8 DEF ThrottlePuts, Hear, MoveMsg
    <3>2. "zero" \notin asked' => slots'[r].inUse
      BY <2>1, StillAsked DEF Held, GivenForZero, DispatchInv
    <3> HIDE DEF m
    <3> QED
      BY <1>5, <3>1, <3>2
  <2>9. CASE \/ \E a \in Known, x \in Attr : CentralSets(a, x)
             \/ \E a \in Known : CentralTurns(a)
             \/ CentralStops
    BY <1>3, <2>9 DEF CentralSets, CentralTurns, CentralStops, Receive
  <2> QED
    BY <1>8, <2>2, <2>3, <2>4, <2>5, <2>6, <2>7, <2>8, <2>9 DEF Devices
<1> QED
  BY <1>6, <1>7, <1>8 DEF Next

-----------------------------------------------------------------------------
(***************************************************************************)
(* The dispatched slot.                                                    *)
(***************************************************************************)
LEMMA ConsoleStep ==
  ASSUME TypeOK, DispatchInv, [Next]_vars
  PROVE  console'.at # 0 /\ "zero" \notin asked' => console'.addr # 0
<1> SUFFICES ASSUME "zero" \notin asked' PROVE console'.at # 0 => console'.addr # 0
  OBVIOUS
<1>1. console \in [at : 0..(NumSlots + 1), addr : Addr \cup {0}, free : Slot \cup {NoSlot}]
      /\ (console.at # 0 => console.addr # 0)
  BY StillAsked DEF TypeOK, DispatchInv
<1>2. CASE UNCHANGED console
  BY <1>1, <1>2
<1>3. ASSUME NEW a \in Addr, Dispatch(a) PROVE console'.addr # 0
  BY <1>3 DEF Dispatch, Asks
<1>4. CASE DispatchSearch
  <2>1. console.at # 0
    BY <1>4 DEF DispatchSearch, Slot
  <2>2. PICK n, f : \/ console' = [console EXCEPT !.at = n]
                    \/ console' = [console EXCEPT !.at = n, !.free = f]
    BY <1>4, Zenon DEF DispatchSearch
  <2>3. console'.addr = console.addr
    BY <1>1, <2>2
  <2> QED
    BY <1>1, <2>1, <2>3
<1>5. CASE DispatchNew
  BY <1>1, <1>5 DEF DispatchNew
<1>6. CASE RoutingTask
  BY <1>2, <1>6 DEF RoutingTask, Wake, HandleCan, CanDone, ForwardDone, LnDone, MatchDone,
     ForwardLocoChange, MatchAndForward, process, processLocoSpeed, processLocoFunctions,
     processLocoRequest, processRequestSlotRead, processSlotRead, processSlotMove, LnHandled
<1>7. CASE DoBlockingSend \/ Devices \/ UNCHANGED vars
  BY <1>2, <1>7, DevicesFrame DEF DoBlockingSend, vars
<1> QED
  BY <1>3, <1>4, <1>5, <1>6, <1>7 DEF Next, ConsoleTask

LEMMA DispatchedStep ==
  ASSUME TypeOK, DispatchInv, [Next]_vars
  PROVE  DispatchNamesEngine'
<1> SUFFICES ASSUME inDispatch' # NoSlot, "zero" \notin asked' PROVE slots'[inDispatch'].inUse
  BY DEF DispatchNamesEngine
<1>0. "zero" \notin asked
  BY StillAsked
<1>1. Kept(slots')
  BY SlotsKept
<1>2. CASE UNCHANGED inDispatch
  BY <1>0, <1>1, <1>2 DEF TypeOK, DispatchInv, DispatchNamesEngine, Kept
<1>3. CASE processSlotMove /\ ~ UNCHANGED inDispatch
  <2>1. inDispatch' = Heard.slot /\ Heard.slot # 0 /\ UNCHANGED slots
    BY <1>3 DEF processSlotMove
  <2>2. lnRx # <<>> /\ Heard.op = "MOVE"
    BY <1>3 DEF processSlotMove, Hears, Heard
  <2> QED
    BY <1>0, <2>1, <2>2, HeardMove
<1>4. CASE DispatchSearch /\ ~ UNCHANGED inDispatch
  <2>1. /\ console.at \in Slot /\ slots[console.at].addr = console.addr
        /\ inDispatch' = console.at /\ UNCHANGED slots
    BY <1>4 DEF DispatchSearch
  <2>2. console.addr # 0
    BY <1>0, <2>1 DEF DispatchInv, Slot
  <2> QED
    BY <2>1, <2>2 DEF DispatchInv
<1>5. CASE DispatchNew /\ ~ UNCHANGED inDispatch
  <2>1. /\ console.free # NoSlot /\ inDispatch' = console.free
        /\ slots' = [slots EXCEPT ![console.free] = initializeSlot(console.addr)]
    BY <1>5 DEF DispatchNew
  <2>2. console.free \in Slot /\ slots \in [Slot -> SlotEntry]
    BY <2>1 DEF TypeOK
  <2>3. initializeSlot(console.addr).inUse
    BY DEF initializeSlot, Cleared
  <2> QED
    BY <2>1, <2>2, <2>3
<1>6. UNCHANGED inDispatch \/ processSlotMove \/ DispatchSearch \/ DispatchNew
  <2>1. CASE RoutingTask
    BY <2>1 DEF RoutingTask, Wake, HandleCan, CanDone, ForwardDone, LnDone, MatchDone,
       ForwardLocoChange, MatchAndForward, process, processLocoSpeed, processLocoFunctions,
       processLocoRequest, processRequestSlotRead, processSlotRead
  <2>2. CASE ConsoleTask \/ \E a \in Addr : Dispatch(a)
    BY <2>2 DEF ConsoleTask, DoBlockingSend, Dispatch, taskVars
  <2>3. CASE Devices \/ UNCHANGED vars
    BY <2>3, DevicesFrame DEF vars, taskVars
  <2> QED
    BY <2>1, <2>2, <2>3 DEF Next
<1> QED
  BY <1>2, <1>3, <1>4, <1>5, <1>6

LEMMA DispatchStep ==
  ASSUME Unmoved, TypeOK, DispatchInv, [Next]_vars
  PROVE  DispatchInv'
<1>1. Kept(slots')
  BY SlotsKept
<1>2. \A s \in Slot : slots'[s].addr # 0 => slots'[s].inUse
  BY <1>1 DEF Kept
<1>3. \A s \in Slot : bus'[s].addr # 0 => slots'[s].inUse
  BY BusKept
<1>4. DispatchNamesEngine' /\ OfferedTx(slots', lnTx') /\ OfferedRx(slots', lnRx', asked')
      /\ (console'.at # 0 /\ "zero" \notin asked' => console'.addr # 0)
  BY DispatchedStep, TxKept, RxKept, ConsoleStep
<1> QED
  BY <1>2, <1>3, <1>4 DEF DispatchInv, OfferedTx, OfferedRx

LEMMA DispatchInit == ASSUME Unmoved, Init PROVE DispatchInv
<1>1. lnTx = <<>> /\ lnRx = <<>> /\ Len(<<>>) = 0
  BY DEF Init
<1>2. \A s \in Slot : slots[s].addr = 0 /\ bus[s].addr = 0
  BY DEF Init, InitBus, Unmoved, Cleared
<1> QED
  BY <1>1, <1>2 DEF Init, DispatchInv, DispatchNamesEngine, OfferedTx, OfferedRx

\* The slot that is offered for dispatch holds an engine, for every number of
\* slots and engines, whatever the console's search is interrupted by, as long
\* as no slot is moved and nobody, on LocoNet or at the console, has asked for
\* address 0.
THEOREM DispatchesEngine == ASSUME Unmoved PROVE Spec => []DispatchNamesEngine
<1>1. Init => DispatchInv
  BY DispatchInit
<1>2. TypeOK /\ DispatchInv /\ [Next]_vars => DispatchInv'
  BY DispatchStep
<1>3. DispatchInv => DispatchNamesEngine
  BY DEF DispatchInv
<1> QED
  BY <1>1, <1>2, <1>3, TypeCorrect, PTL DEF Spec
-----------------------------------------------------------------------------
(***************************************************************************)
(* Which engine is in a slot.                                              *)
(***************************************************************************)
SameEngines(t) == \A s \in Slot : t[s].addr = slots[s].addr /\ t[s].inUse = slots[s].inUse

\* An allocation leaves the slots in use alone.
LEMMA AllocatedSame ==
  ASSUME slots \in [Slot -> SlotEntry], NEW a \in Addr, NEW s \in Slot, slots[s].inUse
  PROVE  Allocated(a)[s] = slots[s]
<1> DEFINE f == findOrAllocate(a).slot
<1>1. findOrAllocate(a).new /\ f # NoSlot => f \in Slot /\ f # s
  BY AllocateFinds
<1>2. Allocated(a) = IF findOrAllocate(a).new /\ f # NoSlot
                     THEN [slots EXCEPT ![f] = initializeSlot(a)] ELSE slots
  BY DEF Allocated
<1> HIDE DEF f
<1> QED
  BY <1>1, <1>2

\* New values of a slot that are forwarded.
LEMMA ForwardSame ==
  ASSUME TypeOK, NEW a \in Known, ForwardLocoChange(a)
  PROVE  /\ \A s \in Slot : slots[s].inUse => slots'[s].addr = slots[s].addr
         /\ Mode # "ACTIVE" => SameEngines(slots')
<1> DEFINE s == IF Mode = "ACTIVE" THEN findOrAllocate(a).slot ELSE findSlotForAddress(a)
           t == IF Mode = "ACTIVE" THEN Allocated(a) ELSE slots
<1>1. slots \in [Slot -> SlotEntry] /\ a \in Addr
  BY DEF TypeOK
<1>2. /\ t \in [Slot -> SlotEntry]
      /\ \A q \in Slot : slots[q].inUse => t[q].addr = slots[q].addr
      /\ Mode # "ACTIVE" => SameEngines(t)
  BY <1>1, AllocatedSame, AllocatedType DEF SameEngines
<1>3. UNCHANGED slots \/ \E v : slots' = [t EXCEPT ![s].val = v]
  BY DEF ForwardLocoChange
<1> HIDE DEF s, t
<1>4. ASSUME NEW v, slots' = [t EXCEPT ![s].val = v], NEW q \in Slot
      PROVE  slots'[q].addr = t[q].addr /\ slots'[q].inUse = t[q].inUse
  BY <1>2, <1>4 DEF SlotEntry
<1> QED
  BY <1>2, <1>3, <1>4 DEF SameEngines

\* The changes of a throttle.
LEMMA ChangesSame ==
  ASSUME TypeOK, processLocoSpeed \/ processLocoFunctions
  PROVE  SameEngines(slots')
<1> DEFINE s == Heard.slot
           e == EntryOf(s)
<1>1. Heard \in LnMessage /\ slots \in [Slot -> SlotEntry]
  BY HeardType DEF TypeOK, processLocoSpeed, processLocoFunctions, Hears
<1>2. s \in Slot
  BY <1>1, MessageFields DEF processLocoSpeed, processLocoFunctions, Hears, Heard
<1>3. PICK v, d : slots' = [slots EXCEPT ![s] = [e EXCEPT !.val = v, !.diff = d]]
  BY DEF processLocoSpeed, processLocoFunctions
<1>4. e \in SlotEntry /\ e.addr = slots[s].addr /\ e.inUse = slots[s].inUse
  <2>1. e \in SlotEntry
    BY <1>1, <1>2, RequestedType
  <2>2. slots[s] \in SlotEntry
    BY <1>1, <1>2
  <2>3. e.addr = slots[s].addr /\ e.inUse = slots[s].inUse
    BY <2>2 DEF EntryOf, SlotEntry
  <2> QED
    BY <2>1, <2>3
<1> HIDE DEF e, s
<1> QED
  BY <1>1, <1>2, <1>3, <1>4 DEF SlotEntry, SameEngines

LEMMA MatchSame ==
  ASSUME TypeOK, NEW s \in Slot, MatchAndForward(s)
  PROVE  SameEngines(slots')
<1>1. slots' = [slots EXCEPT ![s].diff = {}, ![s].uid = MatchedUid(s)] /\ slots \in [Slot -> SlotEntry]
  BY DEF MatchAndForward, TypeOK
<1> QED
  BY <1>1 DEF SlotEntry, SameEngines

LEMMA SlotKeptStep ==
  ASSUME TypeOK, [Next]_vars, NEW s \in Slot, slots[s].inUse, slots'[s].addr # slots[s].addr
  PROVE  \/ lnRx # <<>> /\ Head(lnRx).op \in {"MOVE", "WR", "RD"}
         \/ console.at = NumSlots + 1 /\ console'.at = 0
<1>1. ~ UNCHANGED slots /\ ~SameEngines(slots')
  BY DEF SameEngines
<1>2. ASSUME NEW a \in Known PROVE ~ForwardLocoChange(a)
  BY ForwardSame
<1>3. ASSUME NEW r \in Slot PROVE ~MatchAndForward(r)
  BY <1>1, MatchSame
<1>4. CASE process
  <2>1. ~processLocoSpeed /\ ~processLocoFunctions
    BY <1>1, ChangesSame
  <2>2. ~processLocoRequest
    <3> SUFFICES ASSUME processLocoRequest PROVE FALSE
      OBVIOUS
    <3>1. Heard.addr \in Addr
      BY HeardType, MessageFields DEF processLocoRequest, Hears, Heard
    <3>2. slots' = Allocated(Heard.addr) \/ UNCHANGED slots
      BY DEF processLocoRequest
    <3> QED
      BY <1>1, <3>1, <3>2, AllocatedSame DEF TypeOK
  <2>3. ~processRequestSlotRead
    BY <1>1 DEF processRequestSlotRead
  <2>4. processSlotRead \/ processSlotMove => lnRx # <<>> /\ Head(lnRx).op \in {"MOVE", "WR", "RD"}
    BY DEF processSlotRead, processSlotMove, Hears
  <2> QED
    BY <1>4, <2>1, <2>2, <2>3, <2>4 DEF process
<1>5. CASE DispatchNew
  BY <1>5 DEF DispatchNew, TypeOK
<1> QED
  BY <1>1, <1>2, <1>3, <1>4, <1>5, SlotEffect

\* A slot in use does not lose its engine to another: neither the search for a free
\* slot nor a change from CAN takes it, in any mode, but only a move or a write from
\* the bus, or the console, which takes the slot that was free when it searched.
THEOREM KeepsSlots == Spec => SlotKept
<1>1. TypeOK /\ [Next]_vars =>
        [\A s \in Slot :
           slots[s].inUse /\ slots'[s].addr # slots[s].addr =>
             \/ lnRx # <<>> /\ Head(lnRx).op \in {"MOVE", "WR", "RD"}
             \/ console.at = NumSlots + 1 /\ console'.at = 0]_vars
  BY SlotKeptStep
<1> QED
  BY <1>1, TypeCorrect, PTL DEF Spec, SlotKept
-----------------------------------------------------------------------------
(***************************************************************************)
(* The table follows the master.  What the messages heard and not handled  *)
(* yet will make of it is in its course: one table for each message.       *)
(***************************************************************************)
\* The console's search would take a slot that the master has not assigned.
Unsearched == "DISPATCH" \notin Inputs

Free == 0 - 1
Engines(t) == [s \in Slot |-> IF t[s].inUse THEN t[s].addr ELSE Free]
Tables == [Slot -> Int]

\* What a message makes of it.
Effect(v, m) ==
  IF m.op \in {"RD", "WR"} THEN [v EXCEPT ![m.slot] = m.addr]
  ELSE IF m.op = "MOVE" /\ m.slot # 0 /\ m.dst # 0 /\ m.dst # m.slot
       THEN [v EXCEPT ![m.dst] = v[m.slot], ![m.slot] = Free]
       ELSE v

Agrees(v, b) == \A s \in Slot : v[s] \in {Free, b[s].addr}

Course(h, v, q) ==
  /\ h \in [0..Len(q) -> Tables] /\ h[0] = v
  /\ \A i \in 1..Len(q) : h[i] = Effect(h[i - 1], q[i])
Told(v, q, b) == \E h : Course(h, v, q) /\ Agrees(h[Len(q)], b)

FollowInv ==
  Mode = "PASSIVE" =>
    /\ console.at = 0
    /\ Told(Engines(slots), lnRx, bus)

LEMMA EffectType ==
  ASSUME NEW v \in Tables, NEW m \in LnMessage
  PROVE  Effect(v, m) \in Tables
<1>1. m.op \in {"RD", "WR"} => m.slot \in Slot /\ m.addr \in Int
  <2>1. Addr \cup {0} \subseteq Int
    OBVIOUS
  <2>2. m.op \in {"RD", "WR"} => m.slot \in Slot /\ m.addr \in Addr \cup {0}
    BY MessageFields
  <2> QED
    BY <2>1, <2>2
<1>2. m.op = "MOVE" /\ m.slot # 0 => m.slot \in Slot
  BY MessageFields
<1>3. Free \in Int
  BY DEF Free
<1> QED
  BY <1>1, <1>2, <1>3 DEF Effect, Tables

LEMMA EnginesType ==
  ASSUME slots \in [Slot -> SlotEntry]
  PROVE  Engines(slots) \in Tables
<1>1. \A s \in Slot : slots[s].addr \in Addr \cup {0}
  BY EntryUpdates
<1>2. Addr \cup {0} \subseteq Int /\ Free \in Int
  BY DEF Free
<1> QED
  BY <1>1, <1>2 DEF Engines, Tables

\* The first message is handled.
LEMMA ToldNext ==
  ASSUME NEW v, NEW q \in Seq(LnMessage), q # <<>>, NEW b, Told(v, q, b)
  PROVE  Told(Effect(v, Head(q)), Tail(q), b)
<1> DEFINE n == Len(q)
           r == Tail(q)
<1>1. PICK h : Course(h, v, q) /\ Agrees(h[n], b)
  BY DEF Told
<1> DEFINE g == [i \in 0..(n - 1) |-> h[i + 1]]
<1>2. /\ n \in Nat /\ n > 0 /\ Len(r) = n - 1 /\ Head(q) = q[1]
      /\ \A i \in 1..(n - 1) : r[i] = q[i + 1]
  OBVIOUS
<1>3. \A i \in 0..(n - 1) : i + 1 \in 0..n /\ h[i + 1] \in Tables
  BY <1>1, <1>2 DEF Course
<1>4. g \in [0..Len(r) -> Tables]
  BY <1>2, <1>3
<1>5. g[0] = Effect(v, Head(q))
  <2>1. g[0] = h[1]
    BY <1>2
  <2>2. h[1] = Effect(h[1 - 1], q[1]) /\ h[0] = v
    BY <1>1, <1>2 DEF Course
  <2>3. 1 - 1 = 0
    OBVIOUS
  <2> QED
    BY <1>2, <2>1, <2>2, <2>3
<1>6. ASSUME NEW i \in 1..Len(r)
      PROVE  g[i] = Effect(g[i - 1], r[i])
  <2>1. i \in 1..(n - 1) /\ i + 1 \in 1..n /\ (i + 1) - 1 = i /\ i - 1 \in 0..(n - 1) /\ (i - 1) + 1 = i
        /\ i \in 0..(n - 1)
    BY <1>2
  <2>2. h[i + 1] = Effect(h[(i + 1) - 1], q[i + 1])
    BY <1>1, <2>1 DEF Course
  <2>3. g[i] = h[i + 1] /\ g[i - 1] = h[(i - 1) + 1]
    BY <2>1
  <2> QED
    BY <1>2, <2>1, <2>2, <2>3
<1>7. g[Len(r)] = h[n]
  BY <1>2
<1> HIDE DEF g, r
<1>8. Course(g, Effect(v, Head(q)), r)
  BY <1>4, <1>5, <1>6 DEF Course
<1>9. Agrees(g[Len(r)], b)
  BY <1>1, <1>7
<1> QED
  BY <1>8, <1>9 DEF Told, r

\* One more message is heard.
LEMMA ToldMore ==
  ASSUME NEW v, NEW q \in Seq(LnMessage), NEW b, Told(v, q, b), NEW m \in LnMessage, NEW c,
         \A e \in Tables : Agrees(e, b) => Agrees(Effect(e, m), c)
  PROVE  Told(v, Append(q, m), c)
<1> DEFINE n == Len(q)
           r == Append(q, m)
<1>1. PICK h : Course(h, v, q) /\ Agrees(h[n], b)
  BY DEF Told
<1> DEFINE last == Effect(h[n], m)
           g == [i \in 0..(n + 1) |-> IF i = n + 1 THEN last ELSE h[i]]
<1>2. /\ n \in Nat /\ Len(r) = n + 1 /\ r[n + 1] = m /\ \A i \in 1..n : r[i] = q[i]
  OBVIOUS
<1>3. h \in [0..n -> Tables] /\ h[0] = v /\ h[n] \in Tables
      /\ \A i \in 1..n : h[i] = Effect(h[i - 1], q[i])
  BY <1>1, <1>2 DEF Course
<1>4. last \in Tables
  BY <1>3, EffectType
<1> HIDE DEF last
<1>5. /\ g \in [0..(n + 1) -> Tables] /\ g[n + 1] = last
      /\ \A i \in 0..n : g[i] = h[i]
  BY <1>2, <1>3, <1>4
<1>6. g[0] = v
  BY <1>2, <1>3, <1>5
<1> HIDE DEF g
<1>7. ASSUME NEW i \in 1..Len(r)
      PROVE  g[i] = Effect(g[i - 1], r[i])
  <2>1. CASE i = n + 1
    <3>1. g[i - 1] = h[n] /\ g[i] = last /\ r[i] = m
      BY <1>2, <1>5, <2>1
    <3> QED
      BY <3>1 DEF last
  <2>2. CASE i # n + 1
    <3>1. i \in 1..n /\ i \in 0..n /\ i - 1 \in 0..n
      BY <1>2, <2>2
    <3>2. g[i] = h[i] /\ g[i - 1] = h[i - 1] /\ r[i] = q[i] /\ h[i] = Effect(h[i - 1], q[i])
      BY <1>2, <1>3, <1>5, <3>1
    <3> QED
      BY <3>2
  <2> QED
    BY <2>1, <2>2
<1>8. Course(g, v, r)
  BY <1>2, <1>5, <1>6, <1>7 DEF Course
<1>9. Agrees(g[Len(r)], c)
  BY <1>1, <1>2, <1>3, <1>5 DEF last
<1> HIDE DEF r
<1> QED
  BY <1>8, <1>9 DEF Told, r

\* A message that says nothing of the engines.
LEMMA ToldAside ==
  ASSUME NEW v, NEW q \in Seq(LnMessage), NEW b, Told(v, q, b), NEW m \in LnMessage,
         m.op \notin {"RD", "WR"}, m.op = "MOVE" => m.slot = 0 \/ m.dst = 0 \/ m.dst = m.slot,
         NEW c, \A s \in Slot : c[s].addr = b[s].addr
  PROVE  Told(v, Append(q, m), c)
<1>1. \A e \in Tables : Effect(e, m) = e
  BY DEF Effect
<1>2. \A e \in Tables : Agrees(e, b) => Agrees(Effect(e, m), c)
  BY <1>1 DEF Agrees
<1> QED
  BY <1>2, ToldMore

\* A message that says which engine is in a slot.
LEMMA ToldSlot ==
  ASSUME NEW v, NEW q \in Seq(LnMessage), NEW b, Told(v, q, b), NEW m \in LnMessage,
         m.op \in {"RD", "WR"}, NEW c, c[m.slot].addr = m.addr,
         \A s \in Slot : s # m.slot => c[s].addr = b[s].addr
  PROVE  Told(v, Append(q, m), c)
<1>1. m.slot \in Slot
  BY MessageFields
<1>2. ASSUME NEW e \in Tables, Agrees(e, b), NEW s \in Slot
      PROVE  Effect(e, m)[s] \in {Free, c[s].addr}
  <2>1. Effect(e, m)[s] = IF s = m.slot THEN m.addr ELSE e[s]
    BY <1>1 DEF Effect, Tables
  <2> QED
    BY <1>2, <2>1 DEF Agrees
<1>3. \A e \in Tables : Agrees(e, b) => Agrees(Effect(e, m), c)
  BY <1>2 DEF Agrees
<1> QED
  BY <1>3, ToldMore

\* The bus has the same engines in its slots.
LEMMA ToldSame ==
  ASSUME NEW v, NEW q, NEW b, Told(v, q, b), NEW c, \A s \in Slot : c[s].addr = b[s].addr
  PROVE  Told(v, q, c)
BY DEF Told, Agrees

LEMMA SameCourse ==
  ASSUME NEW t, SameEngines(t)
  PROVE  Engines(t) = Engines(slots)
BY DEF SameEngines, Engines

LEMMA ProcessTold ==
  ASSUME TypeOK, Mode = "PASSIVE", process
  PROVE  /\ lnRx # <<>> /\ lnRx' = Tail(lnRx) /\ UNCHANGED <<bus, console>>
         /\ Engines(slots') = Effect(Engines(slots), Head(lnRx))
<1> DEFINE m == Head(lnRx)
           v == Engines(slots)
<1>1. slots \in [Slot -> SlotEntry]
  BY DEF TypeOK
<1>2. lnRx # <<>> /\ LnHandled
  BY DEF process, processLocoSpeed, processLocoFunctions, processLocoRequest,
     processRequestSlotRead, processSlotRead, processSlotMove, Hears
<1>3. m \in LnMessage /\ m = Heard /\ lnRx' = Tail(lnRx) /\ UNCHANGED <<bus, console>>
  BY <1>2, HeardType DEF Heard, LnHandled
<1> HIDE DEF m
<1>4. CASE processLocoSpeed \/ processLocoFunctions
  <2>1. m.op \in {"SPD", "DIRF", "SND2"}
    BY <1>4 DEF processLocoSpeed, processLocoFunctions, Hears, m
  <2>2. Effect(v, m) = v
    BY <2>1 DEF Effect
  <2> QED
    BY <1>2, <1>3, <1>4, <2>2, ChangesSame, SameCourse DEF m
<1>5. CASE processLocoRequest \/ processRequestSlotRead
  <2>1. m.op \in {"ADR", "RQ"} /\ UNCHANGED slots
    BY <1>5 DEF processLocoRequest, processRequestSlotRead, Hears, m
  <2>2. Effect(v, m) = v
    BY <2>1 DEF Effect
  <2> QED
    BY <1>2, <1>3, <2>1, <2>2 DEF m
<1>6. CASE processSlotRead
  <2>1. m.op \in {"RD", "WR"}
    BY <1>6 DEF processSlotRead, Hears, m
  <2>2. m.slot \in Slot
    BY <1>3, <2>1, MessageFields
  <2>3. PICK e : e.inUse /\ e.addr = m.addr /\ slots' = [slots EXCEPT ![m.slot] = e]
    BY <1>3, <1>6 DEF processSlotRead
  <2>4. \A s \in Slot : slots'[s] = IF s = m.slot THEN e ELSE slots[s]
    BY <1>1, <2>2, <2>3
  <2>5. Engines(slots') = [v EXCEPT ![m.slot] = m.addr]
    <3>1. ASSUME NEW s \in Slot
          PROVE  Engines(slots')[s] = [v EXCEPT ![m.slot] = m.addr][s]
      <4>1. CASE s = m.slot
        <5>1. slots'[s] = e
          BY <2>4, <4>1
        <5>2. Engines(slots')[s] = m.addr
          BY <2>3, <5>1 DEF Engines
        <5> QED
          BY <4>1, <5>2 DEF Engines
      <4>2. CASE s # m.slot
        <5>1. slots'[s] = slots[s]
          BY <2>4, <4>2
        <5> QED
          BY <4>2, <5>1 DEF Engines
      <4> QED
        BY <4>1, <4>2
    <3>2. Engines(slots') = [s \in Slot |-> Engines(slots')[s]]
      BY DEF Engines
    <3>3. [v EXCEPT ![m.slot] = m.addr] = [s \in Slot |-> [v EXCEPT ![m.slot] = m.addr][s]]
      BY DEF Engines
    <3> QED
      BY <3>1, <3>2, <3>3
  <2> QED
    BY <1>2, <1>3, <2>1, <2>5 DEF Effect, m
<1>7. CASE processSlotMove
  <2>1. m.op = "MOVE" /\ m.slot \in Slot \cup {0} /\ m.dst \in Slot \cup {0}
    <3>1. m.op = "MOVE"
      BY <1>7 DEF processSlotMove, Hears, m
    <3> QED
      BY <1>3, <3>1, MessageFields
  <2>2. CASE m.slot # 0 /\ m.dst # 0 /\ m.dst # m.slot
    <3>1. slots' = [slots EXCEPT ![m.dst] = slots[m.slot], ![m.slot] = Cleared]
      BY <1>3, <1>7, <2>2 DEF processSlotMove
    <3>2. \A s \in Slot : slots'[s] = IF s = m.slot THEN Cleared ELSE IF s = m.dst THEN slots[m.slot] ELSE slots[s]
      BY <1>1, <2>1, <2>2, <3>1
    <3>3. ~Cleared.inUse
      BY DEF Cleared
    <3>4. Engines(slots') = [[v EXCEPT ![m.dst] = v[m.slot]] EXCEPT ![m.slot] = Free]
      BY <2>1, <2>2, <3>2, <3>3 DEF Engines
    <3> QED
      BY <1>2, <1>3, <2>1, <2>2, <3>4 DEF Effect, m
  <2>3. CASE ~(m.slot # 0 /\ m.dst # 0 /\ m.dst # m.slot)
    <3>1. UNCHANGED slots
      BY <1>3, <1>7, <2>3 DEF processSlotMove
    <3>2. Effect(v, m) = v
      BY <2>1, <2>3 DEF Effect
    <3> QED
      BY <1>2, <1>3, <3>1, <3>2 DEF m
  <2> QED
    BY <2>2, <2>3
<1> QED
  BY <1>4, <1>5, <1>6, <1>7 DEF process

\* Two messages said at once.
LEMMA ConcatPair ==
  ASSUME NEW x, NEW y
  PROVE  <<x>> \o <<y>> = <<x, y>>
<1> DEFINE S == {x, y}
           t == <<x>> \o <<y>>
<1>1. x \in S /\ y \in S
  OBVIOUS
<1> HIDE DEF S
<1>2. <<x>> \in Seq(S) /\ <<y>> \in Seq(S) /\ <<x, y>> \in Seq(S)
  BY <1>1
<1>3. t \in Seq(S) /\ Len(t) = 2 /\ t[1] = x /\ t[2] = y
  BY <1>2
<1> HIDE DEF t
<1>4. \A i \in 1..2 : t[i] = <<x, y>>[i]
  BY <1>3
<1>5. t = <<x, y>>
  BY <1>2, <1>3, <1>4, SeqEqual
<1> QED
  BY <1>5 DEF t

\* What the throttles do, as the master and the gateway hear it.
LEMMA DevicesTold ==
  ASSUME TypeOK, Mode = "PASSIVE", Told(Engines(slots), lnRx, bus), Devices
  PROVE  Told(Engines(slots), lnRx', bus')
<1> DEFINE v == Engines(slots)
<1>1. /\ lnRx \in Seq(LnMessage) /\ Told(v, lnRx, bus)
      /\ bus \in [Slot -> [addr : Addr \cup {0}, val : [Attr -> Value]]]
  BY DEF TypeOK
<1> HIDE DEF v
<1>2. ASSUME NEW m PROVE lnRx \o <<m>> = Append(lnRx, m)
  BY <1>1
<1>3. ASSUME NEW m \in LnMessage, NEW n PROVE lnRx \o <<m, n>> = Append(Append(lnRx, m), n)
                                           /\ Append(lnRx, m) \in Seq(LnMessage)
  BY <1>1
<1>4. \A s \in Slot, w \in [Attr -> Value], a \in Addr \cup {0} :
        /\ RdMsg("RD", s, a, w) \in LnMessage /\ RdMsg("WR", s, a, w) \in LnMessage
  BY MessageTypes
<1>5. ASSUME NEW s \in Held, NEW g \in DOMAIN Carries, NEW x \in Carries[g], ThrottleSets(s, g, x)
      PROVE  Told(v, lnRx', bus')
  <2> DEFINE m == SetMsg(g, s, bus'[s].val)
  <2>1. s \in Slot /\ g \in {"SPD", "DIRF", "SND2"} /\ x \in Attr
    BY DEF Held, Carries, Attr
  <2>2. PICK n \in Value : bus' = [bus EXCEPT ![s].val[x] = n] /\ lnRx' = lnRx \o <<m>>
    <3>1. (IF x = "speed" THEN Steps ELSE {0, 1}) \subseteq Value
      BY SpeedAssumption DEF SpeedAssumption, Value
    <3> QED
      BY <1>5, <3>1 DEF ThrottleSets, Hear
  <2>3. bus'[s].val \in [Attr -> Value] /\ \A r \in Slot : bus'[r].addr = bus[r].addr
    <3>1. bus'[s].val = [bus[s].val EXCEPT ![x] = n]
      BY <1>1, <2>1, <2>2
    <3>2. bus'[s].val \in [Attr -> Value]
      BY <1>1, <2>1, <3>1
    <3>3. \A r \in Slot : bus'[r].addr = bus[r].addr
      BY <1>1, <2>2
    <3> QED
      BY <3>2, <3>3
  <2>4. m \in LnMessage /\ m.op = g
    BY <2>1, <2>3, MessageTypes DEF SetMsg
  <2> HIDE DEF m
  <2>5. Told(v, Append(lnRx, m), bus')
    BY <1>1, <2>1, <2>3, <2>4, ToldAside
  <2> QED
    BY <1>2, <2>2, <2>5
<1>6. ASSUME NEW a \in Addr, ThrottleAsks(a)
      PROVE  Told(v, lnRx', bus')
  <2> DEFINE ask == [op |-> "ADR", addr |-> a]
  <2>1. PICK s \in Slot : /\ bus' = [bus EXCEPT ![s] = IF @.addr = a THEN @ ELSE [addr |-> a, val |-> Blank]]
                          /\ lnRx' = lnRx \o <<ask, RdMsg("RD", s, a, bus'[s].val)>>
    BY <1>6 DEF ThrottleAsks, Hear
  <2> DEFINE m == RdMsg("RD", s, a, bus'[s].val)
  <2>2. /\ bus'[s].addr = a /\ bus'[s].val \in [Attr -> Value]
        /\ \A r \in Slot : r # s => bus'[r].addr = bus[r].addr
    BY <1>1, <2>1, EntryTypes
  <2>3. m \in LnMessage /\ m.op = "RD" /\ m.slot = s /\ m.addr = a
    BY <1>4, <2>2 DEF RdMsg
  <2>4. ask \in LnMessage /\ ask.op = "ADR"
    BY DEF LnMessage
  <2> HIDE DEF m, ask
  <2>5. lnRx' = Append(Append(lnRx, ask), m) /\ Append(lnRx, ask) \in Seq(LnMessage)
    BY <1>3, <2>1, <2>4 DEF m, ask
  <2>6. Told(v, Append(lnRx, ask), bus)
    BY <1>1, <2>4, ToldAside
  <2>7. Told(v, Append(Append(lnRx, ask), m), bus')
    BY <2>2, <2>3, <2>5, <2>6, ToldSlot
  <2> QED
    BY <2>5, <2>7
<1>7. ASSUME NEW s \in Slot, ThrottleReads(s)
      PROVE  Told(v, lnRx', bus')
  <2> DEFINE ask == RqMsg(s)
             m == RdMsg("RD", s, bus[s].addr, bus[s].val)
  <2>1. lnRx' = lnRx \o <<ask, m>> /\ bus' = bus
    <3>1. lnRx' = lnRx \o (<<ask>> \o <<m>>) /\ bus' = bus
      BY <1>7 DEF ThrottleReads, Hear, MasterSays
    <3>2. <<ask>> \o <<m>> = <<ask, m>>
      <4> HIDE DEF m, ask
      <4> QED
        BY ConcatPair
    <3> QED
      BY <3>1, <3>2
  <2>2. m \in LnMessage /\ m.op = "RD" /\ m.slot = s /\ m.addr = bus[s].addr
    BY <1>1, <1>4 DEF RdMsg
  <2>3. ask \in LnMessage /\ ask.op = "RQ"
    BY MessageTypes DEF RqMsg
  <2> HIDE DEF m, ask
  <2>5. lnRx' = Append(Append(lnRx, ask), m) /\ Append(lnRx, ask) \in Seq(LnMessage)
    BY <1>3, <2>1, <2>3
  <2>6. Told(v, Append(lnRx, ask), bus)
    BY <1>1, <2>3, ToldAside
  <2>7. Told(v, Append(Append(lnRx, ask), m), bus)
    BY <2>2, <2>5, <2>6, ToldSlot
  <2> QED
    BY <2>1, <2>5, <2>7
<1>8. ASSUME NEW s \in Held, ThrottleWrites(s)
      PROVE  Told(v, lnRx', bus')
  <2> DEFINE m == RdMsg("WR", s, bus[s].addr, bus[s].val)
  <2>1. lnRx' = lnRx \o <<m>> /\ bus' = bus /\ s \in Slot
    BY <1>8 DEF ThrottleWrites, Hear, Held
  <2>2. m \in LnMessage /\ m.op = "WR" /\ m.slot = s /\ m.addr = bus[s].addr
    BY <1>1, <1>4, <2>1 DEF RdMsg
  <2> HIDE DEF m
  <2>3. Told(v, Append(lnRx, m), bus)
    BY <1>1, <2>2, ToldSlot
  <2> QED
    BY <1>2, <2>1, <2>3
<1>9. ASSUME NEW src \in Held, NEW dst \in Slot, ThrottleMoves(src, dst)
      PROVE  Told(v, lnRx', bus')
  <2> DEFINE m == MoveMsg(src, dst)
  <2>1. /\ lnRx' = lnRx \o <<m>> /\ src \in Slot /\ src # 0 /\ dst # 0
        /\ bus' = IF src = dst THEN bus ELSE [bus EXCEPT ![dst] = bus[src], ![src] = Unassigned]
    BY <1>9 DEF ThrottleMoves, Hear, Held, Slot
  <2>2. m \in LnMessage /\ m.op = "MOVE" /\ m.slot = src /\ m.dst = dst
    BY <2>1 DEF MoveMsg, LnMessage
  <2> HIDE DEF m
  <2>3. ASSUME NEW e \in Tables, Agrees(e, bus)
        PROVE  Agrees(Effect(e, m), bus')
    <3>1. CASE src = dst
      BY <2>1, <2>2, <2>3, <3>1 DEF Effect, Agrees
    <3>2. CASE src # dst
      <4>1. Effect(e, m) = [e EXCEPT ![dst] = e[src], ![src] = Free]
        BY <2>1, <2>2, <3>2 DEF Effect
      <4>2. \A s \in Slot : Effect(e, m)[s] = IF s = src THEN Free ELSE IF s = dst THEN e[src] ELSE e[s]
        BY <2>1, <3>2, <4>1 DEF Tables
      <4>3. \A s \in Slot : s # src => bus'[s] = IF s = dst THEN bus[src] ELSE bus[s]
        BY <1>1, <2>1, <3>2
      <4> QED
        BY <2>1, <2>3, <4>2, <4>3 DEF Agrees
    <3> QED
      BY <3>1, <3>2
  <2>4. Told(v, Append(lnRx, m), bus')
    BY <1>1, <2>2, <2>3, ToldMore
  <2> QED
    BY <1>2, <2>1, <2>4
<1>10. ASSUME NEW s \in Slot \cup {0}, lnRx' = lnRx \o <<MoveMsg(s, 0)>>, bus' = bus
       PROVE  Told(v, lnRx', bus')
  <2> DEFINE m == MoveMsg(s, 0)
  <2>1. m \in LnMessage /\ m.op = "MOVE" /\ m.dst = 0
    BY DEF MoveMsg, LnMessage
  <2>2. lnRx' = lnRx \o <<m>>
    BY <1>10
  <2> HIDE DEF m
  <2>3. Told(v, Append(lnRx, m), bus)
    BY <1>1, <2>1, ToldAside
  <2> QED
    BY <1>2, <1>10, <2>2, <2>3
<1>11. CASE ThrottleGets \/ \E s \in Held \cup GivenForZero : ThrottlePuts(s)
  <2>1. PICK s \in Slot \cup {0} : lnRx' = lnRx \o <<MoveMsg(s, 0)>> /\ bus' = bus
    BY <1>11 DEF ThrottleGets, ThrottlePuts, Hear, Held, GivenForZero
  <2> QED
    BY <1>10, <2>1 DEF v
<1>12. CASE \/ \E a \in Known, x \in Attr : CentralSets(a, x)
            \/ \E a \in Known : CentralTurns(a)
            \/ CentralStops
  <2>1. UNCHANGED <<lnRx, bus>>
    BY <1>12 DEF CentralSets, CentralTurns, CentralStops, Receive
  <2> QED
    BY <1>1, <2>1
<1> QED
  BY <1>5, <1>6, <1>7, <1>8, <1>9, <1>11, <1>12 DEF Devices, v

LEMMA SendTold ==
  ASSUME TypeOK, Mode = "PASSIVE", Told(Engines(slots), lnRx, bus), DoBlockingSend
  PROVE  Told(Engines(slots), lnRx', bus')
<1> DEFINE v == Engines(slots)
           m == Head(lnTx)
           s == m.slot
           r == RdMsg("RD", s, bus[s].addr, bus[s].val)
<1>1. /\ lnRx \in Seq(LnMessage) /\ Told(v, lnRx, bus)
      /\ bus \in [Slot -> [addr : Addr \cup {0}, val : [Attr -> Value]]]
  BY DEF TypeOK
<1>2. m \in LnMessage /\ BusHears(m)
  <2>1. lnTx # <<>> /\ BusHears(m) /\ lnTx \in Seq(LnMessage)
    BY DEF DoBlockingSend, TypeOK
  <2>2. m = lnTx[1] /\ 1 \in 1..Len(lnTx)
    BY <2>1
  <2> QED
    BY <2>1, <2>2
<1>3. \/ lnRx' = lnRx /\ bus' = bus
      \/ lnRx' = lnRx /\ \E w : bus' = [bus EXCEPT ![s].val = w]
      \/ lnRx' = Append(lnRx, r) /\ bus' = bus /\ m.op = "RQ"
  BY <1>2 DEF BusHears
<1>4. CASE lnRx' = lnRx /\ bus' = bus
  BY <1>4
<1>5. ASSUME NEW w, lnRx' = lnRx, bus' = [bus EXCEPT ![s].val = w]
      PROVE  Told(v, lnRx', bus')
  <2> HIDE DEF s, v
  <2>1. \A q \in Slot : bus'[q].addr = bus[q].addr
    BY <1>1, <1>5
  <2> QED
    BY <1>1, <1>5, <2>1, ToldSame DEF v
<1>6. CASE lnRx' = Append(lnRx, r) /\ bus' = bus /\ m.op = "RQ"
  <2>1. s \in Slot
    BY <1>2, <1>6, MessageFields
  <2> HIDE DEF s, v
  <2>2. r \in LnMessage /\ r.op = "RD" /\ r.slot = s /\ r.addr = bus[s].addr
    <3>1. r \in LnMessage
      BY <1>1, <2>1, MessageTypes
    <3>2. r.op = "RD" /\ r.slot = s /\ r.addr = bus[s].addr
      BY DEF RdMsg
    <3> QED
      BY <3>1, <3>2
  <2> HIDE DEF r
  <2>3. Told(v, Append(lnRx, r), bus)
    BY <1>1, <2>2, ToldSlot
  <2> QED
    BY <1>6, <2>3 DEF v
<1> QED
  BY <1>3, <1>4, <1>5, <1>6

LEMMA FollowStep ==
  ASSUME Unsearched, TypeOK, FollowInv, [Next]_vars
  PROVE  FollowInv'
<1> SUFFICES ASSUME Mode = "PASSIVE"
             PROVE  console'.at = 0 /\ Told(Engines(slots'), lnRx', bus')
  BY DEF FollowInv
<1>1. console.at = 0 /\ Told(Engines(slots), lnRx, bus) /\ lnRx \in Seq(LnMessage)
  BY DEF FollowInv, TypeOK
<1>2. CASE UNCHANGED <<lnRx, bus, console>> /\ SameEngines(slots')
  BY <1>1, <1>2, SameCourse
<1>3. UNCHANGED slots => SameEngines(slots')
  BY DEF SameEngines
<1>4. CASE Wake \/ HandleCan \/ CanDone \/ ForwardDone \/ LnDone \/ MatchDone
  <2>1. UNCHANGED <<lnRx, bus, console, slots>>
    BY <1>4 DEF Wake, HandleCan, CanDone, ForwardDone, LnDone, MatchDone, busVars
  <2> QED
    BY <1>2, <1>3, <2>1
<1>5. ASSUME NEW a \in Known, ForwardLocoChange(a)
      PROVE  console'.at = 0 /\ Told(Engines(slots'), lnRx', bus')
  <2>1. UNCHANGED <<lnRx, bus, console>>
    BY <1>5 DEF ForwardLocoChange, busVars
  <2> QED
    BY <1>2, <1>5, <2>1, ForwardSame
<1>6. CASE process
  <2>1. /\ lnRx # <<>> /\ lnRx' = Tail(lnRx) /\ UNCHANGED <<bus, console>>
        /\ Engines(slots') = Effect(Engines(slots), Head(lnRx))
    BY <1>6, ProcessTold
  <2>2. Told(Effect(Engines(slots), Head(lnRx)), Tail(lnRx), bus)
    BY <1>1, <2>1, ToldNext
  <2> QED
    BY <1>1, <2>1, <2>2
<1>7. ASSUME NEW s \in Slot, MatchAndForward(s)
      PROVE  console'.at = 0 /\ Told(Engines(slots'), lnRx', bus')
  <2>1. UNCHANGED <<lnRx, bus, console>>
    BY <1>7 DEF MatchAndForward
  <2> QED
    BY <1>2, <1>7, <2>1, MatchSame
<1>8. CASE DoBlockingSend
  <2>1. UNCHANGED <<slots, console>>
    BY <1>8 DEF DoBlockingSend
  <2> QED
    BY <1>1, <1>8, <2>1, SendTold
<1>9. ~DispatchSearch /\ ~DispatchNew /\ ~ \E a \in Addr : Dispatch(a)
  BY <1>1 DEF DispatchSearch, DispatchNew, Dispatch, Another, Unsearched, Slot
<1>10. CASE Devices
  BY <1>1, <1>10, DevicesTold, DevicesFrame
<1>11. CASE UNCHANGED vars
  BY <1>2, <1>3, <1>11 DEF vars, taskVars, busVars
<1> QED
  BY <1>4, <1>5, <1>6, <1>7, <1>8, <1>9, <1>10, <1>11 DEF Next, RoutingTask, ConsoleTask

LEMMA FollowInit == Init => FollowInv
<1> SUFFICES ASSUME Init PROVE FollowInv
  OBVIOUS
<1> DEFINE v == Engines(slots)
           h == [i \in 0..0 |-> v]
<1>1. slots = [s \in Slot |-> Cleared] /\ lnRx = <<>> /\ console.at = 0
  BY DEF Init
<1>2. v \in Tables /\ \A s \in Slot : v[s] = Free
  BY <1>1 DEF Engines, Cleared, Tables, Free
<1> HIDE DEF v
<1>3. Course(h, v, lnRx) /\ h[Len(lnRx)] = v
  BY <1>1, <1>2 DEF Course
<1> HIDE DEF h
<1>4. Agrees(v, bus)
  BY <1>2 DEF Agrees
<1>5. Told(v, lnRx, bus)
  BY <1>3, <1>4 DEF Told
<1> QED
  BY <1>1, <1>5 DEF FollowInv, v

LEMMA Followed ==
  ASSUME FollowInv, TypeOK
  PROVE  FollowsMaster
<1> SUFFICES ASSUME Mode = "PASSIVE", lnRx = <<>>, NEW s \in Slot, slots[s].inUse
             PROVE  slots[s].addr = bus[s].addr
  BY DEF FollowsMaster
<1>1. PICK h : Course(h, Engines(slots), lnRx) /\ Agrees(h[Len(lnRx)], bus)
  BY DEF FollowInv, Told
<1>2. h[0] = Engines(slots) /\ Len(lnRx) = 0
  BY <1>1 DEF Course
<1>3. Engines(slots)[s] \in {Free, bus[s].addr}
  BY <1>1, <1>2 DEF Agrees
<1>4. slots[s].addr # Free /\ Engines(slots)[s] = slots[s].addr
  <2>1. slots[s].addr \in Addr \cup {0}
    BY EntryUpdates DEF TypeOK
  <2>3. Addr \cup {0} \subseteq Nat
    BY EngineAssumption
  <2>2. slots[s].addr \in Nat
    BY <2>1, <2>3
  <2> QED
    BY <2>2 DEF Free, Engines
<1> QED
  BY <1>3, <1>4

\* Beside a master the table is the master's: when everything heard was handled, a
\* slot in use holds the engine that the throttles have in it, for every number of
\* slots and engines and whatever is assigned, moved, written and asked for meanwhile,
\* as long as nobody dispatches at the console.
THEOREM TableOfMaster == ASSUME Unsearched PROVE Spec => []FollowsMaster
<1>1. TypeOK /\ FollowInv /\ [Next]_vars => FollowInv'
  BY FollowStep
<1>2. FollowInv /\ TypeOK => FollowsMaster
  BY Followed
<1> QED
  BY FollowInit, <1>1, <1>2, TypeCorrect, PTL DEF Spec

-----------------------------------------------------------------------------
(***************************************************************************)
(* The two buses agree at rest.  What is told of an attribute x of the     *)
(* engine in slot s goes round: from the central through canRx to the      *)
(* database, from there to the slot and through lnTx to the throttle, and  *)
(* from the throttle through lnRx to the slot, and through canRx to the    *)
(* central and the database.                                               *)
(***************************************************************************)
\* Beside a master, with every engine in one slot at most, speed, direction and F0
\* are set on LocoNet and on CAN, and nothing else is done with the slots.
ControlsOnly ==
  /\ Mode = "PASSIVE"
  /\ Inputs \subseteq {"SPD", "DIRF", "speed", "dir", "f0", "TURN", "STOP"}
  /\ \A s, r \in DOMAIN Assigned : Assigned[s] = Assigned[r] => s = r

\* The transmit queue has room for the messages that the changes of an engine take.
Room == pc = "forward" => Len(lnTx) + 2 <= LnDepth

Common == {s \in DOMAIN Assigned : Assigned[s] \in Known}

\* The slots stay assigned as they are.
FixedInv ==
  /\ console.at = 0 /\ ~overrun
  /\ \A s \in Slot :
       IF s \in DOMAIN Assigned
       THEN /\ slots[s].inUse /\ slots[s].match /\ slots[s].addr = Assigned[s]
            /\ bus[s].addr = Assigned[s]
       ELSE slots[s] = Cleared /\ bus[s].addr = 0

\* What the buses carry, and that nobody touches F9.
PlainLn(q) == \A i \in 1..Len(q) : q[i].op \in {"SPD", "DIRF"} /\ q[i].slot \in DOMAIN Assigned
PlainCan(q) == \A i \in 1..Len(q) : q[i].kind = "set" => q[i].attr # "f9"
PlainInv ==
  /\ PlainLn(lnRx) /\ PlainLn(lnTx) /\ PlainCan(canRx)
  /\ \A s \in Slot : "f9" \notin slots[s].diff /\ bus[s].val["f9"] = 0
  /\ \A a \in Known : "f9" \notin db[a].diff /\ can[a]["f9"] = 0

\* Once the loop over the database is done, nothing of an engine in a slot waits.
SentInv == pc \in {"ln", "match", "blocked"} => \A s \in Common : db[Assigned[s]].diff = {}

\* What a frame makes of the value v of an attribute, and the frames of a queue in turn.
Meant(f, a, x, v) ==
  CASE f.kind = "set" /\ f.addr = a /\ f.attr = x    -> f.v
    [] f.kind = "turn" /\ f.addr = a /\ x = "dir"    -> Flip(v)
    [] f.kind = "stop" /\ x = "speed"                -> 0
    [] OTHER                                         -> v
Replayed(q, a, x, v, w) ==
  \E h \in [0..Len(q) -> Value] :
    /\ h[0] = v /\ h[Len(q)] = w
    /\ \A i \in 1..Len(q) : h[i] = Meant(q[i], a, x, h[i - 1])
Stable(q, a, x, v) == \A i \in 1..Len(q) : Meant(q[i], a, x, v) = v

\* Messages of the slot s that tell x, and that the last of them tells v.
Tells(m, s, x)  == m.slot = s /\ x \in Carries[m.op]
Silent(q, s, x) == \A i \in 1..Len(q) : ~Tells(q[i], s, x)
Closing(q, s, x, v) ==
  \A i \in 1..Len(q) :
    Tells(q[i], s, x) /\ (\A j \in (i + 1)..Len(q) : ~Tells(q[j], s, x)) => q[i].val[x] = v

\* The database will hold what the central holds.
CanTold(s, x) ==
  Replayed(canRx, Assigned[s], x, db[Assigned[s]].val[x], can[Assigned[s]][x])
\* The slot holds what the database holds, unless one of them is about to be told.
Copied(s, x) ==
  /\ x \notin db[Assigned[s]].diff /\ x \notin slots[s].diff
  /\ Stable(canRx, Assigned[s], x, db[Assigned[s]].val[x])
  => slots[s].val[x] = db[Assigned[s]].val[x]
\* What is sent last is what the database holds, as LocoNet counts it.
LastSent(s, x) ==
  x \notin db[Assigned[s]].diff => Closing(lnTx, s, x, OnLn(x, db[Assigned[s]].val[x]))
\* What is heard last is what the throttle holds, unless it is about to be told.
LastHeard(s, x) ==
  Silent(lnTx, s, x) =>
    /\ Closing(lnRx, s, x, bus[s].val[x])
    /\ Silent(lnRx, s, x) => bus[s].val[x] = OnLn(x, slots[s].val[x])

FlowInv ==
  \A s \in Common, x \in SlotData :
    CanTold(s, x) /\ Copied(s, x) /\ LastSent(s, x) /\ LastHeard(s, x)

ConvergeInv == FixedInv /\ PlainInv /\ SentInv /\ FlowInv

\* The slots the master assigned.
LEMMA AssignedSlots ==
  /\ DOMAIN Assigned \subseteq Slot /\ Common \subseteq Slot
  /\ \A s \in DOMAIN Assigned : Assigned[s] \in Addr /\ Assigned[s] # 0
BY BusAssumption DEF BusAssumption, Slot, Common

LEMMA SlotDataAttr == SlotData \subseteq Attr /\ "f9" \in Attr /\ "f9" \notin SlotData
BY DEF SlotData, Attr

\* Queues of frames.
LEMMA MeantType ==
  ASSUME NEW f \in CanFrame, NEW a, NEW x, NEW v \in Value
  PROVE  Meant(f, a, x, v) \in Value
<1>1. f.kind = "set" => f.v \in Value
  BY DEF CanFrame
<1>2. Flip(v) \in Value /\ 0 \in Value
  BY FlipType DEF Value
<1> QED
  BY <1>1, <1>2 DEF Meant

LEMMA ReplayNone ==
  ASSUME NEW a, NEW x, NEW v
  PROVE  /\ v \in Value => Replayed(<<>>, a, x, v, v)
         /\ \A w : Replayed(<<>>, a, x, v, w) => v = w
<1>1. ASSUME v \in Value
      PROVE  Replayed(<<>>, a, x, v, v)
  <2> DEFINE h == [i \in 0..Len(<<>>) |-> v]
  <2>1. h \in [0..Len(<<>>) -> Value] /\ h[0] = v /\ h[Len(<<>>)] = v
    BY <1>1
  <2>2. 1..Len(<<>>) = {}
    OBVIOUS
  <2> HIDE DEF h
  <2> QED
    BY <2>1, <2>2 DEF Replayed
<1>2. Len(<<>>) = 0
  OBVIOUS
<1>3. ASSUME NEW w, Replayed(<<>>, a, x, v, w)
      PROVE  v = w
  <2>1. PICK h : h[0] = v /\ h[Len(<<>>)] = w
    BY <1>3 DEF Replayed
  <2> QED
    BY <1>2, <2>1
<1> QED
  BY <1>1, <1>3

LEMMA ReplayNext ==
  ASSUME NEW q \in Seq(CanFrame), q # <<>>, NEW a, NEW x, NEW v, NEW w, Replayed(q, a, x, v, w)
  PROVE  Replayed(Tail(q), a, x, Meant(Head(q), a, x, v), w)
<1> DEFINE n == Len(q)
           r == Tail(q)
<1>1. PICK h \in [0..n -> Value] :
        /\ h[0] = v /\ h[n] = w
        /\ \A i \in 1..n : h[i] = Meant(q[i], a, x, h[i - 1])
  BY DEF Replayed
<1> DEFINE g == [i \in 0..(n - 1) |-> h[i + 1]]
<1>2. /\ n \in Nat /\ n > 0 /\ Len(r) = n - 1 /\ Head(q) = q[1]
      /\ \A i \in 1..(n - 1) : r[i] = q[i + 1]
  OBVIOUS
<1>3. \A i \in 0..(n - 1) : i + 1 \in 0..n /\ h[i + 1] \in Value
  BY <1>1, <1>2
<1>4. g \in [0..Len(r) -> Value]
  BY <1>2, <1>3
<1>5. g[0] = Meant(Head(q), a, x, v)
  <2>1. g[0] = h[1]
    BY <1>2
  <2>2. h[1] = Meant(q[1], a, x, h[1 - 1]) /\ 1 - 1 = 0
    BY <1>1, <1>2
  <2> QED
    BY <1>1, <1>2, <2>1, <2>2
<1>6. ASSUME NEW i \in 1..Len(r)
      PROVE  g[i] = Meant(r[i], a, x, g[i - 1])
  <2>1. i \in 1..(n - 1) /\ i + 1 \in 1..n /\ (i + 1) - 1 = i /\ i - 1 \in 0..(n - 1) /\ (i - 1) + 1 = i
        /\ i \in 0..(n - 1)
    BY <1>2
  <2>2. h[i + 1] = Meant(q[i + 1], a, x, h[(i + 1) - 1])
    BY <1>1, <2>1
  <2>3. g[i] = h[i + 1] /\ g[i - 1] = h[(i - 1) + 1]
    BY <2>1
  <2> QED
    BY <1>2, <2>1, <2>2, <2>3
<1>7. g[Len(r)] = w
  BY <1>1, <1>2
<1> HIDE DEF g, r
<1> QED
  BY <1>4, <1>5, <1>6, <1>7 DEF Replayed, r

LEMMA ReplayMore ==
  ASSUME NEW q \in Seq(CanFrame), NEW a, NEW x, NEW v, NEW w, Replayed(q, a, x, v, w),
         NEW f \in CanFrame
  PROVE  Replayed(Append(q, f), a, x, v, Meant(f, a, x, w))
<1> DEFINE n == Len(q)
           r == Append(q, f)
           last == Meant(f, a, x, w)
<1>1. PICK h \in [0..n -> Value] :
        /\ h[0] = v /\ h[n] = w
        /\ \A i \in 1..n : h[i] = Meant(q[i], a, x, h[i - 1])
  BY DEF Replayed
<1>2. /\ n \in Nat /\ Len(r) = n + 1 /\ r[n + 1] = f /\ \A i \in 1..n : r[i] = q[i]
  OBVIOUS
<1>3. last \in Value
  BY <1>1, <1>2, MeantType
<1> HIDE DEF last
<1> DEFINE g == [i \in 0..(n + 1) |-> IF i = n + 1 THEN last ELSE h[i]]
<1>4. /\ g \in [0..(n + 1) -> Value] /\ g[n + 1] = last
      /\ \A i \in 0..n : g[i] = h[i]
  BY <1>1, <1>2, <1>3
<1>5. g[0] = v
  BY <1>1, <1>2, <1>4
<1> HIDE DEF g
<1>6. ASSUME NEW i \in 1..Len(r)
      PROVE  g[i] = Meant(r[i], a, x, g[i - 1])
  <2>1. CASE i = n + 1
    <3>1. g[i - 1] = w /\ g[i] = last /\ r[i] = f
      BY <1>1, <1>2, <1>4, <2>1
    <3> QED
      BY <3>1 DEF last
  <2>2. CASE i # n + 1
    <3>1. i \in 1..n /\ i \in 0..n /\ i - 1 \in 0..n
      BY <1>2, <2>2
    <3> QED
      BY <1>1, <1>2, <1>4, <3>1
  <2> QED
    BY <2>1, <2>2
<1> HIDE DEF r
<1> QED
  BY <1>2, <1>4, <1>5, <1>6 DEF Replayed, last, r

LEMMA StableMore ==
  ASSUME NEW q \in Seq(CanFrame), NEW a, NEW x, NEW v, NEW f
  PROVE  Stable(Append(q, f), a, x, v) => Stable(q, a, x, v) /\ Meant(f, a, x, v) = v
<1> DEFINE n == Len(q)
           r == Append(q, f)
<1>1. n \in Nat /\ Len(r) = n + 1 /\ r[n + 1] = f /\ \A i \in 1..n : r[i] = q[i]
  OBVIOUS
<1>2. n + 1 \in 1..Len(r) /\ \A i \in 1..n : i \in 1..Len(r)
  BY <1>1
<1> HIDE DEF r
<1> QED
  BY <1>1, <1>2 DEF Stable, r

LEMMA StableNext ==
  ASSUME NEW q \in Seq(CanFrame), q # <<>>, NEW a, NEW x, NEW v,
         Meant(Head(q), a, x, v) = v, Stable(Tail(q), a, x, v)
  PROVE  Stable(q, a, x, v)
<1> SUFFICES ASSUME NEW i \in 1..Len(q) PROVE Meant(q[i], a, x, v) = v
  BY DEF Stable
<1>1. CASE i = 1
  BY <1>1
<1>2. CASE i # 1
  <2>1. i - 1 \in 1..Len(Tail(q)) /\ Tail(q)[i - 1] = q[i]
    BY <1>2
  <2> QED
    BY <2>1 DEF Stable
<1> QED
  BY <1>1, <1>2

\* The frames of a slot.
LEMMA FramesTold ==
  ASSUME NEW q \in Seq(CanFrame), NEW b \in Known, NEW e \in SlotEntry,
         NEW a, NEW x \in Attr, NEW v, NEW w
  PROVE  LET g == q \o Frames(b, e)
             told == b = a /\ x \in e.diff
         IN  /\ g \in Seq(CanFrame)
             /\ Replayed(q, a, x, v, w) => Replayed(g, a, x, v, IF told THEN e.val[x] ELSE w)
             /\ Stable(g, a, x, v) => Stable(q, a, x, v) /\ (told => e.val[x] = v)
             /\ PlainCan(q) /\ "f9" \notin e.diff => PlainCan(g)
<1> DEFINE one(r, y) == IF y \in e.diff THEN Append(r, SetFrame(b, y, e.val[y])) ELSE r
           Good(r, told) ==
             /\ r \in Seq(CanFrame)
             /\ Replayed(q, a, x, v, w) => Replayed(r, a, x, v, IF told THEN e.val[x] ELSE w)
             /\ Stable(r, a, x, v) => Stable(q, a, x, v) /\ (told => e.val[x] = v)
             /\ PlainCan(q) /\ "f9" \notin e.diff => PlainCan(r)
<1>1. e.val \in [Attr -> Value]
  BY EntryUpdates
<1>2. ASSUME NEW r, NEW told \in BOOLEAN, NEW y \in Attr, Good(r, told), x = y => ~told
      PROVE  Good(one(r, y), told \/ (x = y /\ b = a /\ x \in e.diff))
  <2>1. CASE y \notin e.diff
    <3>1. (told \/ (x = y /\ b = a /\ x \in e.diff)) = told
      BY <2>1
    <3>2. one(r, y) = r
      BY <2>1
    <3> HIDE DEF Good, one
    <3> QED
      BY <1>2, <3>1, <3>2
  <2>2. CASE y \in e.diff
    <3> DEFINE f == SetFrame(b, y, e.val[y])
    <3>1. f \in CanFrame /\ one(r, y) = Append(r, f)
      BY <1>1, <2>2 DEF SetFrame, CanFrame
    <3>2. \A u : Meant(f, a, x, u) = IF b = a /\ x = y THEN e.val[x] ELSE u
      BY DEF Meant, SetFrame
    <3>3. PlainCan(r) /\ "f9" \notin e.diff => PlainCan(Append(r, f))
      BY <1>2, <2>2 DEF PlainCan, SetFrame
    <3> HIDE DEF f, one
    <3>4. Append(r, f) \in Seq(CanFrame)
      BY <1>2, <3>1
    <3>5. \A u : Replayed(r, a, x, v, u) => Replayed(Append(r, f), a, x, v, Meant(f, a, x, u))
      BY <1>2, <3>1, ReplayMore
    <3>6. Stable(Append(r, f), a, x, v) => Stable(r, a, x, v) /\ Meant(f, a, x, v) = v
      BY <1>2, StableMore
    <3>7. CASE b = a /\ x = y
      BY <1>2, <2>2, <3>1, <3>2, <3>3, <3>4, <3>5, <3>6, <3>7
    <3>8. CASE ~(b = a /\ x = y)
      BY <1>2, <2>2, <3>1, <3>2, <3>3, <3>4, <3>5, <3>6, <3>8
    <3> QED
      BY <3>7, <3>8
  <2> QED
    BY <2>1, <2>2
<1>3. ASSUME NEW r \in Seq(CanFrame), NEW y \in Attr
      PROVE  q \o one(r, y) = one(q \o r, y) /\ one(r, y) \in Seq(CanFrame)
  <2>1. SetFrame(b, y, e.val[y]) \in CanFrame
    BY <1>1 DEF SetFrame, CanFrame
  <2> DEFINE f == SetFrame(b, y, e.val[y])
  <2> HIDE DEF f
  <2>2. q \o Append(r, f) = Append(q \o r, f) /\ Append(r, f) \in Seq(CanFrame)
    BY <2>1 DEF f
  <2> QED
    BY <2>2 DEF f
<1>4. q \o <<>> = q /\ <<>> \in Seq(CanFrame)
  OBVIOUS
<1>5. {"speed", "dir", "f0", "f9"} = Attr
  BY DEF Attr
<1>6. Frames(b, e) = one(one(one(one(<<>>, "speed"), "dir"), "f0"), "f9")
  BY DEF Frames
<1>7. Good(q, FALSE)
  OBVIOUS
<1> DEFINE T(y) == x = y /\ b = a /\ x \in e.diff
<1> HIDE DEF one, Good
<1>8. q \o Frames(b, e) = one(one(one(one(q, "speed"), "dir"), "f0"), "f9")
  <2>1. "speed" \in Attr /\ "dir" \in Attr /\ "f0" \in Attr /\ "f9" \in Attr
    BY <1>5
  <2>2. q \o one(<<>>, "speed") = one(q, "speed") /\ one(<<>>, "speed") \in Seq(CanFrame)
    BY <1>3, <1>4, <2>1
  <2>3. /\ q \o one(one(<<>>, "speed"), "dir") = one(one(q, "speed"), "dir")
        /\ one(one(<<>>, "speed"), "dir") \in Seq(CanFrame)
    BY <1>3, <2>1, <2>2
  <2>4. /\ q \o one(one(one(<<>>, "speed"), "dir"), "f0") = one(one(one(q, "speed"), "dir"), "f0")
        /\ one(one(one(<<>>, "speed"), "dir"), "f0") \in Seq(CanFrame)
    BY <1>3, <2>1, <2>3
  <2> QED
    BY <1>3, <1>6, <2>1, <2>4
<1>9. Good(one(q, "speed"), T("speed"))
  <2>1. Good(one(q, "speed"), FALSE \/ T("speed"))
    BY <1>2, <1>5, <1>7
  <2> QED
    BY <2>1
<1>10. Good(one(one(q, "speed"), "dir"), T("speed") \/ T("dir"))
  BY <1>2, <1>5, <1>9
<1>11. Good(one(one(one(q, "speed"), "dir"), "f0"), T("speed") \/ T("dir") \/ T("f0"))
  BY <1>2, <1>5, <1>10
<1>12. Good(one(one(one(one(q, "speed"), "dir"), "f0"), "f9"), T("speed") \/ T("dir") \/ T("f0") \/ T("f9"))
  BY <1>2, <1>5, <1>11
<1>13. (T("speed") \/ T("dir") \/ T("f0") \/ T("f9")) = (b = a /\ x \in e.diff)
  BY <1>5
<1>14. Good(q \o Frames(b, e), b = a /\ x \in e.diff)
  BY <1>8, <1>12, <1>13
<1> QED
  BY <1>14 DEF Good

\* Queues of LocoNet messages.
LEMMA TellMore ==
  ASSUME NEW q \in Seq(LnMessage), NEW m \in LnMessage, NEW s, NEW x
  PROVE  /\ Silent(Append(q, m), s, x) <=> Silent(q, s, x) /\ ~Tells(m, s, x)
         /\ Tells(m, s, x) => \A v : Closing(Append(q, m), s, x, v) <=> m.val[x] = v
         /\ ~Tells(m, s, x) => \A v : Closing(Append(q, m), s, x, v) <=> Closing(q, s, x, v)
<1> DEFINE n == Len(q)
           r == Append(q, m)
<1>1. n \in Nat /\ Len(r) = n + 1 /\ r[n + 1] = m /\ \A i \in 1..n : r[i] = q[i]
  OBVIOUS
<1>2. n + 1 \in 1..(n + 1) /\ \A i \in 1..n : i \in 1..(n + 1) /\ n + 1 \in (i + 1)..(n + 1)
  BY <1>1
<1>3. ((n + 1) + 1)..(n + 1) = {} /\ \A i \in 1..(n + 1) : i # n + 1 => i \in 1..n
  BY <1>1
<1> HIDE DEF r, n
<1>4. Silent(r, s, x) <=> Silent(q, s, x) /\ ~Tells(m, s, x)
  BY <1>1, <1>2, <1>3 DEF Silent, n
<1>5. ASSUME Tells(m, s, x), NEW v
      PROVE  Closing(r, s, x, v) <=> m.val[x] = v
  <2>1. ASSUME Closing(r, s, x, v) PROVE m.val[x] = v
    <3>1. Tells(r[n + 1], s, x) /\ \A j \in ((n + 1) + 1)..Len(r) : ~Tells(r[j], s, x)
      BY <1>1, <1>3, <1>5
    <3> QED
      BY <1>1, <1>2, <2>1, <3>1 DEF Closing
  <2>2. ASSUME m.val[x] = v PROVE Closing(r, s, x, v)
    <3> SUFFICES ASSUME NEW i \in 1..Len(r), \A j \in (i + 1)..Len(r) : ~Tells(r[j], s, x)
                 PROVE  r[i].val[x] = v
      BY DEF Closing
    <3>1. i = n + 1
      BY <1>1, <1>2, <1>3, <1>5
    <3> QED
      BY <1>1, <2>2, <3>1
  <2> QED
    BY <2>1, <2>2
<1>6. ASSUME ~Tells(m, s, x), NEW v
      PROVE  Closing(r, s, x, v) <=> Closing(q, s, x, v)
  <2>1. ASSUME NEW i \in 1..n
        PROVE  (\A j \in (i + 1)..(n + 1) : ~Tells(r[j], s, x)) <=> (\A j \in (i + 1)..n : ~Tells(q[j], s, x))
    <3>1. \A j \in (i + 1)..(n + 1) : j = n + 1 \/ (j \in (i + 1)..n /\ j \in 1..n)
      BY <1>1
    <3>2. \A j \in (i + 1)..n : j \in (i + 1)..(n + 1) /\ j \in 1..n
      BY <1>1
    <3> QED
      BY <1>1, <1>6, <3>1, <3>2
  <2> QED
    BY <1>1, <1>2, <1>3, <1>6, <2>1 DEF Closing, n
<1> QED
  BY <1>4, <1>5, <1>6 DEF r

LEMMA TellNext ==
  ASSUME NEW q \in Seq(LnMessage), q # <<>>, NEW s, NEW x
  PROVE  /\ Silent(q, s, x) <=> ~Tells(Head(q), s, x) /\ Silent(Tail(q), s, x)
         /\ \A v : Closing(q, s, x, v) => Closing(Tail(q), s, x, v)
         /\ \A v : Closing(q, s, x, v) /\ Tells(Head(q), s, x) /\ Silent(Tail(q), s, x)
                     => Head(q).val[x] = v
<1> DEFINE n == Len(q)
           r == Tail(q)
<1>1. /\ n \in Nat /\ n > 0 /\ Len(r) = n - 1 /\ Head(q) = q[1]
      /\ \A i \in 1..(n - 1) : r[i] = q[i + 1]
  OBVIOUS
<1>2. 1 \in 1..n /\ \A i \in 1..n : i = 1 \/ (i - 1 \in 1..(n - 1) /\ (i - 1) + 1 = i)
  BY <1>1
<1>3. \A i \in 1..(n - 1) : i + 1 \in 1..n
  BY <1>1
<1> HIDE DEF r, n
<1>4. \A i \in 1..n : i = 1 \/ q[i] = r[i - 1]
  BY <1>1, <1>2
<1>5. Silent(q, s, x) <=> ~Tells(Head(q), s, x) /\ Silent(r, s, x)
  BY <1>1, <1>2, <1>3, <1>4 DEF Silent, n
<1>6. ASSUME NEW v, Closing(q, s, x, v)
      PROVE  Closing(r, s, x, v)
  <2> SUFFICES ASSUME NEW i \in 1..(n - 1), Tells(r[i], s, x),
                      \A j \in (i + 1)..(n - 1) : ~Tells(r[j], s, x)
               PROVE  r[i].val[x] = v
    BY <1>1 DEF Closing
  <2>1. i + 1 \in 1..n /\ r[i] = q[i + 1]
    BY <1>1, <1>3
  <2>2. ASSUME NEW j \in ((i + 1) + 1)..n
        PROVE  ~Tells(q[j], s, x)
    <3>1. j - 1 \in (i + 1)..(n - 1) /\ j \in 1..n /\ j # 1
      BY <1>1
    <3> QED
      BY <1>4, <3>1
  <2> QED
    BY <1>6, <2>1, <2>2 DEF Closing, n
<1>7. ASSUME NEW v, Closing(q, s, x, v), Tells(Head(q), s, x), Silent(r, s, x)
      PROVE  Head(q).val[x] = v
  <2>1. ASSUME NEW j \in (1 + 1)..n
        PROVE  ~Tells(q[j], s, x)
    <3>1. j - 1 \in 1..(n - 1) /\ j \in 1..n /\ j # 1
      BY <1>1
    <3> QED
      BY <1>1, <1>4, <1>7, <3>1 DEF Silent
  <2> QED
    BY <1>1, <1>2, <1>7, <2>1 DEF Closing, n
<1> QED
  BY <1>5, <1>6, <1>7 DEF r

LEMMA PlainTail ==
  ASSUME NEW q, q # <<>>
  PROVE  /\ q \in Seq(LnMessage) /\ PlainLn(q) =>
              /\ Head(q) \in LnMessage /\ Head(q).op \in {"SPD", "DIRF"}
              /\ Head(q).slot \in DOMAIN Assigned /\ PlainLn(Tail(q))
         /\ q \in Seq(CanFrame) /\ PlainCan(q) =>
              /\ Head(q) \in CanFrame /\ (Head(q).kind = "set" => Head(q).attr # "f9")
              /\ PlainCan(Tail(q))
<1>1. ASSUME NEW S, q \in Seq(S)
      PROVE  /\ 1 \in 1..Len(q) /\ Head(q) = q[1] /\ q[1] \in S
             /\ \A i \in 1..Len(Tail(q)) : i + 1 \in 1..Len(q) /\ Tail(q)[i] = q[i + 1]
  BY <1>1
<1> QED
  BY <1>1 DEF PlainLn, PlainCan

\* A message that the gateway or a throttle sends, and the attributes it tells.
LEMMA SetTells ==
  ASSUME NEW g \in {"SPD", "DIRF"}, NEW s, NEW w
  PROVE  /\ SetMsg(g, s, w).op = g /\ SetMsg(g, s, w).slot = s
         /\ \A r, x : Tells(SetMsg(g, s, w), r, x) <=> r = s /\ x \in Carries[g]
         /\ \A x \in Carries[g] : SetMsg(g, s, w).val[x] = w[x]
         /\ Carries[g] \subseteq SlotData
BY DEF SetMsg, Tells, Carries, SlotData

\* The messages for the changes of an engine.
LEMMA ChangesSent ==
  ASSUME NEW q \in Seq(LnMessage), Len(q) + 2 <= LnDepth, PlainLn(q), NEW s \in DOMAIN Assigned,
         NEW e, e.val \in [Attr -> Value], e.diff \in SUBSET Attr, "f9" \notin e.diff
  PROVE  LET g == SendChanges(q, s, e)
         IN  /\ PlainLn(g)
             /\ \A r, x : Silent(g, r, x) => Silent(q, r, x)
             /\ \A r, x, v : r # s /\ Closing(q, r, x, v) => Closing(g, r, x, v)
             /\ \A x \in SlotData :
                  /\ x \in e.diff => ~Silent(g, s, x)
                  /\ x \in e.diff \/ Closing(q, s, x, OnLn(x, e.val[x])) => Closing(g, s, x, OnLn(x, e.val[x]))
<1> DEFINE one(r, k) == IF Carries[k] \cap e.diff # {} THEN AsyncSend(r, SetMsg(k, s, ShownOnLn(e.val)))
                                                       ELSE r
           Good(g, D) ==
             /\ g \in Seq(LnMessage) /\ PlainLn(g)
             /\ \A r, x : Silent(g, r, x) => Silent(q, r, x)
             /\ \A r, x, v : r # s /\ Closing(q, r, x, v) => Closing(g, r, x, v)
             /\ \A x \in SlotData :
                  /\ x \in e.diff \cap D => ~Silent(g, s, x)
                  /\ x \in e.diff \cap D \/ Closing(q, s, x, OnLn(x, e.val[x])) => Closing(g, s, x, OnLn(x, e.val[x]))
<1>1. s \in Slot
  BY AssignedSlots
<1>2. ASSUME NEW g, NEW D, Good(g, D), Len(g) < LnDepth, NEW k \in {"SPD", "DIRF"}
      PROVE  Good(one(g, k), D \cup Carries[k]) /\ Len(one(g, k)) <= Len(g) + 1
  <2> DEFINE m == SetMsg(k, s, ShownOnLn(e.val))
  <2>1. g \in Seq(LnMessage)
    BY <1>2
  <2>2. CASE Carries[k] \cap e.diff = {}
    <3>1. one(g, k) = g /\ e.diff \cap (D \cup Carries[k]) = e.diff \cap D
      BY <2>2
    <3>2. Good(g, D \cup Carries[k])
      BY <1>2, <3>1
    <3> QED
      BY <2>1, <3>1, <3>2
  <2>3. CASE Carries[k] \cap e.diff # {}
    <3>1. m \in LnMessage /\ one(g, k) = Append(g, m)
      BY <1>1, <1>2, <2>3, Shown, MessageTypes DEF AsyncSend
    <3>2. /\ m.op = k /\ m.slot = s
          /\ \A r, x : Tells(m, r, x) <=> r = s /\ x \in Carries[k]
          /\ \A x \in Carries[k] : m.val[x] = OnLn(x, e.val[x])
      BY SetTells, SlotDataAttr, Shown
    <3> HIDE DEF m, one
    <3>3. /\ Append(g, m) \in Seq(LnMessage) /\ Len(Append(g, m)) = Len(g) + 1
          /\ PlainLn(Append(g, m))
      BY <1>2, <2>1, <3>1, <3>2 DEF PlainLn
    <3>4. \A r, x : Silent(Append(g, m), r, x) => Silent(q, r, x)
      BY <1>2, <2>1, <3>1, TellMore
    <3>5. ASSUME NEW r, NEW x, NEW v, r # s, Closing(q, r, x, v)
          PROVE  Closing(Append(g, m), r, x, v)
      BY <1>2, <2>1, <3>1, <3>2, <3>5, TellMore
    <3>6. ASSUME NEW x \in SlotData
          PROVE  /\ x \in e.diff \cap (D \cup Carries[k]) => ~Silent(Append(g, m), s, x)
                 /\ x \in e.diff \cap (D \cup Carries[k]) \/ Closing(q, s, x, OnLn(x, e.val[x]))
                      => Closing(Append(g, m), s, x, OnLn(x, e.val[x]))
      <4>1. CASE x \in Carries[k]
        <5>1. Tells(m, s, x) /\ m.val[x] = OnLn(x, e.val[x])
          BY <3>2, <4>1
        <5> QED
          BY <2>1, <3>1, <5>1, TellMore
      <4>2. CASE x \notin Carries[k]
        <5>1. ~Tells(m, s, x)
          BY <3>2, <4>2
        <5>2. /\ Silent(Append(g, m), s, x) => Silent(g, s, x)
              /\ Closing(g, s, x, OnLn(x, e.val[x])) => Closing(Append(g, m), s, x, OnLn(x, e.val[x]))
          BY <2>1, <3>1, <5>1, TellMore
        <5> QED
          BY <1>2, <4>2, <5>2
      <4> QED
        BY <4>1, <4>2
    <3>7. Good(Append(g, m), D \cup Carries[k])
      BY <3>3, <3>4, <3>5, <3>6
    <3> HIDE DEF Good
    <3> QED
      BY <2>1, <3>1, <3>3, <3>7
  <2> QED
    BY <2>2, <2>3
<1>3. Good(q, {})
  OBVIOUS
<1>4. SendChanges(q, s, e) = one(one(one(q, "SPD"), "DIRF"), "SND2")
  BY DEF SendChanges
<1>5. Carries["SND2"] = {"f9"} /\ Carries["SPD"] = {"speed"} /\ Carries["DIRF"] = {"dir", "f0"}
  BY DEF Carries
<1>6. \A g : one(g, "SND2") = g
  BY <1>5
<1> HIDE DEF Good, one
<1>7. Good(one(q, "SPD"), {} \cup Carries["SPD"]) /\ Len(one(q, "SPD")) <= Len(q) + 1
  <2>1. Len(q) < LnDepth
    OBVIOUS
  <2> QED
    BY <1>2, <1>3, <2>1
<1>8. Len(one(q, "SPD")) < LnDepth
  <2>1. one(q, "SPD") \in Seq(LnMessage)
    BY <1>7 DEF Good
  <2> QED
    BY <1>7, <2>1
<1>9. Good(one(one(q, "SPD"), "DIRF"), ({} \cup Carries["SPD"]) \cup Carries["DIRF"])
  BY <1>2, <1>7, <1>8
<1>10. Good(SendChanges(q, s, e), ({} \cup Carries["SPD"]) \cup Carries["DIRF"])
  BY <1>4, <1>6, <1>9
<1>11. ({} \cup Carries["SPD"]) \cup Carries["DIRF"] = SlotData
  BY <1>5 DEF SlotData
<1>12. Good(SendChanges(q, s, e), SlotData)
  BY <1>10, <1>11
<1> QED
  BY <1>12 DEF Good

\* The engine of the forwarder is that of a slot.
LEMMA TargetFound ==
  ASSUME TypeOK, ControlsOnly, FixedInv, NEW a \in Known
  PROVE  /\ \A s \in Common : Assigned[s] = a => findSlotForAddress(a) = s
         /\ HasTarget(a) => findSlotForAddress(a) \in Common /\ Assigned[findSlotForAddress(a)] = a
<1> DEFINE S == {s \in Slot : slots[s].inUse /\ slots[s].addr = a}
           f == findSlotForAddress(a)
<1>1. S \in SUBSET Slot /\ f = First(S)
  BY DEF findSlotForAddress
<1>2. ASSUME NEW s \in S
      PROVE  s \in Common /\ Assigned[s] = a
  BY <1>2 DEF FixedInv, Cleared, Common
<1>3. ASSUME NEW s \in Common, Assigned[s] = a
      PROVE  s \in S
  BY <1>3, AssignedSlots DEF FixedInv, Common
<1> HIDE DEF S
<1>4. f \in S \cup {NoSlot} /\ (S # {} => f \in S)
  BY <1>1, FirstFound
<1>5. ASSUME NEW s \in Common, Assigned[s] = a
      PROVE  f = s
  <2>1. f \in S
    BY <1>3, <1>4, <1>5
  <2> QED
    BY <1>2, <1>5, <2>1 DEF ControlsOnly, Common
<1>6. HasTarget(a) => f \in S
  BY <1>4 DEF HasTarget, ControlsOnly
<1> QED
  BY <1>2, <1>5, <1>6

\* A frame changes what it tells of an engine, and marks it as a change.
LEMMA FrameHandled ==
  ASSUME TypeOK, HandleCan, NEW a \in Known, NEW x \in Attr
  PROVE  /\ db'[a].val[x] = Meant(Head(canRx), a, x, db[a].val[x])
         /\ x \notin db'[a].diff =>
              x \notin db[a].diff /\ db'[a].val[x] = db[a].val[x]
         /\ x = "f9" /\ (Head(canRx).kind = "set" => Head(canRx).attr # "f9")
              /\ x \notin db[a].diff => x \notin db'[a].diff
<1> DEFINE f == Head(canRx)
           e == db[a]
<1>1. f \in CanFrame /\ e.val \in [Attr -> Value] /\ e.diff \in SUBSET Attr
      /\ "speed" \in Attr /\ "dir" \in Attr
  BY DEF TypeOK, HandleCan, Attr
<1>2. f.kind = "set" => f.attr \in Attr
  BY <1>1 DEF CanFrame
<1>3. db'[a] = CASE f.kind = "stop"                -> Updated(e, "speed", 0)
                 [] f.kind = "set" /\ f.addr = a   -> Updated(e, f.attr, f.v)
                 [] f.kind = "turn" /\ f.addr = a  -> Turned(e)
                 [] OTHER                          -> e
  BY DEF HandleCan
<1>4. ASSUME NEW y \in Attr, NEW v
      PROVE  LET u == Updated(e, y, v)
             IN  /\ u.val[x] = IF x = y THEN v ELSE e.val[x]
                 /\ x \notin u.diff => x \notin e.diff /\ u.val[x] = e.val[x]
                 /\ x # y /\ x \notin e.diff => x \notin u.diff
  BY <1>1 DEF Updated
<1>5. LET u == Turned(e)
      IN  /\ u.val[x] = IF x = "dir" THEN Flip(e.val[x]) ELSE e.val[x]
          /\ x \notin u.diff => x \notin e.diff /\ u.val[x] = e.val[x]
          /\ x # "dir" /\ x \notin e.diff => x \notin u.diff
  BY <1>1 DEF Turned
<1>6. CASE f.kind = "stop"
  <2>1. db'[a] = Updated(e, "speed", 0)
    BY <1>3, <1>6
  <2>2. Meant(f, a, x, e.val[x]) = IF x = "speed" THEN 0 ELSE e.val[x]
    BY <1>6 DEF Meant
  <2> QED
    BY <1>1, <1>4, <2>1, <2>2
<1>7. CASE f.kind = "set" /\ f.addr = a
  <2>1. db'[a] = Updated(e, f.attr, f.v)
    BY <1>3, <1>7
  <2>2. Meant(f, a, x, e.val[x]) = IF x = f.attr THEN f.v ELSE e.val[x]
    BY <1>7 DEF Meant
  <2> QED
    BY <1>2, <1>4, <1>7, <2>1, <2>2
<1>8. CASE f.kind = "turn" /\ f.addr = a
  <2>1. db'[a] = Turned(e)
    BY <1>3, <1>8
  <2>2. Meant(f, a, x, e.val[x]) = IF x = "dir" THEN Flip(e.val[x]) ELSE e.val[x]
    BY <1>8 DEF Meant
  <2> QED
    BY <1>5, <2>1, <2>2
<1>9. CASE f.kind # "stop" /\ ~(f.kind = "set" /\ f.addr = a) /\ ~(f.kind = "turn" /\ f.addr = a)
  <2>1. db'[a] = e
    BY <1>3, <1>9
  <2>2. Meant(f, a, x, e.val[x]) = e.val[x]
    BY <1>9 DEF Meant
  <2> QED
    BY <2>1, <2>2
<1> QED
  BY <1>6, <1>7, <1>8, <1>9

\* What remains of the steps, and what they change.
LEMMA ForwardEffect ==
  ASSUME TypeOK, ControlsOnly, FixedInv, PlainInv, Room, NEW a \in Known, ForwardLocoChange(a)
  PROVE  \E s \in Common :
           /\ Assigned[s] = a /\ pc = "forward"
           /\ slots' = [slots EXCEPT ![s].val = [x \in Attr |->
                          IF x \in db[a].diff /\ x # "f9" THEN db[a].val[x] ELSE @[x]]]
           /\ lnTx' = SendChanges(lnTx, s, db[a])
           /\ Len(lnTx) + 2 <= LnDepth
           /\ db' = [db EXCEPT ![a].diff = {}]
           /\ UNCHANGED <<pc, overrun, console, lnRx, canRx, can, bus>>
<1> DEFINE s == findSlotForAddress(a)
<1>1. Mode # "ACTIVE" /\ HasTarget(a) /\ pc = "forward"
  BY DEF ControlsOnly, ForwardLocoChange, At
<1>2. s \in Common /\ Assigned[s] = a /\ s # NoSlot
  BY <1>1, TargetFound, AssignedSlots DEF Slot, NoSlot
<1>3. Len(lnTx) + 2 <= LnDepth
  BY <1>1 DEF Room
<1> QED
  BY <1>1, <1>2, <1>3 DEF ForwardLocoChange, busVars

LEMMA HeardEffect ==
  ASSUME TypeOK, FixedInv, PlainInv, process
  PROVE  /\ lnRx # <<>> /\ lnRx' = Tail(lnRx) /\ pc = "ln"
         /\ UNCHANGED <<pc, overrun, console, lnTx, db, canRx, can, bus>>
         /\ \E v \in [Attr -> Value], d \in SUBSET Attr :
              LET m == Head(lnRx)
                  e == slots[m.slot]
              IN  /\ slots' = [slots EXCEPT ![m.slot] = [e EXCEPT !.val = v, !.diff = d]]
                  /\ \A x \in Attr :
                       /\ v[x] = IF x \in Carries[m.op] THEN OnCan(x, m.val[x]) ELSE e.val[x]
                       /\ x \in Carries[m.op] => m.val[x] \in Value
                       /\ x \notin d => x \notin e.diff /\ v[x] = e.val[x]
                       /\ x \notin Carries[m.op] /\ x \notin e.diff => x \notin d
<1> DEFINE m == Head(lnRx)
           e == slots[m.slot]
<1>1. lnRx # <<>> /\ LnHandled /\ pc = "ln"
  BY DEF process, processLocoSpeed, processLocoFunctions, processLocoRequest,
     processRequestSlotRead, processSlotRead, processSlotMove, Hears, At
<1>2. m \in LnMessage /\ m.op \in {"SPD", "DIRF"} /\ m.slot \in DOMAIN Assigned
  BY <1>1, PlainTail DEF TypeOK, PlainInv
<1>3. m.slot \in Slot /\ m.val \in [Carries[m.op] -> Value] /\ e.inUse
  BY <1>2, MessageFields, AssignedSlots DEF FixedInv
<1>4. EntryOf(m.slot) = e /\ Requested(m.slot) = lnTx
  BY <1>3 DEF EntryOf, Requested, NotRequested
<1>5. e \in SlotEntry /\ e.val \in [Attr -> Value] /\ e.diff \in SUBSET Attr
  BY <1>3, EntryUpdates DEF TypeOK
<1>6. UNCHANGED <<pc, overrun, console, lnTx, db, canRx, can, bus>> /\ lnRx' = Tail(lnRx)
      /\ \/ processLocoSpeed /\ m.op = "SPD"
         \/ processLocoFunctions /\ m.op = "DIRF"
  BY <1>1, <1>2, <1>4 DEF process, processLocoSpeed, processLocoFunctions, processLocoRequest,
     processRequestSlotRead, processSlotRead, processSlotMove, Hears, LnHandled, Heard
<1>7. Carries[m.op] \subseteq Attr /\ Carries["SPD"] = {"speed"} /\ "speed" \in Attr
  BY <1>2 DEF Carries, Attr
<1>8. CASE processLocoSpeed /\ m.op = "SPD"
  <2> DEFINE v == [e.val EXCEPT !["speed"] = lnSpeedToCanVelocity(m.val["speed"])]
             d == e.diff \cup {"speed"}
  <2>1. slots' = [slots EXCEPT ![m.slot] = [e EXCEPT !.val = v, !.diff = d]]
    BY <1>4, <1>8 DEF processLocoSpeed, Heard
  <2>2. v \in [Attr -> Value] /\ d \in SUBSET Attr
    <3>1. m.val["speed"] \in Value
      BY <1>3, <1>7, <1>8
    <3>2. lnSpeedToCanVelocity(m.val["speed"]) \in Value
      BY <3>1, SpeedTypes DEF Value
    <3> QED
      BY <1>5, <1>7, <3>2
  <2>3. ASSUME NEW x \in Attr
        PROVE  /\ v[x] = IF x \in Carries[m.op] THEN OnCan(x, m.val[x]) ELSE e.val[x]
               /\ x \in Carries[m.op] => m.val[x] \in Value
               /\ x \notin d => x \notin e.diff /\ v[x] = e.val[x]
               /\ x \notin Carries[m.op] /\ x \notin e.diff => x \notin d
    BY <1>3, <1>5, <1>7, <1>8 DEF OnCan
  <2> HIDE DEF v, d
  <2> QED
    BY <1>1, <1>6, <2>1, <2>2, <2>3
<1>9. CASE processLocoFunctions /\ m.op = "DIRF"
  <2> DEFINE v == [x \in Attr |-> IF x \in Carries[m.op] THEN m.val[x] ELSE e.val[x]]
             d == e.diff \cup {x \in Carries[m.op] : m.val[x] # e.val[x]}
  <2>1. slots' = [slots EXCEPT ![m.slot] = [e EXCEPT !.val = v, !.diff = d]]
    BY <1>4, <1>9 DEF processLocoFunctions, Heard, Hears
  <2>2. v \in [Attr -> Value] /\ d \in SUBSET Attr
    BY <1>3, <1>5, <1>7
  <2>3. ASSUME NEW x \in Attr
        PROVE  /\ v[x] = IF x \in Carries[m.op] THEN OnCan(x, m.val[x]) ELSE e.val[x]
               /\ x \in Carries[m.op] => m.val[x] \in Value
               /\ x \notin d => x \notin e.diff /\ v[x] = e.val[x]
               /\ x \notin Carries[m.op] /\ x \notin e.diff => x \notin d
    <3>1. x \in Carries[m.op] => m.val[x] \in Value /\ OnCan(x, m.val[x]) = m.val[x]
      BY <1>3, <1>9, Units DEF Carries
    <3> QED
      BY <1>5, <1>7, <3>1
  <2> HIDE DEF v, d
  <2> QED
    BY <1>1, <1>6, <2>1, <2>2, <2>3
<1> QED
  BY <1>6, <1>8, <1>9

LEMMA MatchEffect ==
  ASSUME TypeOK, UidOfSlot, FixedInv, PlainInv, NEW s \in Slot, MatchAndForward(s)
  PROVE  /\ s \in DOMAIN Assigned /\ pc = "match"
         /\ UNCHANGED <<pc, overrun, console, lnTx, lnRx, db, bus>>
         /\ \E u \in Uid : slots' = [slots EXCEPT ![s] = [slots[s] EXCEPT !.diff = {}, !.uid = u]]
         /\ \/ s \notin Common /\ UNCHANGED <<canRx, can>>
            \/ /\ s \in Common
               /\ canRx' = canRx \o Frames(Assigned[s], slots[s])
               /\ can' = [can EXCEPT ![Assigned[s]] = [x \in Attr |->
                            IF x \in slots[s].diff THEN slots[s].val[x] ELSE @[x]]]
            \/ s \in Common /\ slots[s].diff = {} /\ UNCHANGED <<canRx, can>>
<1> DEFINE reached == slots[s].diff # {} /\ MatchedUid(s) \in {CanUid(k) : k \in Known}
           engine == MatchedUid(s)[2]
<1>1. slots \in [Slot -> SlotEntry] /\ canRx \in Seq(CanFrame) /\ can \in [Known -> [Attr -> Value]]
  BY DEF TypeOK
<1>2. /\ pc = "match" /\ UNCHANGED <<pc, overrun, console, lnTx, lnRx, db, bus>>
      /\ slots[s].diff # {} \/ MatchedUid(s) # slots[s].uid
      /\ slots' = [slots EXCEPT ![s].diff = {}, ![s].uid = MatchedUid(s)]
      /\ canRx' = IF reached THEN canRx \o Frames(engine, slots[s]) ELSE canRx
      /\ can' = IF reached
                THEN [can EXCEPT ![engine] = [x \in Attr |->
                        IF x \in slots[s].diff THEN slots[s].val[x] ELSE @[x]]]
                ELSE can
  BY DEF MatchAndForward, At
<1>3. s \in DOMAIN Assigned
  BY <1>2 DEF FixedInv, Cleared, MatchedUid
<1>4. slots[s].match /\ slots[s].addr = Assigned[s] /\ Assigned[s] \in Addr
  BY <1>3, AssignedSlots DEF FixedInv
<1>5. MatchedUid(s) \in Uid
  BY <1>1, EntryUpdates DEF MatchedUid, Uid
<1>6. slots' = [slots EXCEPT ![s] = [slots[s] EXCEPT !.diff = {}, !.uid = MatchedUid(s)]]
  BY <1>1, <1>2
<1>7. s \in Common => MatchedUid(s) = CanUid(Assigned[s])
  BY <1>4 DEF MatchedUid, Common
<1>8. CASE s \notin Common
  <2>1. MatchedUid(s) = slots[s].uid /\ Assigned[s] \notin Known
    BY <1>3, <1>4, <1>8 DEF MatchedUid, Common
  <2>2. ~reached
    <3>1. slots[s].uid \in {NoUid, MM2Uid(Assigned[s]), CanUid(Assigned[s])}
      BY <1>4 DEF UidOfSlot
    <3>2. \A k \in Known : CanUid(k) # slots[s].uid
      BY <2>1, <3>1 DEF NoUid, MM2Uid, CanUid
    <3> QED
      BY <2>1, <3>2
  <2>3. UNCHANGED <<canRx, can>>
    BY <1>2, <2>2
  <2> HIDE DEF reached, engine
  <2> QED
    BY <1>2, <1>3, <1>5, <1>6, <1>8, <2>3
<1>9. CASE s \in Common
  <2>1. engine = Assigned[s] /\ MatchedUid(s) \in {CanUid(k) : k \in Known}
    <3>1. Assigned[s] \in Known
      BY <1>9 DEF Common
    <3>2. MatchedUid(s) = CanUid(Assigned[s])
      BY <1>7, <1>9
    <3>3. CanUid(Assigned[s])[2] = Assigned[s]
      BY DEF CanUid
    <3>4. MatchedUid(s) \in {CanUid(k) : k \in Known}
      BY <3>1, <3>2
    <3> QED
      BY <3>2, <3>3, <3>4
  <2>2. CASE reached
    <3>1. /\ canRx' = canRx \o Frames(Assigned[s], slots[s])
          /\ can' = [can EXCEPT ![Assigned[s]] = [x \in Attr |->
                       IF x \in slots[s].diff THEN slots[s].val[x] ELSE @[x]]]
      BY <1>2, <2>1, <2>2
    <3> HIDE DEF reached, engine
    <3> QED
      BY <1>2, <1>3, <1>5, <1>6, <1>9, <3>1
  <2>3. CASE ~reached
    <3>1. slots[s].diff = {} /\ UNCHANGED <<canRx, can>>
      BY <1>2, <2>1, <2>3
    <3> HIDE DEF reached, engine
    <3> QED
      BY <1>2, <1>3, <1>5, <1>6, <1>9, <3>1
  <2> QED
    BY <2>2, <2>3
<1> QED
  BY <1>8, <1>9

LEMMA SendEffect ==
  ASSUME TypeOK, FixedInv, PlainInv, DoBlockingSend
  PROVE  /\ lnTx # <<>> /\ lnTx' = Tail(lnTx) /\ pc = "blocked" /\ ~notified
         /\ UNCHANGED <<pc, overrun, console, slots, db, lnRx, canRx, can>>
         /\ bus' = [bus EXCEPT ![Head(lnTx).slot].val = [x \in Attr |->
                      IF x \in Carries[Head(lnTx).op] THEN Head(lnTx).val[x] ELSE @[x]]]
<1>1. lnTx # <<>> /\ Head(lnTx).op \in {"SPD", "DIRF"}
  BY PlainTail DEF DoBlockingSend, TypeOK, PlainInv
<1>2. DOMAIN Carries = {"SPD", "DIRF", "SND2"}
  BY DEF Carries
<1> QED
  BY <1>1, <1>2 DEF DoBlockingSend, BusHears, ConsoleRuns, At

LEMMA DeviceEffect ==
  ASSUME TypeOK, ControlsOnly, FixedInv, Devices
  PROVE  /\ UNCHANGED <<pc, overrun, console, slots, db, lnTx>>
         /\ \/ /\ UNCHANGED <<canRx, can>>
               /\ \E s \in DOMAIN Assigned, g \in {"SPD", "DIRF"}, v \in [Attr -> Value] :
                    /\ bus' = [bus EXCEPT ![s].val = v]
                    /\ \A y \in Attr : y \notin Carries[g] => v[y] = bus[s].val[y]
                    /\ lnRx' = Append(lnRx, SetMsg(g, s, v))
            \/ /\ UNCHANGED <<lnRx, bus>>
               /\ \E f \in CanFrame :
                    /\ canRx' = Append(canRx, f)
                    /\ f.kind = "set" => f.attr # "f9"
                    /\ \A a \in Known, y \in Attr : can'[a][y] = Meant(f, a, y, can[a][y])
<1>1. /\ bus \in [Slot -> [addr : Addr \cup {0}, val : [Attr -> Value]]]
      /\ can \in [Known -> [Attr -> Value]] /\ lnRx \in Seq(LnMessage)
  BY DEF TypeOK
<1>2. Held = DOMAIN Assigned
  <2>1. \A s \in DOMAIN Assigned : s \in Slot /\ Assigned[s] # 0
    BY AssignedSlots
  <2> QED
    BY <2>1 DEF Held, FixedInv
<1>3. ASSUME NEW s \in Held, NEW g \in DOMAIN Carries, NEW x \in Carries[g], ThrottleSets(s, g, x)
      PROVE  /\ UNCHANGED <<canRx, can>>
             /\ \E r \in DOMAIN Assigned, k \in {"SPD", "DIRF"}, v \in [Attr -> Value] :
                  /\ bus' = [bus EXCEPT ![r].val = v]
                  /\ \A y \in Attr : y \notin Carries[k] => v[y] = bus[r].val[y]
                  /\ lnRx' = Append(lnRx, SetMsg(k, r, v))
  <2>0. PICK n \in Value : bus' = [bus EXCEPT ![s].val[x] = n]
    <3>1. (IF x = "speed" THEN Steps ELSE {0, 1}) \subseteq Value
      BY SpeedAssumption DEF SpeedAssumption, Value
    <3> QED
      BY <1>3, <3>1 DEF ThrottleSets
  <2> DEFINE v == [bus[s].val EXCEPT ![x] = n]
  <2>1. g \in {"SPD", "DIRF"} /\ x \in Attr /\ s \in Slot
    BY <1>3 DEF ThrottleSets, Input, Another, ControlsOnly, Carries, Attr, Held
  <2>2. v \in [Attr -> Value] /\ \A y \in Attr : y \notin Carries[g] => v[y] = bus[s].val[y]
    BY <1>1, <2>1
  <2>3. bus' = [bus EXCEPT ![s].val = v] /\ bus'[s].val = v
    BY <1>1, <2>0, <2>1
  <2>4. lnRx' = lnRx \o <<SetMsg(g, s, bus'[s].val)>> /\ UNCHANGED <<canRx, can>>
    BY <1>3 DEF ThrottleSets, Hear
  <2> HIDE DEF v
  <2>5. lnRx' = Append(lnRx, SetMsg(g, s, v))
    BY <1>1, <2>3, <2>4
  <2> QED
    BY <1>2, <2>1, <2>2, <2>3, <2>4, <2>5
<1>4. /\ ~ \E a \in Addr : ThrottleAsks(a)
      /\ ~ \E s \in Slot : ThrottleReads(s)
      /\ ~ \E s \in Held : ThrottleWrites(s)
      /\ ~ \E src \in Held, dst \in Slot : ThrottleMoves(src, dst)
      /\ ~ThrottleGets
      /\ ~ \E s \in Held \cup GivenForZero : ThrottlePuts(s)
  BY DEF ThrottleAsks, ThrottleReads, ThrottleWrites, ThrottleMoves, ThrottleGets, ThrottlePuts,
     Input, Another, ControlsOnly
<1>5. ASSUME NEW b \in Known, NEW x \in Attr, CentralSets(b, x)
      PROVE  /\ UNCHANGED <<lnRx, bus>>
             /\ \E f \in CanFrame :
                  /\ canRx' = Append(canRx, f)
                  /\ f.kind = "set" => f.attr # "f9"
                  /\ \A a \in Known, y \in Attr : can'[a][y] = Meant(f, a, y, can[a][y])
  <2> DEFINE f == SetFrame(b, x, can'[b][x])
  <2>0. PICK n \in Value : can' = [can EXCEPT ![b][x] = n]
    <3>1. (IF x = "speed" THEN Velocities ELSE {0, 1}) \subseteq Value
      BY SpeedAssumption DEF SpeedAssumption, Value
    <3> QED
      BY <1>5, <3>1 DEF CentralSets
  <2>1. x # "f9" /\ canRx' = Append(canRx, f) /\ UNCHANGED <<lnRx, bus>>
    BY <1>5 DEF CentralSets, Input, Another, ControlsOnly, Receive
  <2>2. \A a \in Known, y \in Attr :
          can'[a][y] = IF a = b /\ y = x THEN n ELSE can[a][y]
    BY <1>1, <2>0
  <2>3. can'[b][x] \in Value
    BY <2>2
  <2>4. f \in CanFrame /\ f.kind = "set" /\ f.attr = x /\ f.addr = b /\ f.v = can'[b][x]
    BY <2>3 DEF CanFrame, SetFrame
  <2> HIDE DEF f
  <2>5. \A a \in Known, y \in Attr : can'[a][y] = Meant(f, a, y, can[a][y])
    BY <2>2, <2>4 DEF Meant
  <2> QED
    BY <2>1, <2>4, <2>5
<1>6. ASSUME NEW b \in Known, CentralTurns(b)
      PROVE  /\ UNCHANGED <<lnRx, bus>>
             /\ \E f \in CanFrame :
                  /\ canRx' = Append(canRx, f)
                  /\ f.kind = "set" => f.attr # "f9"
                  /\ \A a \in Known, y \in Attr : can'[a][y] = Meant(f, a, y, can[a][y])
  <2> DEFINE f == [kind |-> "turn", addr |-> b]
  <2>1. canRx' = Append(canRx, f) /\ UNCHANGED <<lnRx, bus>>
        /\ can' = [can EXCEPT ![b]["dir"] = Flip(@)]
    BY <1>6 DEF CentralTurns, Receive
  <2>2. \A a \in Known, y \in Attr :
          can'[a][y] = IF a = b /\ y = "dir" THEN Flip(can[b][y]) ELSE can[a][y]
    BY <1>1, <2>1
  <2>3. f \in CanFrame /\ f.kind = "turn" /\ f.addr = b
    BY DEF CanFrame
  <2> HIDE DEF f
  <2>4. \A a \in Known, y \in Attr : can'[a][y] = Meant(f, a, y, can[a][y])
    BY <2>2, <2>3 DEF Meant
  <2> QED
    BY <2>1, <2>3, <2>4
<1>7. ASSUME CentralStops
      PROVE  /\ UNCHANGED <<lnRx, bus>>
             /\ \E f \in CanFrame :
                  /\ canRx' = Append(canRx, f)
                  /\ f.kind = "set" => f.attr # "f9"
                  /\ \A a \in Known, y \in Attr : can'[a][y] = Meant(f, a, y, can[a][y])
  <2> DEFINE f == [kind |-> "stop"]
  <2>1. canRx' = Append(canRx, f) /\ UNCHANGED <<lnRx, bus>>
        /\ can' = [a \in Known |-> [can[a] EXCEPT !["speed"] = 0]]
    BY <1>7 DEF CentralStops, Receive
  <2>2. \A a \in Known, y \in Attr : can'[a][y] = IF y = "speed" THEN 0 ELSE can[a][y]
    BY <1>1, <2>1
  <2>3. f \in CanFrame /\ f.kind = "stop"
    BY DEF CanFrame
  <2> HIDE DEF f
  <2>4. \A a \in Known, y \in Attr : can'[a][y] = Meant(f, a, y, can[a][y])
    BY <2>2, <2>3 DEF Meant
  <2> QED
    BY <2>1, <2>3, <2>4
<1>8. UNCHANGED <<pc, overrun, console, slots, db, lnTx>>
  BY DevicesFrame
<1> QED
  BY <1>3, <1>4, <1>5, <1>6, <1>7, <1>8 DEF Devices

\* No other step is left.
LEMMA StepsLeft ==
  ASSUME TypeOK, ControlsOnly, FixedInv, [Next]_vars
  PROVE  \/ Wake \/ CanDone \/ ForwardDone \/ LnDone \/ MatchDone
         \/ HandleCan
         \/ \E a \in Known : ForwardLocoChange(a)
         \/ process
         \/ \E s \in Slot : MatchAndForward(s)
         \/ DoBlockingSend
         \/ Devices
         \/ UNCHANGED vars
<1>1. ~DispatchSearch /\ ~DispatchNew /\ ~ \E a \in Addr : Dispatch(a)
  BY DEF DispatchSearch, DispatchNew, Dispatch, Another, ControlsOnly, FixedInv, Slot
<1> QED
  BY <1>1 DEF Next, RoutingTask, ConsoleTask

\* The slots are as the master assigned them.
LEMMA FixedStep ==
  ASSUME TypeOK, UidOfSlot, ControlsOnly, Room, FixedInv, PlainInv, [Next]_vars
  PROVE  FixedInv'
<1>1. /\ slots \in [Slot -> SlotEntry]
      /\ bus \in [Slot -> [addr : Addr \cup {0}, val : [Attr -> Value]]]
  BY DEF TypeOK
<1>2. ASSUME UNCHANGED <<overrun, console>>,
             \A s \in Slot : bus'[s].addr = bus[s].addr,
             \A s \in Slot : IF s \in DOMAIN Assigned
                             THEN /\ slots'[s].inUse = slots[s].inUse /\ slots'[s].match = slots[s].match
                                  /\ slots'[s].addr = slots[s].addr
                             ELSE slots'[s] = slots[s]
      PROVE  FixedInv'
  BY <1>2 DEF FixedInv
<1>3. ASSUME NEW s \in DOMAIN Assigned, NEW e, slots' = [slots EXCEPT ![s] = e],
             e.inUse = slots[s].inUse, e.match = slots[s].match, e.addr = slots[s].addr,
             UNCHANGED <<overrun, console, bus>>
      PROVE  FixedInv'
  <2>1. \A r \in Slot : slots'[r] = IF r = s THEN e ELSE slots[r]
    BY <1>1, <1>3, AssignedSlots
  <2> QED
    BY <1>2, <1>3, <2>1
<1>4. ASSUME NEW s \in Slot
      PROVE  LET e == slots[s]
             IN  /\ \A v : LET u == [e EXCEPT !.val = v]
                           IN  u.inUse = e.inUse /\ u.match = e.match /\ u.addr = e.addr
                 /\ \A v, d : LET u == [e EXCEPT !.val = v, !.diff = d]
                              IN  u.inUse = e.inUse /\ u.match = e.match /\ u.addr = e.addr
                 /\ \A d, w : LET u == [e EXCEPT !.diff = d, !.uid = w]
                              IN  u.inUse = e.inUse /\ u.match = e.match /\ u.addr = e.addr
  BY <1>1 DEF SlotEntry
<1>5. CASE \/ Wake \/ CanDone \/ ForwardDone \/ LnDone \/ MatchDone
           \/ HandleCan \/ UNCHANGED vars
  <2>1. UNCHANGED <<overrun, console, slots, bus>>
    BY <1>5 DEF Wake, CanDone, ForwardDone, LnDone, MatchDone, HandleCan, busVars, vars, taskVars
  <2> QED
    BY <1>2, <2>1
<1>6. ASSUME NEW a \in Known, ForwardLocoChange(a)
      PROVE  FixedInv'
  <2>1. PICK s, v : /\ s \in Common /\ slots' = [slots EXCEPT ![s].val = v]
                    /\ UNCHANGED <<overrun, console, bus>>
    <3>1. PICK s \in Common :
            /\ slots' = [slots EXCEPT ![s].val = [x \in Attr |->
                           IF x \in db[a].diff /\ x # "f9" THEN db[a].val[x] ELSE @[x]]]
            /\ UNCHANGED <<overrun, console, bus>>
      BY <1>6, ForwardEffect
    <3> QED
      BY <3>1
  <2>2. s \in Slot /\ s \in DOMAIN Assigned
    BY <2>1, AssignedSlots DEF Common
  <2>3. slots' = [slots EXCEPT ![s] = [slots[s] EXCEPT !.val = v]]
    BY <1>1, <2>1, <2>2
  <2> QED
    BY <1>3, <1>4, <2>1, <2>2, <2>3
<1>7. CASE process
  <2>1. /\ UNCHANGED <<overrun, console, bus>>
        /\ \E v, d : slots' = [slots EXCEPT ![Head(lnRx).slot] =
                         [slots[Head(lnRx).slot] EXCEPT !.val = v, !.diff = d]]
    BY <1>7, HeardEffect
  <2>2. Head(lnRx).slot \in DOMAIN Assigned /\ Head(lnRx).slot \in Slot
    BY <1>7, HeardEffect, PlainTail, AssignedSlots DEF TypeOK, PlainInv
  <2> DEFINE s == Head(lnRx).slot
  <2>3. PICK v, d : slots' = [slots EXCEPT ![s] = [slots[s] EXCEPT !.val = v, !.diff = d]]
    BY <2>1
  <2> DEFINE u == [slots[s] EXCEPT !.val = v, !.diff = d]
  <2> HIDE DEF s
  <2>4. u.inUse = slots[s].inUse /\ u.match = slots[s].match /\ u.addr = slots[s].addr
    BY <1>4, <2>2 DEF s
  <2>5. slots' = [slots EXCEPT ![s] = u]
    BY <2>3
  <2> HIDE DEF u
  <2> QED
    BY <1>3, <2>1, <2>2, <2>4, <2>5 DEF s
<1>8. ASSUME NEW s \in Slot, MatchAndForward(s)
      PROVE  FixedInv'
  <2>1. /\ s \in DOMAIN Assigned /\ UNCHANGED <<overrun, console, bus>>
        /\ \E d, u : slots' = [slots EXCEPT ![s] = [slots[s] EXCEPT !.diff = d, !.uid = u]]
    BY <1>8, MatchEffect
  <2>2. PICK d, w : slots' = [slots EXCEPT ![s] = [slots[s] EXCEPT !.diff = d, !.uid = w]]
    BY <2>1
  <2> DEFINE u == [slots[s] EXCEPT !.diff = d, !.uid = w]
  <2>3. u.inUse = slots[s].inUse /\ u.match = slots[s].match /\ u.addr = slots[s].addr
    BY <1>4
  <2>4. slots' = [slots EXCEPT ![s] = u]
    BY <2>2
  <2> HIDE DEF u
  <2> QED
    BY <1>3, <2>1, <2>3, <2>4
<1>9. CASE DoBlockingSend
  <2>1. UNCHANGED <<overrun, console, slots>> /\ \E v : bus' = [bus EXCEPT ![Head(lnTx).slot].val = v]
    BY <1>9, SendEffect
  <2>2. \A s \in Slot : bus'[s].addr = bus[s].addr
    BY <1>1, <2>1
  <2> QED
    BY <1>2, <2>1, <2>2
<1>10. CASE Devices
  <2>1. UNCHANGED <<overrun, console, slots>>
        /\ (UNCHANGED bus \/ \E s, v : bus' = [bus EXCEPT ![s].val = v])
    BY <1>10, DeviceEffect
  <2>2. \A s \in Slot : bus'[s].addr = bus[s].addr
    BY <1>1, <2>1
  <2> QED
    BY <1>2, <2>1, <2>2
<1> QED
  BY <1>5, <1>6, <1>7, <1>8, <1>9, <1>10, StepsLeft

\* One more message or frame of those expected.
LEMMA PlainMore ==
  /\ \A q \in Seq(LnMessage), m \in LnMessage :
       PlainLn(q) /\ m.op \in {"SPD", "DIRF"} /\ m.slot \in DOMAIN Assigned => PlainLn(Append(q, m))
  /\ \A q \in Seq(CanFrame), f \in CanFrame :
       PlainCan(q) /\ (f.kind = "set" => f.attr # "f9") => PlainCan(Append(q, f))
<1>1. ASSUME NEW S, NEW q \in Seq(S), NEW m \in S
      PROVE  \A i \in 1..Len(Append(q, m)) :
               \/ i \in 1..Len(q) /\ Append(q, m)[i] = q[i]
               \/ Append(q, m)[i] = m
  OBVIOUS
<1> QED
  BY <1>1 DEF PlainLn, PlainCan

LEMMA PlainStep ==
  ASSUME TypeOK, UidOfSlot, ControlsOnly, Room, FixedInv, PlainInv, [Next]_vars
  PROVE  PlainInv'
<1>1. /\ slots \in [Slot -> SlotEntry] /\ lnRx \in Seq(LnMessage) /\ lnTx \in Seq(LnMessage)
      /\ canRx \in Seq(CanFrame) /\ can \in [Known -> [Attr -> Value]]
      /\ bus \in [Slot -> [addr : Addr \cup {0}, val : [Attr -> Value]]]
      /\ db \in [Known -> [val : [Attr -> Value], diff : SUBSET Attr]]
      /\ "f9" \in Attr
  BY SlotDataAttr DEF TypeOK
<1>2. CASE Wake \/ CanDone \/ ForwardDone \/ LnDone \/ MatchDone \/ UNCHANGED vars
  BY <1>2 DEF Wake, CanDone, ForwardDone, LnDone, MatchDone, busVars, vars, taskVars, PlainInv
<1>3. CASE HandleCan
  <2>1. canRx # <<>> /\ canRx' = Tail(canRx) /\ UNCHANGED <<lnRx, lnTx, slots, bus, can>>
    BY <1>3 DEF HandleCan
  <2>2. PlainCan(canRx') /\ (Head(canRx).kind = "set" => Head(canRx).attr # "f9")
    BY <1>1, <2>1, PlainTail DEF PlainInv
  <2>3. \A a \in Known : "f9" \notin db'[a].diff
    BY <1>1, <1>3, <2>2, FrameHandled DEF PlainInv
  <2> QED
    BY <2>1, <2>2, <2>3 DEF PlainInv
<1>4. ASSUME NEW a \in Known, ForwardLocoChange(a)
      PROVE  PlainInv'
  <2>1. PICK s, v :
          /\ s \in Common
          /\ slots' = [slots EXCEPT ![s].val = v]
          /\ lnTx' = SendChanges(lnTx, s, db[a]) /\ Len(lnTx) + 2 <= LnDepth
          /\ db' = [db EXCEPT ![a].diff = {}] /\ UNCHANGED <<lnRx, canRx, can, bus>>
    <3>1. PICK s \in Common :
            /\ slots' = [slots EXCEPT ![s].val = [x \in Attr |->
                           IF x \in db[a].diff /\ x # "f9" THEN db[a].val[x] ELSE @[x]]]
            /\ lnTx' = SendChanges(lnTx, s, db[a]) /\ Len(lnTx) + 2 <= LnDepth
            /\ db' = [db EXCEPT ![a].diff = {}] /\ UNCHANGED <<lnRx, canRx, can, bus>>
      BY <1>4, ForwardEffect
    <3> QED
      BY <3>1
  <2>2. PlainLn(lnTx')
    <3>1. s \in DOMAIN Assigned /\ db[a].val \in [Attr -> Value] /\ db[a].diff \in SUBSET Attr
      BY <1>1, <2>1 DEF Common
    <3> QED
      BY <1>1, <2>1, <3>1, ChangesSent DEF PlainInv
  <2>3. \A r \in Slot : slots'[r].diff = slots[r].diff
    BY <1>1, <2>1 DEF SlotEntry
  <2>4. \A b \in Known : db'[b].diff \in {db[b].diff, {}}
    BY <1>1, <2>1
  <2> QED
    BY <2>1, <2>2, <2>3, <2>4 DEF PlainInv
<1>5. CASE process
  <2> DEFINE m == Head(lnRx)
             e == slots[m.slot]
  <2>1. /\ lnRx # <<>> /\ lnRx' = Tail(lnRx) /\ UNCHANGED <<lnTx, db, canRx, can, bus>>
    BY <1>5, HeardEffect
  <2>2. /\ m \in LnMessage /\ m.op \in {"SPD", "DIRF"} /\ m.slot \in DOMAIN Assigned
        /\ PlainLn(lnRx')
    BY <1>1, <2>1, PlainTail DEF PlainInv
  <2>3. "f9" \notin Carries[m.op]
    BY <2>2 DEF Carries
  <2>4. PICK v, d : /\ slots' = [slots EXCEPT ![m.slot] = [e EXCEPT !.val = v, !.diff = d]]
                    /\ "f9" \notin e.diff => "f9" \notin d
    BY <1>1, <1>5, <2>3, HeardEffect
  <2>5. \A r \in Slot : slots'[r].diff = IF r = m.slot THEN d ELSE slots[r].diff
    <3> HIDE DEF m
    <3> QED
      BY <1>1, <2>4 DEF SlotEntry
  <2>6. \A r \in Slot : "f9" \notin slots'[r].diff
    BY <2>4, <2>5 DEF PlainInv
  <2> QED
    BY <2>1, <2>2, <2>6 DEF PlainInv
<1>6. ASSUME NEW s \in Slot, MatchAndForward(s)
      PROVE  PlainInv'
  <2>1. /\ UNCHANGED <<lnTx, lnRx, db, bus>>
        /\ \E u : slots' = [slots EXCEPT ![s] = [slots[s] EXCEPT !.diff = {}, !.uid = u]]
        /\ \/ UNCHANGED <<canRx, can>>
           \/ /\ s \in Common
              /\ canRx' = canRx \o Frames(Assigned[s], slots[s])
              /\ can' = [can EXCEPT ![Assigned[s]] = [x \in Attr |->
                           IF x \in slots[s].diff THEN slots[s].val[x] ELSE @[x]]]
    BY <1>6, MatchEffect
  <2>2. \A r \in Slot : slots'[r].diff \in {slots[r].diff, {}}
    BY <1>1, <2>1 DEF SlotEntry
  <2>3. CASE UNCHANGED <<canRx, can>>
    BY <2>1, <2>2, <2>3 DEF PlainInv
  <2>4. CASE /\ s \in Common
             /\ canRx' = canRx \o Frames(Assigned[s], slots[s])
             /\ can' = [can EXCEPT ![Assigned[s]] = [x \in Attr |->
                          IF x \in slots[s].diff THEN slots[s].val[x] ELSE @[x]]]
    <3>1. "f9" \notin slots[s].diff /\ Assigned[s] \in Known /\ slots[s] \in SlotEntry
      BY <1>1, <2>4 DEF PlainInv, Common
    <3>2. PlainCan(canRx')
      BY <1>1, <2>4, <3>1, FramesTold DEF PlainInv
    <3>3. \A a \in Known : can'[a]["f9"] = can[a]["f9"]
      BY <1>1, <2>4, <3>1
    <3> QED
      BY <2>1, <2>2, <3>2, <3>3 DEF PlainInv
  <2> QED
    BY <2>1, <2>3, <2>4
<1>7. CASE DoBlockingSend
  <2> DEFINE m == Head(lnTx)
  <2>1. /\ lnTx # <<>> /\ lnTx' = Tail(lnTx) /\ UNCHANGED <<slots, db, lnRx, canRx, can>>
        /\ bus' = [bus EXCEPT ![m.slot].val = [x \in Attr |->
                     IF x \in Carries[m.op] THEN m.val[x] ELSE @[x]]]
    BY <1>7, SendEffect
  <2>2. m.op \in {"SPD", "DIRF"} /\ PlainLn(lnTx')
    BY <1>1, <2>1, PlainTail DEF PlainInv
  <2>3. "f9" \notin Carries[m.op]
    BY <2>2 DEF Carries
  <2> HIDE DEF m
  <2>4. \A s \in Slot : bus'[s].val["f9"] = bus[s].val["f9"]
    BY <1>1, <2>1, <2>3
  <2> QED
    BY <2>1, <2>2, <2>4 DEF PlainInv
<1>8. CASE Devices
  <2>1. UNCHANGED <<slots, db, lnTx>>
    BY <1>8, DeviceEffect
  <2>2. ASSUME NEW s \in DOMAIN Assigned, NEW g \in {"SPD", "DIRF"}, NEW v \in [Attr -> Value],
               UNCHANGED <<canRx, can>>, bus' = [bus EXCEPT ![s].val = v],
               \A y \in Attr : y \notin Carries[g] => v[y] = bus[s].val[y],
               lnRx' = Append(lnRx, SetMsg(g, s, v))
        PROVE  PlainInv'
    <3>1. s \in Slot /\ "f9" \notin Carries[g]
      BY AssignedSlots DEF Carries
    <3>2. SetMsg(g, s, v) \in LnMessage
      BY <3>1, MessageTypes
    <3>3. PlainLn(lnRx')
      <4>1. SetMsg(g, s, v).op \in {"SPD", "DIRF"} /\ SetMsg(g, s, v).slot \in DOMAIN Assigned
        BY SetTells
      <4> QED
        BY <1>1, <2>2, <3>2, <4>1, PlainMore DEF PlainInv
    <3>4. \A r \in Slot : bus'[r].val["f9"] = bus[r].val["f9"]
      BY <1>1, <2>2, <3>1
    <3> QED
      BY <2>1, <2>2, <3>3, <3>4 DEF PlainInv
  <2>3. ASSUME NEW f \in CanFrame, UNCHANGED <<lnRx, bus>>, canRx' = Append(canRx, f),
               f.kind = "set" => f.attr # "f9",
               \A a \in Known, y \in Attr : can'[a][y] = Meant(f, a, y, can[a][y])
        PROVE  PlainInv'
    <3>1. PlainCan(canRx')
      BY <1>1, <2>3, PlainMore DEF PlainInv
    <3>2. \A a \in Known : can'[a]["f9"] = can[a]["f9"]
      <4>1. \A a, u : Meant(f, a, "f9", u) = u
        BY <2>3 DEF Meant
      <4> QED
        BY <1>1, <2>3, <4>1
    <3> QED
      BY <2>1, <2>3, <3>1, <3>2 DEF PlainInv
  <2> QED
    BY <1>8, <2>2, <2>3, DeviceEffect
<1> QED
  BY <1>2, <1>3, <1>4, <1>5, <1>6, <1>7, <1>8, StepsLeft

LEMMA SentStep ==
  ASSUME TypeOK, UidOfSlot, ControlsOnly, Room, FixedInv, PlainInv, SentInv, [Next]_vars
  PROVE  SentInv'
<1>1. db \in [Known -> [val : [Attr -> Value], diff : SUBSET Attr]]
      /\ \A s \in Common : Assigned[s] \in Known
  BY DEF TypeOK, Common
<1>2. CASE Wake \/ CanDone \/ LnDone \/ MatchDone \/ UNCHANGED vars
  BY <1>2 DEF Wake, CanDone, LnDone, MatchDone, At, busVars, vars, taskVars, SentInv, ControlsOnly
<1>3. CASE ForwardDone
  <2>1. UNCHANGED db /\ \A a \in Known : db[a].diff = {} \/ ~HasTarget(a)
    BY <1>3 DEF ForwardDone
  <2>2. ASSUME NEW s \in Common
        PROVE  HasTarget(Assigned[s])
    <3>1. findSlotForAddress(Assigned[s]) = s /\ s \in Slot
      BY <1>1, TargetFound, AssignedSlots
    <3> QED
      BY <3>1 DEF HasTarget, Slot, NoSlot
  <2> QED
    BY <1>1, <2>1, <2>2 DEF SentInv
<1>4. CASE HandleCan
  BY <1>4 DEF HandleCan, At, SentInv
<1>5. ASSUME NEW a \in Known, ForwardLocoChange(a)
      PROVE  SentInv'
  <2>1. pc = "forward" /\ pc' = pc
    BY <1>5 DEF ForwardLocoChange, At, busVars
  <2> QED
    BY <2>1 DEF SentInv
<1>6. CASE process
  BY <1>6, HeardEffect DEF SentInv
<1>7. ASSUME NEW s \in Slot, MatchAndForward(s)
      PROVE  SentInv'
  BY <1>7 DEF MatchAndForward, SentInv
<1>8. CASE DoBlockingSend
  BY <1>8, SendEffect DEF SentInv
<1>9. CASE Devices
  BY <1>9, DeviceEffect DEF SentInv
<1> QED
  BY <1>2, <1>3, <1>4, <1>5, <1>6, <1>7, <1>8, <1>9, StepsLeft

\* The flow of an attribute of the engine in slot s through each kind of step.
LEMMA FrameFlow ==
  ASSUME TypeOK, HandleCan, NEW s \in Common, NEW x \in SlotData,
         CanTold(s, x), Copied(s, x), LastSent(s, x), LastHeard(s, x)
  PROVE  (CanTold(s, x) /\ Copied(s, x) /\ LastSent(s, x) /\ LastHeard(s, x))'
<1> DEFINE a == Assigned[s]
           f == Head(canRx)
<1>1. a \in Known /\ x \in Attr
  BY SlotDataAttr DEF Common
<1>2. /\ canRx \in Seq(CanFrame) /\ canRx # <<>> /\ canRx' = Tail(canRx)
      /\ UNCHANGED <<slots, lnTx, lnRx, can, bus>>
  BY DEF HandleCan, TypeOK
<1>3. /\ db'[a].val[x] = Meant(f, a, x, db[a].val[x])
      /\ x \notin db'[a].diff => x \notin db[a].diff /\ db'[a].val[x] = db[a].val[x]
  BY <1>1, FrameHandled
<1>4. Replayed(canRx', a, x, db'[a].val[x], can'[a][x])
  BY <1>2, <1>3, ReplayNext DEF CanTold
<1>5. x \notin db'[a].diff /\ Stable(canRx', a, x, db'[a].val[x])
        => Stable(canRx, a, x, db[a].val[x])
  BY <1>2, <1>3, StableNext
<1> HIDE DEF f
<1> QED
  BY <1>2, <1>3, <1>4, <1>5 DEF CanTold, Copied, LastSent, LastHeard

LEMMA ForwardFlow ==
  ASSUME TypeOK, ControlsOnly, Room, FixedInv, PlainInv, NEW b \in Known, ForwardLocoChange(b),
         NEW s \in Common, NEW x \in SlotData,
         CanTold(s, x), Copied(s, x), LastSent(s, x), LastHeard(s, x)
  PROVE  (CanTold(s, x) /\ Copied(s, x) /\ LastSent(s, x) /\ LastHeard(s, x))'
<1> DEFINE a == Assigned[s]
<1>1. a \in Known /\ x \in Attr /\ x # "f9" /\ s \in Slot /\ s \in DOMAIN Assigned
  BY SlotDataAttr, AssignedSlots DEF Common
<1>2. /\ slots \in [Slot -> SlotEntry] /\ lnTx \in Seq(LnMessage)
      /\ db \in [Known -> [val : [Attr -> Value], diff : SUBSET Attr]]
  BY DEF TypeOK
<1>3. PICK r \in Common :
        /\ Assigned[r] = b
        /\ slots' = [slots EXCEPT ![r].val = [y \in Attr |->
                       IF y \in db[b].diff /\ y # "f9" THEN db[b].val[y] ELSE @[y]]]
        /\ lnTx' = SendChanges(lnTx, r, db[b]) /\ Len(lnTx) + 2 <= LnDepth
        /\ db' = [db EXCEPT ![b].diff = {}] /\ UNCHANGED <<lnRx, canRx, can, bus>>
  BY ForwardEffect
<1>4. r \in Slot /\ r \in DOMAIN Assigned
  BY AssignedSlots DEF Common
<1>5. /\ db[b].val \in [Attr -> Value] /\ db[b].diff \in SUBSET Attr /\ "f9" \notin db[b].diff
  BY <1>2 DEF PlainInv
<1>6. /\ \A q, y : Silent(lnTx', q, y) => Silent(lnTx, q, y)
      /\ \A q, y, v : q # r /\ Closing(lnTx, q, y, v) => Closing(lnTx', q, y, v)
      /\ \A y \in SlotData :
           /\ y \in db[b].diff => ~Silent(lnTx', r, y)
           /\ y \in db[b].diff \/ Closing(lnTx, r, y, OnLn(y, db[b].val[y]))
                => Closing(lnTx', r, y, OnLn(y, db[b].val[y]))
  BY <1>2, <1>3, <1>4, <1>5, ChangesSent DEF PlainInv
<1>7. \A c \in Known : db'[c].val = db[c].val /\ db'[c].diff = IF c = b THEN {} ELSE db[c].diff
  BY <1>2, <1>3
<1>8. CASE r = s
  <2>1. /\ slots'[s].diff = slots[s].diff
        /\ slots'[s].val[x] = IF x \in db[a].diff THEN db[a].val[x] ELSE slots[s].val[x]
    <3> DEFINE v == [y \in Attr |-> IF y \in db[b].diff /\ y # "f9" THEN db[b].val[y] ELSE slots[s].val[y]]
    <3>1. slots' = [slots EXCEPT ![s] = [slots[s] EXCEPT !.val = v]]
      BY <1>1, <1>2, <1>3, <1>8
    <3>2. v[x] = IF x \in db[a].diff THEN db[a].val[x] ELSE slots[s].val[x]
      BY <1>1, <1>3, <1>8
    <3> HIDE DEF v, a
    <3> QED
      BY <1>1, <1>2, <3>1, <3>2 DEF SlotEntry
  <2>2. a = b
    BY <1>3, <1>8
  <2>3. CanTold(s, x)' /\ Copied(s, x)'
    BY <1>1, <1>3, <1>7, <2>1, <2>2 DEF CanTold, Copied
  <2>4. LastSent(s, x)'
    BY <1>1, <1>6, <1>7, <1>8, <2>2 DEF LastSent
  <2>5. LastHeard(s, x)'
    BY <1>1, <1>3, <1>6, <1>8, <2>1, <2>2 DEF LastHeard
  <2> QED
    BY <2>3, <2>4, <2>5
<1>9. CASE r # s
  <2>1. slots'[s] = slots[s]
    BY <1>1, <1>2, <1>3, <1>9
  <2>2. a # b
    BY <1>1, <1>3, <1>4, <1>9 DEF ControlsOnly
  <2>3. db'[a].val = db[a].val /\ db'[a].diff = db[a].diff
    BY <1>1, <1>7, <2>2
  <2>4. Closing(lnTx, s, x, OnLn(x, db[a].val[x])) => Closing(lnTx', s, x, OnLn(x, db[a].val[x]))
    BY <1>6, <1>9
  <2>5. Silent(lnTx', s, x) => Silent(lnTx, s, x)
    BY <1>6
  <2> QED
    BY <1>3, <2>1, <2>3, <2>4, <2>5 DEF CanTold, Copied, LastSent, LastHeard
<1> QED
  BY <1>8, <1>9

LEMMA HeardFlow ==
  ASSUME TypeOK, FixedInv, PlainInv, process, NEW s \in Common, NEW x \in SlotData,
         CanTold(s, x), Copied(s, x), LastSent(s, x), LastHeard(s, x)
  PROVE  (CanTold(s, x) /\ Copied(s, x) /\ LastSent(s, x) /\ LastHeard(s, x))'
<1> DEFINE m == Head(lnRx)
<1>1. x \in Attr /\ s \in Slot
  BY SlotDataAttr, AssignedSlots
<1>2. /\ lnRx # <<>> /\ lnRx' = Tail(lnRx) /\ UNCHANGED <<lnTx, db, canRx, can, bus>>
      /\ lnRx \in Seq(LnMessage) /\ slots \in [Slot -> SlotEntry]
  BY HeardEffect DEF TypeOK
<1>3. PICK v, d :
        /\ slots' = [slots EXCEPT ![m.slot] = [slots[m.slot] EXCEPT !.val = v, !.diff = d]]
        /\ v[x] = IF x \in Carries[m.op] THEN OnCan(x, m.val[x]) ELSE slots[m.slot].val[x]
        /\ x \in Carries[m.op] => m.val[x] \in Value
        /\ x \notin d => x \notin slots[m.slot].diff /\ v[x] = slots[m.slot].val[x]
  BY <1>1, HeardEffect
<1>4. /\ slots'[s].val[x] = IF Tells(m, s, x) THEN OnCan(x, m.val[x]) ELSE slots[s].val[x]
      /\ Tells(m, s, x) => m.val[x] \in Value
      /\ x \notin slots'[s].diff => x \notin slots[s].diff /\ slots'[s].val[x] = slots[s].val[x]
  <2>1. CASE m.slot = s
    <3>1. slots' = [slots EXCEPT ![s] = [slots[s] EXCEPT !.val = v, !.diff = d]]
      BY <1>3, <2>1
    <3>2. slots'[s].val = v /\ slots'[s].diff = d
      BY <1>1, <1>2, <3>1 DEF SlotEntry
    <3> HIDE DEF m
    <3> QED
      BY <1>3, <2>1, <3>2 DEF Tells
  <2>2. CASE m.slot # s
    <3> HIDE DEF m
    <3>1. slots'[s] = slots[s]
      BY <1>1, <1>2, <1>3, <2>2
    <3> QED
      BY <2>2, <3>1 DEF Tells
  <2> QED
    BY <2>1, <2>2
<1>5. CanTold(s, x)' /\ Copied(s, x)' /\ LastSent(s, x)'
  BY <1>2, <1>4 DEF CanTold, Copied, LastSent
<1>6. LastHeard(s, x)'
  <2> SUFFICES ASSUME Silent(lnTx, s, x)
               PROVE  /\ Closing(lnRx', s, x, bus[s].val[x])
                      /\ Silent(lnRx', s, x) => bus[s].val[x] = OnLn(x, slots'[s].val[x])
    BY <1>2 DEF LastHeard
  <2>1. Closing(lnRx, s, x, bus[s].val[x]) /\ (Silent(lnRx, s, x) => bus[s].val[x] = OnLn(x, slots[s].val[x]))
    BY DEF LastHeard
  <2>2. Closing(lnRx', s, x, bus[s].val[x])
    BY <1>2, <2>1, TellNext
  <2>3. ASSUME Silent(lnRx', s, x)
        PROVE  bus[s].val[x] = OnLn(x, slots'[s].val[x])
    <3>1. Silent(lnRx, s, x) <=> ~Tells(m, s, x)
      BY <1>2, <2>3, TellNext
    <3>2. Tells(m, s, x) => m.val[x] = bus[s].val[x]
      BY <1>2, <2>1, <2>3, TellNext
    <3>3. Tells(m, s, x) => OnLn(x, slots'[s].val[x]) = m.val[x]
      BY <1>1, <1>4, Units
    <3> HIDE DEF m
    <3> QED
      BY <1>4, <2>1, <3>1, <3>2, <3>3
  <2> QED
    BY <2>2, <2>3
<1> QED
  BY <1>5, <1>6

LEMMA MatchFlow ==
  ASSUME TypeOK, UidOfSlot, ControlsOnly, FixedInv, PlainInv, NEW r \in Slot, MatchAndForward(r),
         NEW s \in Common, NEW x \in SlotData,
         CanTold(s, x), Copied(s, x), LastSent(s, x), LastHeard(s, x)
  PROVE  (CanTold(s, x) /\ Copied(s, x) /\ LastSent(s, x) /\ LastHeard(s, x))'
<1> DEFINE a == Assigned[s]
           b == Assigned[r]
           Forwarded == /\ r \in Common
                        /\ canRx' = canRx \o Frames(b, slots[r])
                        /\ can' = [can EXCEPT ![b] = [y \in Attr |->
                                     IF y \in slots[r].diff THEN slots[r].val[y] ELSE @[y]]]
<1>1. x \in Attr /\ s \in Slot /\ s \in DOMAIN Assigned /\ a \in Known
  BY SlotDataAttr, AssignedSlots DEF Common
<1>2. /\ slots \in [Slot -> SlotEntry] /\ canRx \in Seq(CanFrame)
      /\ can \in [Known -> [Attr -> Value]]
  BY DEF TypeOK
<1>3. /\ r \in DOMAIN Assigned /\ UNCHANGED <<lnTx, lnRx, db, bus>>
      /\ \/ UNCHANGED <<canRx, can>> /\ (r \notin Common \/ slots[r].diff = {})
         \/ Forwarded
  BY MatchEffect
<1>4. /\ slots'[s].val = slots[s].val
      /\ slots'[s].diff = IF r = s THEN {} ELSE slots[s].diff
  <2>1. PICK u : slots' = [slots EXCEPT ![r] = [slots[r] EXCEPT !.diff = {}, !.uid = u]]
    BY MatchEffect
  <2> QED
    BY <1>1, <1>2, <2>1 DEF SlotEntry
<1>5. CASE UNCHANGED <<canRx, can>> /\ (r \notin Common \/ slots[r].diff = {})
  <2>1. slots'[s].diff = slots[s].diff
    BY <1>4, <1>5
  <2> QED
    BY <1>3, <1>4, <1>5, <2>1 DEF CanTold, Copied, LastSent, LastHeard
<1>6. CASE Forwarded
  <2> DEFINE told == b = a /\ x \in slots[r].diff
             d == db[a].val[x]
             g == canRx \o Frames(b, slots[r])
             w == can[a][x]
  <2>1. b \in Known /\ (b = a <=> r = s)
    BY <1>1, <1>3, <1>6 DEF ControlsOnly, Common
  <2>2. /\ Replayed(canRx, a, x, d, w) => Replayed(g, a, x, d, IF told THEN slots[r].val[x] ELSE w)
        /\ Stable(g, a, x, d) => Stable(canRx, a, x, d) /\ (told => slots[r].val[x] = d)
    <3>1. slots[r] \in SlotEntry
      BY <1>2
    <3> HIDE DEF a, b, d, w
    <3> QED
      BY <1>1, <1>2, <2>1, <3>1, FramesTold
  <2>3. can'[a][x] = IF told THEN slots[r].val[x] ELSE w
    BY <1>1, <1>2, <1>6, <2>1
  <2>4. CanTold(s, x)'
    BY <1>3, <1>6, <2>2, <2>3 DEF CanTold
  <2>5. Copied(s, x)'
    BY <1>3, <1>4, <1>6, <2>1, <2>2 DEF Copied
  <2>6. (LastSent(s, x) /\ LastHeard(s, x))'
    BY <1>3, <1>4 DEF LastSent, LastHeard
  <2> QED
    BY <2>4, <2>5, <2>6
<1> QED
  BY <1>3, <1>5, <1>6

LEMMA SendFlow ==
  ASSUME TypeOK, PendingInv, QueueInv, ControlsOnly, FixedInv, PlainInv, SentInv, DoBlockingSend,
         NEW s \in Common, NEW x \in SlotData,
         CanTold(s, x), Copied(s, x), LastSent(s, x), LastHeard(s, x)
  PROVE  (CanTold(s, x) /\ Copied(s, x) /\ LastSent(s, x) /\ LastHeard(s, x))'
<1> DEFINE a == Assigned[s]
           m == Head(lnTx)
<1>1. x \in Attr /\ s \in Slot
  BY SlotDataAttr, AssignedSlots
<1>2. /\ lnTx # <<>> /\ lnTx' = Tail(lnTx) /\ pc = "blocked" /\ ~notified
      /\ UNCHANGED <<slots, db, lnRx, canRx, can>>
      /\ bus' = [bus EXCEPT ![m.slot].val = [y \in Attr |->
                   IF y \in Carries[m.op] THEN m.val[y] ELSE @[y]]]
      /\ lnTx \in Seq(LnMessage)
      /\ bus \in [Slot -> [addr : Addr \cup {0}, val : [Attr -> Value]]]
  BY SendEffect DEF TypeOK
<1>3. lnRx = <<>> /\ canRx = <<>>
  BY <1>2 DEF QueueInv
<1>4. slots[s].diff = {} /\ db[a].diff = {}
  BY <1>1, <1>2 DEF PendingInv, SentInv, ControlsOnly, FixedInv
<1>5. 1..Len(<<>>) = {}
  OBVIOUS
<1>6. slots[s].val[x] = db[a].val[x] /\ Closing(lnTx, s, x, OnLn(x, db[a].val[x]))
  BY <1>3, <1>4, <1>5 DEF Copied, LastSent, Stable
<1>7. bus'[s].val[x] = IF Tells(m, s, x) THEN m.val[x] ELSE bus[s].val[x]
  <2> HIDE DEF m
  <2> QED
    BY <1>1, <1>2 DEF Tells
<1>8. CanTold(s, x)' /\ Copied(s, x)'
  BY <1>2 DEF CanTold, Copied
<1>9. LastSent(s, x)'
  BY <1>2, <1>6, TellNext DEF LastSent
<1>10. LastHeard(s, x)'
  <2> SUFFICES ASSUME Silent(lnTx', s, x)
               PROVE  bus'[s].val[x] = OnLn(x, slots'[s].val[x]) /\ Closing(lnRx', s, x, bus'[s].val[x])
    BY DEF LastHeard
  <2>1. Closing(lnRx', s, x, bus'[s].val[x]) /\ Silent(lnRx, s, x)
    BY <1>2, <1>3, <1>5 DEF Closing, Silent
  <2>2. CASE Tells(m, s, x)
    <3>1. m.val[x] = OnLn(x, db[a].val[x])
      BY <1>2, <1>6, <2>2, TellNext
    <3> QED
      BY <1>2, <1>6, <1>7, <2>1, <2>2, <3>1
  <2>3. CASE ~Tells(m, s, x)
    <3>1. Silent(lnTx, s, x)
      BY <1>2, <2>3, TellNext
    <3>2. bus[s].val[x] = OnLn(x, slots[s].val[x])
      BY <2>1, <3>1 DEF LastHeard
    <3> QED
      BY <1>2, <1>7, <2>1, <2>3, <3>2
  <2> QED
    BY <2>2, <2>3
<1> QED
  BY <1>8, <1>9, <1>10

LEMMA DeviceFlow ==
  ASSUME TypeOK, ControlsOnly, FixedInv, Devices, NEW s \in Common, NEW x \in SlotData,
         CanTold(s, x), Copied(s, x), LastSent(s, x), LastHeard(s, x)
  PROVE  (CanTold(s, x) /\ Copied(s, x) /\ LastSent(s, x) /\ LastHeard(s, x))'
<1> DEFINE a == Assigned[s]
<1>1. x \in Attr /\ s \in Slot /\ a \in Known
  BY SlotDataAttr, AssignedSlots DEF Common
<1>2. /\ canRx \in Seq(CanFrame) /\ lnRx \in Seq(LnMessage)
      /\ bus \in [Slot -> [addr : Addr \cup {0}, val : [Attr -> Value]]]
  BY DEF TypeOK
<1>3. UNCHANGED <<slots, db, lnTx>>
  BY DeviceEffect
<1>4. ASSUME NEW r \in DOMAIN Assigned, NEW g \in {"SPD", "DIRF"}, NEW v \in [Attr -> Value],
             UNCHANGED <<canRx, can>>, bus' = [bus EXCEPT ![r].val = v],
             \A y \in Attr : y \notin Carries[g] => v[y] = bus[r].val[y],
             lnRx' = Append(lnRx, SetMsg(g, r, v))
      PROVE  (CanTold(s, x) /\ Copied(s, x) /\ LastSent(s, x) /\ LastHeard(s, x))'
  <2> DEFINE m == SetMsg(g, r, v)
  <2>1. m \in LnMessage /\ r \in Slot
    BY AssignedSlots, MessageTypes
  <2>2. /\ Tells(m, s, x) <=> r = s /\ x \in Carries[g]
        /\ x \in Carries[g] => m.val[x] = v[x]
    BY SetTells
  <2> HIDE DEF m
  <2>3. bus'[s].val[x] = IF r = s THEN v[x] ELSE bus[s].val[x]
    BY <1>1, <1>2, <1>4, <2>1
  <2>4. (CanTold(s, x) /\ Copied(s, x) /\ LastSent(s, x))'
    BY <1>3, <1>4 DEF CanTold, Copied, LastSent
  <2>5. lnRx' = Append(lnRx, m)
    BY <1>4 DEF m
  <2>6. LastHeard(s, x)'
    <3>1. CASE Tells(m, s, x)
      <4>1. ~Silent(lnRx', s, x)
        BY <1>2, <2>1, <2>5, <3>1, TellMore
      <4>2. Closing(lnRx', s, x, bus'[s].val[x])
        BY <1>2, <2>1, <2>2, <2>3, <2>5, <3>1, TellMore
      <4> QED
        BY <4>1, <4>2 DEF LastHeard
    <3>2. CASE ~Tells(m, s, x)
      <4>1. Silent(lnRx', s, x) <=> Silent(lnRx, s, x)
        BY <1>2, <2>1, <2>5, <3>2, TellMore
      <4>2. \A u : Closing(lnRx, s, x, u) => Closing(lnRx', s, x, u)
        BY <1>2, <2>1, <2>5, <3>2, TellMore
      <4>3. bus'[s].val[x] = bus[s].val[x]
        BY <1>1, <1>4, <2>2, <2>3, <3>2
      <4> QED
        BY <1>3, <4>1, <4>2, <4>3 DEF LastHeard
    <3> QED
      BY <3>1, <3>2
  <2> QED
    BY <2>4, <2>6
<1>5. ASSUME NEW f \in CanFrame, UNCHANGED <<lnRx, bus>>, canRx' = Append(canRx, f),
             \A b \in Known, y \in Attr : can'[b][y] = Meant(f, b, y, can[b][y])
      PROVE  (CanTold(s, x) /\ Copied(s, x) /\ LastSent(s, x) /\ LastHeard(s, x))'
  <2>1. CanTold(s, x)'
    BY <1>1, <1>2, <1>3, <1>5, ReplayMore DEF CanTold
  <2>2. Copied(s, x)'
    BY <1>2, <1>3, <1>5, StableMore DEF Copied
  <2>3. (LastSent(s, x) /\ LastHeard(s, x))'
    BY <1>3, <1>5 DEF LastSent, LastHeard
  <2> QED
    BY <2>1, <2>2, <2>3
<1> QED
  BY <1>4, <1>5, DeviceEffect

LEMMA FlowStep ==
  ASSUME IInv, ControlsOnly, Room, ConvergeInv, [Next]_vars
  PROVE  FlowInv'
<1> SUFFICES ASSUME NEW s \in Common, NEW x \in SlotData
             PROVE  (CanTold(s, x) /\ Copied(s, x) /\ LastSent(s, x) /\ LastHeard(s, x))'
  BY DEF FlowInv
<1>1. /\ TypeOK /\ UidOfSlot /\ PendingInv /\ QueueInv
      /\ FixedInv /\ PlainInv /\ SentInv
      /\ CanTold(s, x) /\ Copied(s, x) /\ LastSent(s, x) /\ LastHeard(s, x)
  BY DEF IInv, ConvergeInv, FlowInv
<1>2. CASE Wake \/ CanDone \/ ForwardDone \/ LnDone \/ MatchDone \/ UNCHANGED vars
  <2>1. UNCHANGED <<slots, db, lnTx, lnRx, canRx, can, bus>>
    BY <1>2 DEF Wake, CanDone, ForwardDone, LnDone, MatchDone, busVars, vars, taskVars
  <2> QED
    BY <1>1, <2>1 DEF CanTold, Copied, LastSent, LastHeard
<1>3. CASE HandleCan
  BY <1>1, <1>3, FrameFlow
<1>4. CASE \E a \in Known : ForwardLocoChange(a)
  BY <1>1, <1>4, ForwardFlow
<1>5. CASE process
  BY <1>1, <1>5, HeardFlow
<1>6. CASE \E r \in Slot : MatchAndForward(r)
  BY <1>1, <1>6, MatchFlow
<1>7. CASE DoBlockingSend
  BY <1>1, <1>7, SendFlow
<1>8. CASE Devices
  BY <1>1, <1>8, DeviceFlow
<1> QED
  BY <1>1, <1>2, <1>3, <1>4, <1>5, <1>6, <1>7, <1>8, StepsLeft

\* At the start the slots are known and everything stands still.
LEMMA LearnedTypes ==
  ASSUME LearnedInit
  PROVE  IInv
<1>1. InitBus \in [Slot -> [addr : Addr \cup {0}, val : [Attr -> Value]]]
  BY EntryTypes, BusAssumption DEF InitBus, BusAssumption
<1>2. slots \in [Slot -> SlotEntry] /\ \A s \in Slot : slots[s].diff = {}
  <2>1. ASSUME NEW s \in Slot
        PROVE  Learned[s] \in SlotEntry /\ Learned[s].diff = {}
    <3>1. CASE s \in DOMAIN Assigned
      <4>1. Learned[s] = [Cleared EXCEPT !.inUse = TRUE, !.addr = Assigned[s],
                                         !.uid = MM2Uid(Assigned[s]), !.match = TRUE]
        BY <3>1 DEF Learned
      <4>2. Assigned[s] \in Addr
        BY <3>1, AssignedSlots
      <4>3. Learned[s] = [inUse |-> TRUE, addr |-> Assigned[s], uid |-> MM2Uid(Assigned[s]),
                          val |-> Blank, diff |-> {}, match |-> TRUE]
        BY <4>1 DEF Cleared
      <4>4. MM2Uid(Assigned[s]) \in Uid
        BY <4>2 DEF Uid
      <4> HIDE <4>1
      <4> QED
        BY <4>2, <4>3, <4>4, EntryTypes DEF SlotEntry
    <3>2. CASE s \notin DOMAIN Assigned
      <4>1. Learned[s] = Cleared
        BY <3>2 DEF Learned
      <4> QED
        BY <4>1, EntryTypes DEF Cleared
    <3> QED
      BY <3>1, <3>2
  <2>2. slots = Learned /\ Learned = [s \in Slot |-> Learned[s]]
    BY DEF LearnedInit, Learned
  <2> QED
    BY <2>1, <2>2
<1>3. /\ db \in [Known -> [val : [Attr -> Value], diff : SUBSET Attr]]
      /\ can \in [Known -> [Attr -> Value]]
  BY EntryTypes DEF LearnedInit
<1>4. console \in [at : 0..(NumSlots + 1), addr : Addr \cup {0}, free : Slot \cup {NoSlot}]
  BY DEF LearnedInit
<1>5. /\ pc = "blocked" /\ notified = FALSE /\ inDispatch = NoSlot /\ overrun = FALSE
      /\ lnTx = <<>> /\ lnRx = <<>> /\ canRx = <<>> /\ bus = InitBus /\ ops = 0
      /\ asked = {}
  BY DEF LearnedInit
<1>6. /\ lnTx \in Seq(LnMessage) /\ Len(lnTx) <= LnDepth
      /\ lnRx \in Seq(LnMessage) /\ canRx \in Seq(CanFrame)
  BY <1>5
<1>7. /\ pc \in {"blocked", "can", "forward", "ln", "match"}
      /\ inDispatch \in Slot \cup {NoSlot} /\ ops \in 0..MaxOps
      /\ asked \subseteq {"console", "zero"}
      /\ bus \in [Slot -> [addr : Addr \cup {0}, val : [Attr -> Value]]]
  BY <1>1, <1>5
<1>8. notified \in BOOLEAN /\ overrun \in BOOLEAN
  BY <1>5, Zenon
<1>9. TypeOK
  BY <1>2, <1>3, <1>4, <1>6, <1>7, <1>8 DEF TypeOK
<1>10. UidOfSlot
  BY DEF LearnedInit, Learned, UidOfSlot, Cleared
<1>11. PendingInv /\ QueueInv
  BY <1>2, <1>5 DEF LearnedInit, PendingInv, QueueInv
<1> QED
  BY <1>9, <1>10, <1>11 DEF IInv

LEMMA ConvergeInit ==
  ASSUME LearnedInit
  PROVE  ConvergeInv
<1>1. /\ lnTx = <<>> /\ lnRx = <<>> /\ canRx = <<>> /\ 1..Len(<<>>) = {}
      /\ slots = Learned /\ bus = InitBus /\ console.at = 0 /\ ~overrun
      /\ db = [a \in Known |-> [val |-> Blank, diff |-> {}]]
      /\ can = [a \in Known |-> Blank]
  BY DEF LearnedInit
<1>2. Blank \in [Attr -> Value] /\ \A x \in Attr : Blank[x] = 0
  BY EntryTypes DEF Blank
<1>3. \A s \in Slot : /\ slots[s].val = Blank /\ slots[s].diff = {} /\ bus[s].val = Blank
                      /\ bus[s].addr = IF s \in DOMAIN Assigned THEN Assigned[s] ELSE 0
                      /\ s \in DOMAIN Assigned =>
                           slots[s].inUse /\ slots[s].match /\ slots[s].addr = Assigned[s]
                      /\ s \notin DOMAIN Assigned => slots[s] = Cleared
  BY <1>1 DEF Learned, InitBus, Cleared
<1>4. FixedInv
  BY <1>1, <1>3 DEF FixedInv
<1>5. PlainInv
  BY <1>1, <1>2, <1>3, SlotDataAttr DEF PlainInv, PlainLn, PlainCan
<1>6. \A s \in Common : s \in Slot /\ Assigned[s] \in Known
  BY AssignedSlots DEF Common
<1>7. SentInv
  BY <1>1, <1>6 DEF SentInv
<1>8. ASSUME NEW s \in Common, NEW x \in SlotData
      PROVE  CanTold(s, x) /\ Copied(s, x) /\ LastSent(s, x) /\ LastHeard(s, x)
  <2>1. x \in Attr /\ 0 \in Value
    BY SlotDataAttr DEF Value
  <2>2. slots[s].val[x] = 0 /\ bus[s].val[x] = 0 /\ db[Assigned[s]].val[x] = 0
        /\ can[Assigned[s]][x] = 0
    BY <1>1, <1>2, <1>3, <1>6, <2>1
  <2>3. CanTold(s, x)
    BY <1>1, <2>1, <2>2, ReplayNone DEF CanTold
  <2>4. OnLn(x, 0) = 0
    BY <2>1, Units
  <2> QED
    BY <1>1, <2>2, <2>3, <2>4 DEF Copied, LastSent, LastHeard, Closing, Silent
<1> QED
  BY <1>4, <1>5, <1>7, <1>8 DEF ConvergeInv, FlowInv

LEMMA AgreeAtRest ==
  ASSUME IInv, ControlsOnly, ConvergeInv
  PROVE  Converged
<1> SUFFICES ASSUME Settled, NEW s \in Held, bus[s].addr \in Known
             PROVE  bus[s].val = ShownOnLn(can[bus[s].addr])
  BY DEF Converged, Agree
<1>1. s \in Slot /\ s \in DOMAIN Assigned /\ bus[s].addr = Assigned[s] /\ s \in Common
  BY DEF Held, ConvergeInv, FixedInv, Common
<1>2. /\ lnTx = <<>> /\ lnRx = <<>> /\ canRx = <<>> /\ 1..Len(<<>>) = {}
      /\ slots[s].diff = {} /\ db[Assigned[s]].diff = {}
  BY <1>1 DEF Settled, IInv, QueueInv, PendingInv, ControlsOnly, ConvergeInv, SentInv
<1>3. ASSUME NEW x \in SlotData
      PROVE  bus[s].val[x] = OnLn(x, can[Assigned[s]][x])
  <2>1. CanTold(s, x) /\ Copied(s, x) /\ LastHeard(s, x)
    BY <1>1 DEF ConvergeInv, FlowInv
  <2>2. bus[s].val[x] = OnLn(x, slots[s].val[x])
    BY <1>2, <2>1 DEF LastHeard, Silent
  <2>3. slots[s].val[x] = db[Assigned[s]].val[x]
    BY <1>2, <2>1 DEF Copied, Stable
  <2>4. db[Assigned[s]].val[x] = can[Assigned[s]][x]
    <3>1. Replayed(<<>>, Assigned[s], x, db[Assigned[s]].val[x], can[Assigned[s]][x])
      BY <1>2, <2>1 DEF CanTold
    <3> QED
      BY <3>1, ReplayNone, Zenon
  <2> QED
    BY <2>2, <2>3, <2>4
<1>4. bus[s].val["f9"] = OnLn("f9", can[Assigned[s]]["f9"])
  BY <1>1, SlotDataAttr, Units DEF ConvergeInv, PlainInv, Common
<1>5. Attr = SlotData \cup {"f9"}
  BY DEF Attr, SlotData
<1>6. bus[s].val \in [Attr -> Value] /\ can[Assigned[s]] \in [Attr -> Value]
  BY <1>1 DEF IInv, TypeOK, Common
<1>7. \A x \in Attr : bus[s].val[x] = ShownOnLn(can[Assigned[s]])[x]
  BY <1>3, <1>4, <1>5, <1>6, Shown
<1>8. ShownOnLn(can[Assigned[s]]) \in [Attr -> Value]
  BY <1>6, Shown
<1> QED
  BY <1>1, <1>6, <1>7, <1>8

\* Once both sides have been told everything a throttle shows for its engine what the
\* CAN central shows, in the steps of LocoNet, in which order ever the changes of the
\* two crossed and how ever often a speed was converted on its way, for every
\* number of slots and engines and of changes, beside a master and as long as the
\* transmit queue has room: what crosses is decided by the order in which the database
\* and the slot hear of it, and nothing is sent while something heard waits.
THEOREM BusesConverge ==
  ASSUME ControlsOnly
  PROVE  LearnedSpec /\ []Room => []Converged
<1>1. LearnedInit => IInv /\ ConvergeInv
  BY LearnedTypes, ConvergeInit
<1>2. IInv /\ [Next]_vars => IInv'
  BY TypeStep, UidStep, PendingStep, QueueStep DEF IInv
<1>3. IInv /\ ConvergeInv /\ Room /\ [Next]_vars => ConvergeInv'
  BY FixedStep, PlainStep, SentStep, FlowStep DEF IInv, ConvergeInv
<1>4. IInv /\ ConvergeInv => Converged
  BY AgreeAtRest
<1> QED
  BY <1>1, <1>2, <1>3, <1>4, PTL DEF LearnedSpec
=============================================================================
