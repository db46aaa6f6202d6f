---------------------------- MODULE I2CBusProofs ----------------------------
(***************************************************************************)
(* The safety invariants of I2CBus hold for every size of the two rings,   *)
(* every number of messages and frames, and every set of errors.           *)
(*                                                                         *)
(* The invariants on transmission are inductive together with the types.   *)
(* The ones on reception need to know which interrupt flags can be up at   *)
(* the same time (FlagInv), that a claimed receive block owns a slot of    *)
(* the ring (RingInv), whose bytes the block holds (SlotInv) and that its  *)
(* frame is newer than everything published so far (FreshInv).             *)
(* What leaves the transmit ring was sent because of WireInv, at the end.  *)
(***************************************************************************)
EXTENDS I2CBus, TLAPS


AddrPending == "ADDR" \in flags /\ bus = "slave"

FlagInv ==
  /\ \A f \in {"SB", "TxE"} : f \in flags => bus \in {"addr", "data"}
  /\ "AF" \in flags => bus = "nack"
  /\ "ADDR" \in flags => bus \in {"addr", "slave"}
  /\ \A f, g \in {"SB", "ADDR", "TxE", "AF"} : f \in flags /\ g \in flags => f = g
  /\ stopReq => Master /\ flags \cap {"SB", "ADDR", "TxE"} = {}
  /\ AddrPending => flags \cap {"RxNE", "STOPF", "BERR"} = {}

RingInv ==
  /\ rx.occ /\ ~halted => rx.mem = 1 /\ Len(rxQueue) < RxSize
  /\ pc \in {"reply", "free"} => rxQueue # <<>>

SlotInv ==
  rx.occ /\ ~AddrPending =>
    /\ rx.bytes # 0
    /\ rx.bytes \in {2, 3} => rx.slot.src = frame
    /\ rx.bytes = 3 => rx.slot.data = frame

FreshInv ==
  /\ processed <= frame
  /\ \A i \in 1..Len(rxQueue) : rxQueue[i].data <= frame
  /\ rx.occ \/ AddrPending =>
       /\ processed < frame
       /\ \A i \in 1..Len(rxQueue) : rxQueue[i].data < frame

IInv ==
  /\ TypeOK
  /\ NoAbandonedMessage
  /\ BlockHoldsHead
  /\ FlagInv
  /\ RingInv
  /\ SlotInv
  /\ FreshInv
  /\ ReceivedWholeOnce
  /\ NoLostWakeup
  /\ BreakpointOnlyWhenFull

USE SizeAssumption, BoundAssumption, BusAssumption
    DEF SizeAssumption, BoundAssumption, BusAssumption

-----------------------------------------------------------------------------
\* The two operators the handlers use on the transmit ring.
LEMMA ConsumeType ==
  ASSUME NEW S, NEW q \in Seq(S), NEW m
  PROVE  Consume(q, m) \in Seq(S) /\ Len(Consume(q, m)) <= Len(q)
BY DEF Consume

LEMMA ClaimedHead ==
  ASSUME NEW q \in Seq(Message)
  PROVE  /\ Claimed(q) \in [occ : BOOLEAN, mem : 0..MaxSend, bytes : 0..3]
         /\ q # <<>> => Claimed(q).occ
         /\ Claimed(q).occ => q # <<>> /\ Claimed(q).mem = Head(q)
<1>1. CASE q = <<>>
  BY <1>1 DEF Claimed, FreeTx, None
<1>2. CASE q # <<>>
  <2>1. Head(q) \in Message
    BY <1>2
  <2>2. QED
    BY <1>2, <2>1 DEF Claimed, Message
<1>3. QED
  BY <1>1, <1>2

-----------------------------------------------------------------------------
\* Transmission.  The task's steps of startTx() and the handlers' finishTx()
\* and startTxFromISR() all leave the block on the head of the ring.
TxInv == NoAbandonedMessage /\ BlockHoldsHead

LEMMA FinishTxStep ==
  ASSUME TypeOK, finishTx, call' = call
  PROVE  TxInv'
<1>1. Consume(txQueue, tx.mem) \in Seq(Message)
  BY ConsumeType DEF TypeOK
<1>2. tx' = Claimed(txQueue')
  BY DEF finishTx
<1>3. txQueue' \in Seq(Message)
  BY <1>1 DEF finishTx
<1>4. QED
  BY <1>2, <1>3, ClaimedHead DEF TxInv, NoAbandonedMessage, BlockHoldsHead

LEMMA StartTxFromISRStep ==
  ASSUME TypeOK, TxInv, startTxFromISR, UNCHANGED <<call, txQueue>>
  PROVE  TxInv'
<1>1. CASE tx.occ
  <2>1. tx' = tx
    BY <1>1 DEF startTxFromISR
  <2>2. QED
    BY <2>1 DEF TxInv, NoAbandonedMessage, BlockHoldsHead
<1>2. CASE ~tx.occ
  <2>1. tx' = Claimed(txQueue)
    BY <1>2 DEF startTxFromISR
  <2>2. txQueue \in Seq(Message)
    BY DEF TypeOK
  <2>3. QED
    BY <2>1, <2>2, ClaimedHead DEF TxInv, NoAbandonedMessage, BlockHoldsHead
<1>3. QED
  BY <1>1, <1>2

LEMMA ForwardRxTxStep ==
  ASSUME TypeOK, TxInv, forwardRx, UNCHANGED <<call, txQueue>>
  PROVE  TxInv'
<1>1. CASE rx.occ /\ rx.bytes = 3
  BY <1>1, StartTxFromISRStep DEF forwardRx
<1>2. CASE ~(rx.occ /\ rx.bytes = 3)
  BY <1>2 DEF forwardRx, TxInv, NoAbandonedMessage, BlockHoldsHead
<1>3. QED
  BY <1>1, <1>2

LEMMA SendTxStep ==
  ASSUME TypeOK, TxInv, sendI2CMessage, call = "none", tx' = tx
  PROVE  TxInv'
<1>1. tx.occ => txQueue # <<>> /\ tx.mem = Head(txQueue)
  BY DEF TxInv, BlockHoldsHead
<1>2. txQueue # <<>> => txQueue' # <<>> /\ Head(txQueue') = Head(txQueue)
  <2>1. /\ txQueue \in Seq(Message)
        /\ sent + 1 \in Message
    BY DEF sendI2CMessage, TypeOK, Message
  <2>2. txQueue' = txQueue \/ txQueue' = Append(txQueue, sent + 1)
    BY DEF sendI2CMessage
  <2>3. QED
    BY <2>1, <2>2
<1>3. QED
  BY <1>1, <1>2 DEF sendI2CMessage, TxInv, NoAbandonedMessage, BlockHoldsHead

LEMMA TxStep ==
  ASSUME TypeOK, TxInv, [Next]_vars
  PROVE  TxInv'
<1> USE DEF TxInv, NoAbandonedMessage, BlockHoldsHead, txVars
<1>1. CASE TaskWake \/ TaskCanDone \/ TaskPoll \/ TaskFree \/ TaskDone
  BY <1>1 DEF TaskWake, TaskCanDone, TaskPoll, TaskFree, TaskDone
<1>2. CASE TaskForward
  BY <1>2, SendTxStep DEF TaskForward, AtLoop
<1>3. CASE TaskReply
  <2>1. CASE sendI2CMessage
    BY <1>3, <2>1, SendTxStep DEF TaskReply, AtLoop
  <2>2. CASE UNCHANGED <<txQueue, sent, call>>
    BY <1>3, <2>2 DEF TaskReply
  <2>3. QED
    BY <1>3, <2>1, <2>2 DEF TaskReply
<1>4. CASE StartTxClaim
  <2>1. CASE tx.occ
    BY <1>4, <2>1 DEF StartTxClaim, InStartTx
  <2>2. CASE ~tx.occ
    BY <1>4, <2>2 DEF StartTxClaim, TypeOK
  <2>3. QED
    BY <2>1, <2>2
<1>5. CASE StartTxClear
  BY <1>5 DEF StartTxClear, InStartTx, TypeOK
<1>6. CASE StartTxPeek
  <2>1. CASE txQueue = <<>>
    BY <1>6, <2>1 DEF StartTxPeek, FreeTx
  <2>2. CASE txQueue # <<>>
    <3>1. tx'.mem = Head(txQueue) /\ txQueue' = txQueue /\ call' = "check"
      BY <1>6, <2>2 DEF StartTxPeek, TypeOK
    <3>2. tx.occ /\ tx'.occ = tx.occ
      BY <1>6, <2>2 DEF StartTxPeek, InStartTx, TypeOK
    <3>3. QED
      BY <2>2, <3>1, <3>2
  <2>3. QED
    BY <2>1, <2>2
<1>7. CASE StartTxCheck \/ StartTxStart
  BY <1>7 DEF StartTxCheck, StartTxStart, InStartTx
<1>8. CASE EvStart
  BY <1>8 DEF EvStart, taskVars, TypeOK
<1>9. CASE EvTransmit
  BY <1>9 DEF EvTransmit, taskVars, TypeOK
<1>10. CASE EvAddrMaster \/ EvAddrSlave \/ EvReceive \/ ErBusErrorMaster
  BY <1>10 DEF EvAddrMaster, EvAddrSlave, EvReceive, ErBusErrorMaster, taskVars
<1>11. CASE EvTransmitted \/ ErAckFailure
  BY <1>11, FinishTxStep DEF EvTransmitted, ErAckFailure, taskVars
<1>12. CASE EvStop \/ ErBusErrorSlave
  BY <1>12, ForwardRxTxStep DEF EvStop, ErBusErrorSlave
<1>13. CASE Hardware
  BY <1>13 DEF Hardware, StartCondition, StopCondition, Acknowledge, NotAcknowledge,
       ArbitrationLost, MasterBusError, OtherStart, OtherStop, FrameStart,
       FrameByte, FrameStop, FrameBusError, OtherNotify, SoftwareUnchanged, taskVars
<1>14. CASE UNCHANGED vars
  BY <1>14 DEF vars, taskVars
<1>15. QED
  BY <1>1, <1>2, <1>3, <1>4, <1>5, <1>6, <1>7, <1>8, <1>9, <1>10, <1>11, <1>12,
     <1>13, <1>14 DEF Next, Task, Isr

-----------------------------------------------------------------------------
\* Interrupt flags: what the peripheral and the handlers raise and clear.
LEMMA FlagStep ==
  ASSUME TypeOK, FlagInv, [Next]_vars
  PROVE  FlagInv'
<1> USE DEF FlagInv, AddrPending, Master, hwVars
<1>1. CASE Task
  BY <1>1 DEF Task, TaskWake, TaskForward, TaskCanDone, TaskPoll, TaskReply, TaskFree,
     TaskDone, StartTxClaim, StartTxClear, StartTxPeek, StartTxCheck, StartTxStart
<1>2. CASE EvStart
  BY <1>2 DEF EvStart
<1>3. CASE EvAddrMaster
  BY <1>3 DEF EvAddrMaster, Ev, Serves
<1>4. CASE EvAddrSlave \/ EvReceive
  BY <1>4 DEF EvAddrSlave, EvReceive
<1>5. CASE EvTransmit
  BY <1>5 DEF EvTransmit
<1>6. CASE EvTransmitted
  BY <1>6 DEF EvTransmitted, finishTx, Ev, Serves
<1>7. CASE ErAckFailure
  BY <1>7 DEF ErAckFailure, finishTx, Er, Serves
<1>8. CASE EvStop \/ ErBusErrorSlave \/ ErBusErrorMaster
  BY <1>8 DEF EvStop, ErBusErrorSlave, ErBusErrorMaster
<1>9. CASE StartCondition
  BY <1>9 DEF StartCondition, Shifting
<1>10. CASE StopCondition
  BY <1>10 DEF StopCondition
<1>11. CASE Acknowledge
  BY <1>11 DEF Acknowledge, Shifting
<1>12. CASE NotAcknowledge
  BY <1>12 DEF NotAcknowledge, Shifting
<1>13. CASE ArbitrationLost
  BY <1>13 DEF ArbitrationLost, Shifting, Prompt
<1>14. CASE MasterBusError
  BY <1>14 DEF MasterBusError
<1>15. CASE OtherStart \/ OtherStop \/ OtherNotify
  BY <1>15 DEF OtherStart, OtherStop, OtherNotify
<1>16. CASE FrameStart
  BY <1>16 DEF FrameStart, Prompt
<1>17. CASE FrameByte \/ FrameBusError
  BY <1>17 DEF FrameByte, FrameBusError, Prompt
<1>18. CASE FrameStop
  BY <1>18 DEF FrameStop
<1>19. CASE UNCHANGED vars
  BY <1>19 DEF vars
<1>20. QED
  BY <1>1, <1>2, <1>3, <1>4, <1>5, <1>6, <1>7, <1>8, <1>9, <1>10, <1>11, <1>12, <1>13,
     <1>14, <1>15, <1>16, <1>17, <1>18, <1>19 DEF Next, Isr, Hardware

-----------------------------------------------------------------------------
\* Facts about the receive ring that SMT is told rather than left to find.
LEMMA AppendFacts ==
  ASSUME NEW S, NEW q \in Seq(S), NEW e \in S
  PROVE  /\ Append(q, e) \in Seq(S)
         /\ Append(q, e) # <<>>
         /\ Len(Append(q, e)) = Len(q) + 1
         /\ \A i \in 1..Len(q) : Append(q, e)[i] = q[i]
         /\ Append(q, e)[Len(q) + 1] = e
OBVIOUS

LEMMA TailFacts ==
  ASSUME NEW S, NEW q \in Seq(S), q # <<>>
  PROVE  /\ Tail(q) \in Seq(S)
         /\ Len(Tail(q)) = Len(q) - 1
         /\ \A i \in 1..Len(Tail(q)) : Tail(q)[i] = q[i + 1]
         /\ Head(q) \in S
         /\ Head(q) = q[1]
         /\ Len(q) \in Nat \ {0}
OBVIOUS

\* The receive ring: its slots, the notification, and the two bkpt.
WakeInv == RingInv /\ NoLostWakeup /\ BreakpointOnlyWhenFull

LEMMA ForwardRxRingStep ==
  ASSUME TypeOK, WakeInv, forwardRx, pc' = pc, ~halted
  PROVE  WakeInv' /\ Len(rxQueue') <= RxSize /\ rxQueue' \in Seq(Slot)
<1> USE DEF WakeInv, RingInv, NoLostWakeup, BreakpointOnlyWhenFull
<1>1. CASE rx.occ /\ rx.bytes = 3
  <2>1. rx.mem = 1 /\ Len(rxQueue) < RxSize
    BY <1>1
  <2>2. rx.mem # None
    BY <2>1 DEF None
  <2>3. /\ rxQueue' = Append(rxQueue, rx.slot)
        /\ rx' = FreeRx
        /\ notified' = TRUE
    BY <1>1, <2>2 DEF forwardRx
  <2>4. ~halted'
    BY <1>1, <2>2, Zenon DEF forwardRx
  <2>5. rxQueue' = Append(rxQueue, rx.slot) /\ ~halted' /\ notified' /\ rx' = FreeRx
    BY <2>3, <2>4
  <2>6. rxQueue \in Seq(Slot) /\ rx.slot \in Slot
    BY DEF TypeOK
  <2>7. rxQueue' \in Seq(Slot) /\ Len(rxQueue') = Len(rxQueue) + 1 /\ rxQueue' # <<>>
    BY <2>5, <2>6, AppendFacts
  <2>8. Len(rxQueue) \in Nat
    BY <2>6
  <2>9. Len(rxQueue') <= RxSize
    BY <2>1, <2>7, <2>8
  <2>10. ~rx'.occ
    BY <2>5 DEF FreeRx
  <2>11. QED
    BY <2>5, <2>7, <2>9, <2>10
<1>2. CASE ~(rx.occ /\ rx.bytes = 3)
  BY <1>2 DEF forwardRx, TypeOK
<1>3. QED
  BY <1>1, <1>2

LEMMA WakeStep ==
  ASSUME TypeOK, WakeInv, [Next]_vars
  PROVE  WakeInv'
<1> USE DEF WakeInv, RingInv, NoLostWakeup, BreakpointOnlyWhenFull, rxVars, taskVars
<1>1. CASE TaskWake
  BY <1>1 DEF TaskWake, AtLoop
<1>2. CASE TaskForward
  BY <1>2 DEF TaskForward
<1>3. CASE TaskCanDone
  BY <1>3 DEF TaskCanDone
<1>4. CASE TaskPoll
  BY <1>4 DEF TaskPoll
<1>5. CASE TaskReply
  BY <1>5 DEF TaskReply, AtLoop
<1>6. CASE TaskFree
  <2>1. rxQueue # <<>> /\ rxQueue \in Seq(Slot)
    BY <1>6 DEF TaskFree, AtLoop, TypeOK
  <2>2. rxQueue' = Tail(rxQueue) /\ ~halted /\ ~halted' /\ pc' = "i2c" /\ rx' = rx
    BY <1>6 DEF TaskFree, AtLoop, TaskRuns
  <2>3. Len(rxQueue') = Len(rxQueue) - 1 /\ Len(rxQueue) \in Nat
    BY <2>1, <2>2, TailFacts
  <2>4. QED
    BY <2>2, <2>3
<1>7. CASE TaskDone
  BY <1>7 DEF TaskDone, AtLoop
<1>8. CASE StartTxClaim \/ StartTxClear \/ StartTxPeek \/ StartTxCheck \/ StartTxStart
  BY <1>8 DEF StartTxClaim, StartTxClear, StartTxPeek, StartTxCheck, StartTxStart
<1>9. CASE EvAddrSlave
  <2> DEFINE room == Len(rxQueue) < RxSize
             mem  == IF rx.occ THEN rx.mem ELSE IF room THEN 1 ELSE None
  <2>1. ~halted /\ rxQueue' = rxQueue /\ pc' = pc /\ notified' = notified
    BY <1>9 DEF EvAddrSlave, Ev
  <2>2. rx'.mem = mem /\ (halted' <=> mem = None)
    BY <1>9 DEF EvAddrSlave, TypeOK
  <2>3. Len(rxQueue) \in Nat /\ Len(rxQueue) <= RxSize
    BY DEF TypeOK
  <2>4. mem = 1 => Len(rxQueue) < RxSize
    BY <2>1 DEF None
  <2>5. mem # 1 => mem = None /\ ~room
    BY <2>1 DEF None
  <2>6. QED
    BY <2>1, <2>2, <2>3, <2>4, <2>5 DEF None
<1>10. CASE EvReceive
  <2>1. rx'.occ = rx.occ /\ rx'.mem = rx.mem
    BY <1>10 DEF EvReceive, TypeOK
  <2>2. QED
    BY <1>10, <2>1 DEF EvReceive
<1>11. CASE EvStop
  BY <1>11, ForwardRxRingStep DEF EvStop, Ev
<1>12. CASE ErBusErrorSlave
  BY <1>12, ForwardRxRingStep DEF ErBusErrorSlave, Er
<1>13. CASE EvStart \/ EvAddrMaster \/ EvTransmit \/ EvTransmitted \/ ErAckFailure
            \/ ErBusErrorMaster
  BY <1>13 DEF EvStart, EvAddrMaster, EvTransmit, EvTransmitted, ErAckFailure,
     ErBusErrorMaster
<1>14. CASE Hardware
  BY <1>14 DEF Hardware, StartCondition, StopCondition, Acknowledge, NotAcknowledge,
       ArbitrationLost, MasterBusError, OtherStart, OtherStop, FrameStart,
       FrameByte, FrameStop, FrameBusError, OtherNotify, SoftwareUnchanged
<1>15. CASE UNCHANGED vars
  BY <1>15 DEF vars
<1>16. QED
  BY <1>1, <1>2, <1>3, <1>4, <1>5, <1>6, <1>7, <1>8, <1>9, <1>10, <1>11, <1>12, <1>13,
     <1>14, <1>15 DEF Next, Task, Isr

-----------------------------------------------------------------------------
\* The content of the receive ring: whole messages, each frame once, in order.
ContentInv == SlotInv /\ FreshInv /\ ReceivedWholeOnce

LEMMA RxQueueType ==
  ASSUME TypeOK
  PROVE  /\ rxQueue \in Seq(Slot)
         /\ DOMAIN rxQueue = 1..Len(rxQueue)
         /\ Len(rxQueue) \in Nat
         /\ \A i \in 1..Len(rxQueue) : rxQueue[i] \in Slot /\ rxQueue[i].data \in Int
         /\ frame \in Int
         /\ processed \in Int
<1>1. rxQueue \in Seq(Slot) /\ frame \in 0..MaxFrames /\ processed \in 0..MaxFrames
  BY DEF TypeOK
<1>2. \A i \in 1..Len(rxQueue) : rxQueue[i] \in Slot
  BY <1>1
<1>3. \A x \in Slot : x.data \in Int
  BY DEF Slot
<1>4. QED
  BY <1>1, <1>2, <1>3

LEMMA ForwardRxContentStep ==
  ASSUME TypeOK, ContentInv, RingInv, ~AddrPending, ~AddrPending', forwardRx, ~halted,
         UNCHANGED <<frame, processed>>
  PROVE  ContentInv'
<1> USE DEF ContentInv
<1>1. CASE rx.occ /\ rx.bytes = 3
  <2>1. rx.mem # None
    BY <1>1 DEF RingInv, None
  <2>2. rxQueue' = Append(rxQueue, rx.slot) /\ rx' = FreeRx
    BY <1>1, <2>1 DEF forwardRx
  <2>3. rx.slot \in Slot /\ rx.slot.src = frame /\ rx.slot.data = frame
    BY <1>1 DEF SlotInv, TypeOK
  <2>4. /\ processed < frame
        /\ \A i \in 1..Len(rxQueue) : rxQueue[i].data < frame
    BY <1>1 DEF FreshInv
  <2>5. /\ DOMAIN rxQueue' = 1..(Len(rxQueue) + 1)
        /\ Len(rxQueue') = Len(rxQueue) + 1
        /\ \A i \in 1..Len(rxQueue) : rxQueue'[i] = rxQueue[i]
        /\ rxQueue'[Len(rxQueue) + 1] = rx.slot
    BY <2>2, <2>3, RxQueueType, AppendFacts
  <2>6. \A i \in 1..(Len(rxQueue) + 1) : i \in 1..Len(rxQueue) \/ i = Len(rxQueue) + 1
    BY RxQueueType
  <2>7. ReceivedWholeOnce'
    <3>1. ASSUME NEW i \in DOMAIN rxQueue'
          PROVE  rxQueue'[i].src = rxQueue'[i].data /\ rxQueue'[i].data > processed
      BY <2>3, <2>4, <2>5, <2>6, RxQueueType DEF ReceivedWholeOnce
    <3>2. ASSUME NEW i \in DOMAIN rxQueue', NEW j \in DOMAIN rxQueue', i < j
          PROVE  rxQueue'[i].data < rxQueue'[j].data
      <4>1. i \in 1..Len(rxQueue)
        BY <3>2, <2>5, RxQueueType
      <4>2. CASE j \in 1..Len(rxQueue)
        BY <3>2, <4>1, <4>2, <2>5, RxQueueType DEF ReceivedWholeOnce
      <4>3. CASE j = Len(rxQueue) + 1
        BY <4>1, <4>3, <2>3, <2>4, <2>5
      <4>4. QED
        BY <2>5, <2>6, <4>2, <4>3
    <3>3. QED
      BY <3>1, <3>2 DEF ReceivedWholeOnce
  <2>8. FreshInv'
    BY <2>2, <2>3, <2>4, <2>5, <2>6, RxQueueType DEF FreshInv, FreeRx
  <2>9. SlotInv'
    BY <2>2 DEF SlotInv, FreeRx
  <2>10. QED
    BY <2>7, <2>8, <2>9
<1>2. CASE ~(rx.occ /\ rx.bytes = 3)
  BY <1>2 DEF forwardRx, SlotInv, FreshInv, ReceivedWholeOnce
<1>3. QED
  BY <1>1, <1>2

\* A new frame makes everything received so far older than it.
LEMMA NewFrameStep ==
  ASSUME TypeOK, ContentInv, frame' = frame + 1, AddrPending',
         UNCHANGED <<rxQueue, rx, processed>>
  PROVE  ContentInv'
BY RxQueueType DEF ContentInv, SlotInv, FreshInv, ReceivedWholeOnce

LEMMA ContentStep ==
  ASSUME TypeOK, ContentInv, RingInv, FlagInv, [Next]_vars
  PROVE  ContentInv'
<1> USE DEF ContentInv
<1>1. CASE TaskFree
  <2>1. rxQueue # <<>> /\ rxQueue \in Seq(Slot)
    BY <1>1 DEF TaskFree, AtLoop, TypeOK, RingInv
  <2>2. /\ rxQueue' = Tail(rxQueue)
        /\ processed' = rxQueue[1].data
        /\ UNCHANGED <<rx, frame, flags, bus>>
    BY <1>1, <2>1, TailFacts DEF TaskFree, hwVars
  <2>3. /\ Len(rxQueue') = Len(rxQueue) - 1
        /\ DOMAIN rxQueue' = 1..Len(rxQueue')
        /\ Len(rxQueue') \in Nat
        /\ 1 \in DOMAIN rxQueue
        /\ \A i \in 1..Len(rxQueue') : rxQueue'[i] = rxQueue[i + 1]
                                       /\ i + 1 \in DOMAIN rxQueue
    BY <2>1, <2>2, TailFacts, RxQueueType
  <2>4. ReceivedWholeOnce'
    <3>1. ASSUME NEW i \in DOMAIN rxQueue'
          PROVE  rxQueue'[i].src = rxQueue'[i].data /\ rxQueue'[i].data > processed'
      BY <2>2, <2>3, RxQueueType DEF ReceivedWholeOnce
    <3>2. ASSUME NEW i \in DOMAIN rxQueue', NEW j \in DOMAIN rxQueue', i < j
          PROVE  rxQueue'[i].data < rxQueue'[j].data
      <4>1. /\ i + 1 \in DOMAIN rxQueue /\ j + 1 \in DOMAIN rxQueue
            /\ i + 1 < j + 1
            /\ rxQueue'[i] = rxQueue[i + 1] /\ rxQueue'[j] = rxQueue[j + 1]
        BY <3>2, <2>3
      <4>2. QED
        BY <4>1 DEF ReceivedWholeOnce
    <3>3. QED
      BY <3>1, <3>2 DEF ReceivedWholeOnce
  <2>5. FreshInv'
    BY <2>2, <2>3, RxQueueType DEF FreshInv, AddrPending
  <2>6. SlotInv'
    BY <2>2 DEF SlotInv, AddrPending
  <2>7. QED
    BY <2>4, <2>5, <2>6
<1>2. CASE EvAddrSlave
  <2>1. /\ AddrPending
        /\ rx'.bytes = 1
        /\ UNCHANGED <<rxQueue, processed, frame>>
    BY <1>2 DEF EvAddrSlave, Ev, Serves, AddrPending, FlagInv, Master, TypeOK
  <2>2. QED
    BY <2>1 DEF SlotInv, FreshInv, ReceivedWholeOnce
<1>3. CASE EvReceive
  <2>1. ~AddrPending /\ ~AddrPending'
    BY <1>3 DEF EvReceive, Ev, Serves, EvFlags, AddrPending
  <2>2. /\ rx.occ /\ rx.bytes < 3
        /\ UNCHANGED <<rxQueue, processed, frame>>
        /\ rx' = [rx EXCEPT !.bytes = rx.bytes + 1,
                            !.slot.src = IF rx.bytes = 1 THEN frame ELSE rx.slot.src,
                            !.slot.data = IF rx.bytes = 2 THEN frame ELSE rx.slot.data]
    BY <1>3 DEF EvReceive
  <2>3. /\ rx.bytes \in 0..3
        /\ rx'.bytes = rx.bytes + 1
        /\ rx.bytes = 1 => rx'.slot.src = frame
        /\ rx.bytes = 2 => rx'.slot.src = rx.slot.src /\ rx'.slot.data = frame
    <3>1. /\ rx \in [occ : BOOLEAN, mem : {0, 1}, bytes : 0..3, slot : Slot]
          /\ DOMAIN rx.slot = {"src", "data"}
      BY DEF TypeOK, Slot
    <3>2. rx.bytes \in 0..3 /\ rx'.bytes = rx.bytes + 1
      BY <3>1, <2>2
    <3>3. CASE rx.bytes = 1
      <4>1. rx'.slot.src = frame
        BY <3>1, <3>3, <2>2
      <4>2. QED
        BY <4>1, <3>2, <3>3
    <3>4. CASE rx.bytes = 2
      <4>1. rx' = [rx EXCEPT !.bytes = 3, !.slot.src = rx.slot.src, !.slot.data = frame]
        BY <3>4, <2>2
      <4>2. rx'.slot = [rx.slot EXCEPT !.src = rx.slot.src, !.data = frame]
        BY <3>1, <4>1
      <4>3. rx'.slot.src = rx.slot.src
        BY <3>1, <4>2
      <4>4. rx'.slot.data = frame
        BY <3>1, <4>2
      <4>5. QED
        BY <4>3, <4>4, <3>2, <3>4
    <3>5. QED
      BY <3>2, <3>3, <3>4
  <2>4. SlotInv'
    BY <2>1, <2>2, <2>3 DEF SlotInv
  <2>5. FreshInv' /\ ReceivedWholeOnce'
    BY <2>1, <2>2 DEF FreshInv, ReceivedWholeOnce
  <2>6. QED
    BY <2>4, <2>5
<1>4. CASE EvStop
  <2>1. ~AddrPending /\ ~AddrPending' /\ ~halted /\ UNCHANGED <<frame, processed>>
    BY <1>4 DEF EvStop, Ev, Serves, AddrPending, FlagInv
  <2>2. QED
    BY <1>4, <2>1, ForwardRxContentStep DEF EvStop
<1>5. CASE ErBusErrorSlave
  <2>1. ~AddrPending /\ ~AddrPending' /\ ~halted /\ UNCHANGED <<frame, processed>>
    BY <1>5 DEF ErBusErrorSlave, Er, Serves, AddrPending, FlagInv
  <2>2. QED
    BY <1>5, <2>1, ForwardRxContentStep DEF ErBusErrorSlave
<1>6. CASE FrameStart
  <2>1. frame' = frame + 1 /\ AddrPending' /\ UNCHANGED <<rxQueue, rx, processed>>
    BY <1>6 DEF FrameStart, SoftwareUnchanged, rxVars, AddrPending
  <2>2. QED
    BY <2>1, NewFrameStep
<1>7. CASE ArbitrationLost
  <2>1. CASE bus' = "other"
    BY <1>7, <2>1 DEF ArbitrationLost, SoftwareUnchanged, rxVars, AddrPending, Shifting,
       SlotInv, FreshInv, ReceivedWholeOnce
  <2>2. CASE bus' # "other"
    <3>1. frame' = frame + 1 /\ AddrPending' /\ UNCHANGED <<rxQueue, rx, processed>>
      BY <1>7, <2>2 DEF ArbitrationLost, SoftwareUnchanged, rxVars, AddrPending
    <3>2. QED
      BY <3>1, NewFrameStep
  <2>3. QED
    BY <2>1, <2>2
<1>8. ASSUME UNCHANGED <<rxQueue, rx, processed, frame>>, AddrPending' = AddrPending
      PROVE  ContentInv'
  BY <1>8 DEF SlotInv, FreshInv, ReceivedWholeOnce
<1>9. CASE \/ TaskWake \/ TaskForward \/ TaskCanDone \/ TaskPoll \/ TaskReply \/ TaskDone
           \/ StartTxClaim \/ StartTxClear \/ StartTxPeek \/ StartTxCheck \/ StartTxStart
  BY <1>8, <1>9 DEF TaskWake, TaskForward, TaskCanDone, TaskPoll, TaskReply, TaskDone,
     StartTxClaim, StartTxClear, StartTxPeek, StartTxCheck, StartTxStart,
     rxVars, hwVars, AddrPending
<1>10. CASE \/ EvStart \/ EvAddrMaster \/ EvTransmit \/ EvTransmitted
            \/ ErAckFailure \/ ErBusErrorMaster
  BY <1>8, <1>10 DEF EvStart, EvAddrMaster, EvTransmit, EvTransmitted, ErAckFailure,
     ErBusErrorMaster, rxVars, AddrPending, Master
<1>11. CASE \/ StartCondition \/ StopCondition \/ Acknowledge \/ NotAcknowledge
            \/ MasterBusError \/ OtherStart \/ OtherStop
            \/ FrameByte \/ FrameStop \/ FrameBusError \/ OtherNotify
  BY <1>8, <1>11 DEF StartCondition, StopCondition, Acknowledge, NotAcknowledge,
     MasterBusError, OtherStart, OtherStop, FrameByte, FrameStop, FrameBusError,
     OtherNotify, SoftwareUnchanged, Shifting, Prompt, rxVars, hwVars,
     AddrPending, Master, FlagInv
<1>12. CASE UNCHANGED vars
  BY <1>8, <1>12 DEF vars, rxVars, hwVars, AddrPending
<1>13. QED
  BY <1>1, <1>2, <1>3, <1>4, <1>5, <1>6, <1>7, <1>9, <1>10, <1>11, <1>12
     DEF Next, Task, Isr, Hardware

-----------------------------------------------------------------------------
\* Types, a group of variables at a time.
TaskType ==
  /\ pc \in {"blocked", "can", "i2c", "reply", "free", "ln"}
  /\ call \in {"none", "claim", "clear", "peek", "check", "start"}
  /\ notified \in BOOLEAN

TxType ==
  /\ txQueue \in Seq(Message) /\ Len(txQueue) <= TxSize
  /\ tx \in [occ : BOOLEAN, mem : 0..MaxSend, bytes : 0..3]
  /\ sent \in 0..MaxSend

RxType ==
  /\ rxQueue \in Seq(Slot) /\ Len(rxQueue) <= RxSize
  /\ rx \in [occ : BOOLEAN, mem : {0, 1}, bytes : 0..3, slot : Slot]
  /\ processed \in 0..MaxFrames
  /\ halted \in BOOLEAN

HwType ==
  /\ bus \in BusState
  /\ flags \subseteq {"SB", "ADDR", "RxNE", "TxE", "STOPF", "AF", "ARLO", "BERR"}
  /\ startReq \in BOOLEAN
  /\ stopReq \in BOOLEAN
  /\ wire \in Seq(0..MaxSend)
  /\ frame \in 0..MaxFrames
  /\ togo \in Nat
  /\ errors \in 0..MaxErrors

LEMMA EmptySeq ==
  ASSUME NEW S
  PROVE  <<>> \in Seq(S) /\ Len(<<>>) = 0
OBVIOUS

LEMMA FreeTypes ==
  /\ FreeTx \in [occ : BOOLEAN, mem : 0..MaxSend, bytes : 0..3] /\ ~FreeTx.occ
  /\ FreeRx \in [occ : BOOLEAN, mem : {0, 1}, bytes : 0..3, slot : Slot] /\ ~FreeRx.occ
BY DEF FreeTx, FreeRx, NoSlot, None, Slot

LEMMA TypeParts == TypeOK <=> TaskType /\ TxType /\ RxType /\ HwType
BY DEF TypeOK, TaskType, TxType, RxType, HwType

LEMMA SendType ==
  ASSUME TxType, sendI2CMessage, tx' = tx
  PROVE  TxType'
<1>1. sent + 1 \in Message /\ sent' \in 0..MaxSend
  BY DEF TxType, sendI2CMessage, Message
<1>2. CASE Len(txQueue) < TxSize
  <2>1. txQueue' = Append(txQueue, sent + 1)
    BY <1>2 DEF sendI2CMessage
  <2>2. txQueue' \in Seq(Message) /\ Len(txQueue') = Len(txQueue) + 1 /\ Len(txQueue) \in Nat
    BY <1>1, <2>1, AppendFacts DEF TxType
  <2>3. QED
    BY <1>1, <1>2, <2>2 DEF TxType
<1>3. CASE ~(Len(txQueue) < TxSize)
  BY <1>1, <1>3 DEF TxType, sendI2CMessage
<1>4. QED
  BY <1>2, <1>3

LEMMA FinishTxType ==
  ASSUME TxType, finishTx, sent' = sent
  PROVE  TxType'
<1>1. txQueue' \in Seq(Message) /\ Len(txQueue') <= Len(txQueue)
      /\ Len(txQueue') \in Nat /\ Len(txQueue) \in Nat
  BY ConsumeType DEF TxType, finishTx
<1>2. tx' = Claimed(txQueue')
  BY DEF finishTx
<1>3. tx' \in [occ : BOOLEAN, mem : 0..MaxSend, bytes : 0..3]
  BY <1>1, <1>2, ClaimedHead
<1>4. QED
  BY <1>1, <1>3 DEF TxType

LEMMA ForwardRxType ==
  ASSUME TxType, forwardRx, UNCHANGED <<txQueue, sent>>
  PROVE  TxType'
<1>1. tx' = tx \/ tx' = Claimed(txQueue)
  BY DEF forwardRx, startTxFromISR
<1>2. QED
  BY <1>1, ClaimedHead DEF TxType

LEMMA TxTypeStep ==
  ASSUME TxType, [Next]_vars
  PROVE  TxType'
<1> USE DEF txVars
<1>1. CASE TaskWake \/ TaskCanDone \/ TaskPoll \/ TaskFree \/ TaskDone
           \/ StartTxCheck \/ StartTxStart
  BY <1>1 DEF TaskWake, TaskCanDone, TaskPoll, TaskFree, TaskDone, StartTxCheck,
     StartTxStart, TxType
<1>2. CASE TaskForward
  BY <1>2, SendType DEF TaskForward
<1>3. CASE TaskReply
  BY <1>3, SendType DEF TaskReply, TxType
<1>4. CASE StartTxClaim
  BY <1>4 DEF StartTxClaim, TxType
<1>5. CASE StartTxClear
  <2>1. tx' = [occ |-> tx.occ, mem |-> 0, bytes |-> 0]
    BY <1>5 DEF StartTxClear, TxType, None
  <2>2. tx.occ \in BOOLEAN
    BY DEF TxType
  <2>3. QED
    BY <1>5, <2>1, <2>2 DEF StartTxClear, TxType
<1>6. CASE StartTxPeek
  <2>1. txQueue # <<>> => Head(txQueue) \in 0..MaxSend
    BY DEF TxType, Message
  <2>2. CASE txQueue = <<>>
    BY <1>6, <2>2, FreeTypes DEF StartTxPeek, TxType
  <2>3. CASE txQueue # <<>>
    <3>1. tx' = [occ |-> tx.occ, mem |-> Head(txQueue), bytes |-> tx.bytes]
      BY <1>6, <2>3 DEF StartTxPeek, TxType
    <3>2. tx.occ \in BOOLEAN /\ tx.bytes \in 0..3
      BY DEF TxType
    <3>3. QED
      BY <1>6, <2>1, <2>3, <3>1, <3>2 DEF StartTxPeek, TxType
  <2>4. QED
    BY <2>2, <2>3
<1>7. CASE EvStart \/ EvTransmit
  BY <1>7 DEF EvStart, EvTransmit, TxType
<1>8. CASE EvTransmitted \/ ErAckFailure
  BY <1>8, FinishTxType DEF EvTransmitted, ErAckFailure
<1>9. CASE EvStop \/ ErBusErrorSlave
  BY <1>9, ForwardRxType DEF EvStop, ErBusErrorSlave
<1>10. CASE EvAddrMaster \/ EvAddrSlave \/ EvReceive \/ ErBusErrorMaster
  BY <1>10 DEF EvAddrMaster, EvAddrSlave, EvReceive, ErBusErrorMaster, TxType
<1>11. CASE Hardware
  BY <1>11 DEF Hardware, StartCondition, StopCondition, Acknowledge, NotAcknowledge,
     ArbitrationLost, MasterBusError, OtherStart, OtherStop, FrameStart, FrameByte,
     FrameStop, FrameBusError, OtherNotify, SoftwareUnchanged, TxType
<1>12. CASE UNCHANGED vars
  BY <1>12 DEF vars, TxType
<1>13. QED
  BY <1>1, <1>2, <1>3, <1>4, <1>5, <1>6, <1>7, <1>8, <1>9, <1>10, <1>11, <1>12
     DEF Next, Task, Isr

LEMMA RxTypeStep ==
  ASSUME TypeOK, RxType, WakeInv, frame' \in 0..MaxFrames, [Next]_vars
  PROVE  RxType'
<1> USE DEF rxVars
<1>1. CASE TaskFree
  <2>1. rxQueue # <<>> /\ rxQueue \in Seq(Slot)
    BY <1>1 DEF TaskFree, AtLoop, RxType, WakeInv, RingInv
  <2>2. /\ rxQueue' \in Seq(Slot) /\ Len(rxQueue') = Len(rxQueue) - 1
        /\ Head(rxQueue) \in Slot /\ Len(rxQueue) \in Nat
    BY <1>1, <2>1, TailFacts DEF TaskFree
  <2>3. processed' \in 0..MaxFrames
    BY <1>1, <2>2 DEF TaskFree, Slot
  <2>4. QED
    BY <1>1, <2>2, <2>3 DEF TaskFree, RxType
<1>2. CASE EvAddrSlave
  <2> DEFINE room == Len(rxQueue) < RxSize
             mem  == IF rx.occ THEN rx.mem ELSE IF room THEN 1 ELSE None
  <2>0. rx' = [occ |-> TRUE, mem |-> mem, bytes |-> 1, slot |-> rx.slot]
    BY <1>2 DEF EvAddrSlave, RxType
  <2>1. rx' \in [occ : BOOLEAN, mem : {0, 1}, bytes : 0..3, slot : Slot]
    BY <2>0 DEF RxType, None
  <2>2. halted' \in BOOLEAN
    BY <1>2 DEF EvAddrSlave
  <2>3. QED
    BY <1>2, <2>1, <2>2 DEF EvAddrSlave, RxType
<1>3. CASE EvReceive
  <2>1. rx \in [occ : BOOLEAN, mem : {0, 1}, bytes : 0..3, slot : Slot]
    BY DEF RxType
  <2>2. frame \in 0..MaxFrames /\ rx.slot.src \in 0..MaxFrames /\ rx.slot.data \in 0..MaxFrames
    BY <2>1 DEF TypeOK, Slot
  <2>3. rx'.slot = [rx.slot EXCEPT !.src = IF rx.bytes = 1 THEN frame ELSE rx.slot.src,
                                   !.data = IF rx.bytes = 2 THEN frame ELSE rx.slot.data]
    BY <1>3, <2>1 DEF EvReceive
  <2>4. rx'.slot \in Slot
    BY <2>1, <2>2, <2>3 DEF Slot
  <2>5. rx' = [occ |-> rx.occ, mem |-> rx.mem, bytes |-> rx.bytes + 1, slot |-> rx'.slot]
    BY <1>3, <2>1 DEF EvReceive
  <2>6. rx.bytes + 1 \in 0..3
    BY <1>3, <2>1 DEF EvReceive
  <2>7. QED
    BY <1>3, <2>1, <2>4, <2>5, <2>6 DEF EvReceive, RxType
<1>4. CASE EvStop \/ ErBusErrorSlave
  <2>1. ~halted /\ forwardRx /\ pc' = pc /\ processed' = processed
    BY <1>4 DEF EvStop, ErBusErrorSlave, Ev, Er
  <2>2. rxQueue' \in Seq(Slot) /\ Len(rxQueue') <= RxSize
    BY <2>1, ForwardRxRingStep
  <2>3. rx' \in [occ : BOOLEAN, mem : {0, 1}, bytes : 0..3, slot : Slot]
    <3>1. rx' = FreeRx \/ rx' = rx
      BY <2>1 DEF forwardRx
    <3>2. QED
      BY <3>1, FreeTypes DEF RxType
  <2>4. halted' \in BOOLEAN
    BY <2>1 DEF forwardRx, RxType
  <2>5. QED
    BY <2>1, <2>2, <2>3, <2>4 DEF RxType
<1>5. CASE Task /\ ~TaskFree
  BY <1>5 DEF Task, TaskWake, TaskForward, TaskCanDone, TaskPoll, TaskReply, TaskDone,
     StartTxClaim, StartTxClear, StartTxPeek, StartTxCheck, StartTxStart, RxType
<1>6. CASE \/ EvStart \/ EvAddrMaster \/ EvTransmit \/ EvTransmitted
           \/ ErAckFailure \/ ErBusErrorMaster
  BY <1>6 DEF EvStart, EvAddrMaster, EvTransmit, EvTransmitted, ErAckFailure,
     ErBusErrorMaster, RxType
<1>7. CASE Hardware
  BY <1>7 DEF Hardware, StartCondition, StopCondition, Acknowledge, NotAcknowledge,
     ArbitrationLost, MasterBusError, OtherStart, OtherStop, FrameStart, FrameByte,
     FrameStop, FrameBusError, OtherNotify, SoftwareUnchanged, RxType
<1>8. CASE UNCHANGED vars
  BY <1>8 DEF vars, RxType
<1>9. QED
  BY <1>1, <1>2, <1>3, <1>4, <1>5, <1>6, <1>7, <1>8 DEF Next, Isr

LEMMA TaskTypeStep ==
  ASSUME TaskType, [Next]_vars
  PROVE  TaskType'
<1> USE DEF TaskType, taskVars
<1>1. CASE Task
  BY <1>1 DEF Task, TaskWake, TaskForward, TaskCanDone, TaskPoll, TaskReply, TaskFree,
     TaskDone, StartTxClaim, StartTxClear, StartTxPeek, StartTxCheck, StartTxStart,
     sendI2CMessage
<1>2. CASE Isr
  BY <1>2 DEF Isr, EvStart, EvAddrMaster, EvAddrSlave, EvReceive, EvTransmit,
     EvTransmitted, EvStop, ErAckFailure, ErBusErrorMaster, ErBusErrorSlave, forwardRx
<1>3. CASE Hardware
  BY <1>3 DEF Hardware, StartCondition, StopCondition, Acknowledge, NotAcknowledge,
     ArbitrationLost, MasterBusError, OtherStart, OtherStop, FrameStart, FrameByte,
     FrameStop, FrameBusError, OtherNotify, SoftwareUnchanged
<1>4. CASE UNCHANGED vars
  BY <1>4 DEF vars
<1>5. QED
  BY <1>1, <1>2, <1>3, <1>4 DEF Next

LEMMA HwTypeStep ==
  ASSUME TxType, HwType, [Next]_vars
  PROVE  HwType'
<1> DEFINE FlagSet == {"SB", "ADDR", "RxNE", "TxE", "STOPF", "AF", "ARLO", "BERR"}
<1> USE DEF hwVars
<1>1. CASE Task
  BY <1>1 DEF Task, TaskWake, TaskForward, TaskCanDone, TaskPoll, TaskReply, TaskFree,
     TaskDone, StartTxClaim, StartTxClear, StartTxPeek, StartTxCheck, StartTxStart, HwType
<1>2. CASE EvStart
  <2>1. wire' \in Seq(0..MaxSend)
    BY <1>2 DEF EvStart, TxType
  <2>2. flags' \subseteq FlagSet
    BY <1>2 DEF EvStart, HwType
  <2>3. QED
    BY <1>2, <2>1, <2>2 DEF EvStart, HwType
<1>3. CASE EvTransmit
  <2>1. wire' \in Seq(0..MaxSend)
    BY <1>3 DEF EvTransmit, TxType, HwType
  <2>2. flags' \subseteq FlagSet
    BY <1>3 DEF EvTransmit, HwType
  <2>3. QED
    BY <1>3, <2>1, <2>2 DEF EvTransmit, HwType
<1>4. CASE EvAddrMaster \/ EvAddrSlave \/ EvReceive \/ ErBusErrorMaster
  BY <1>4 DEF EvAddrMaster, EvAddrSlave, EvReceive, ErBusErrorMaster, TxType, HwType,
     BusState
<1>5. CASE EvTransmitted \/ ErAckFailure
  BY <1>5 DEF EvTransmitted, ErAckFailure, finishTx, HwType
<1>6. CASE EvStop \/ ErBusErrorSlave
  BY <1>6 DEF EvStop, ErBusErrorSlave, forwardRx, startTxFromISR, HwType
<1>7. CASE Hardware
  <2>1. flags' \subseteq FlagSet
    <3>1. \E f \in FlagSet : flags' = flags \/ flags' = flags \cup {f}
                              \/ flags' = flags \cup {"ARLO", "ADDR"}
      BY <1>7 DEF Hardware, StartCondition, StopCondition, Acknowledge, NotAcknowledge,
         ArbitrationLost, MasterBusError, OtherStart, OtherStop, FrameStart, FrameByte,
         FrameStop, FrameBusError, OtherNotify
    <3>2. QED
      BY <3>1 DEF HwType
  <2>2. bus' \in BusState
    BY <1>7 DEF Hardware, StartCondition, StopCondition, Acknowledge, NotAcknowledge,
       ArbitrationLost, MasterBusError, OtherStart, OtherStop, FrameStart, FrameByte,
       FrameStop, FrameBusError, OtherNotify, HwType, BusState
  <2>3. startReq' \in BOOLEAN /\ stopReq' \in BOOLEAN
    BY <1>7 DEF Hardware, StartCondition, StopCondition, Acknowledge, NotAcknowledge,
       ArbitrationLost, MasterBusError, OtherStart, OtherStop, FrameStart, FrameByte,
       FrameStop, FrameBusError, OtherNotify, HwType
  <2>4. wire' \in Seq(0..MaxSend)
    <3>0. wire \in Seq(0..MaxSend)
      BY DEF HwType
    <3>1. wire' = wire \/ wire' = <<>>
      BY <1>7 DEF Hardware, StartCondition, StopCondition, Acknowledge, NotAcknowledge,
         ArbitrationLost, MasterBusError, OtherStart, OtherStop, FrameStart, FrameByte,
         FrameStop, FrameBusError, OtherNotify
    <3>2. QED
      BY <3>0, <3>1, EmptySeq
  <2>5. frame' \in 0..MaxFrames
    <3>1. frame' = frame \/ (frame < MaxFrames /\ frame' = frame + 1)
      BY <1>7 DEF Hardware, StartCondition, StopCondition, Acknowledge, NotAcknowledge,
         ArbitrationLost, MasterBusError, OtherStart, OtherStop, FrameStart, FrameByte,
         FrameStop, FrameBusError, OtherNotify
    <3>2. QED
      BY <3>1 DEF HwType
  <2>6. togo' \in Nat
    <3>0. togo \in Nat
      BY DEF HwType
    <3>1. togo' = togo \/ togo' = 0 \/ togo' \in FrameLens \/ (togo > 0 /\ togo' = togo - 1)
      BY <1>7 DEF Hardware, StartCondition, StopCondition, Acknowledge, NotAcknowledge,
         ArbitrationLost, MasterBusError, OtherStart, OtherStop, FrameStart, FrameByte,
         FrameStop, FrameBusError, OtherNotify
    <3>2. FrameLens \subseteq Nat
      BY DEF BusAssumption
    <3>3. CASE togo' \in FrameLens
      BY <3>2, <3>3
    <3>4. CASE togo > 0 /\ togo' = togo - 1
      BY <3>0, <3>4
    <3>5. QED
      BY <3>0, <3>1, <3>3, <3>4
  <2>7. errors' \in 0..MaxErrors
    <3>1. errors' = errors \/ (errors < MaxErrors /\ errors' = errors + 1)
      BY <1>7 DEF Hardware, StartCondition, StopCondition, Acknowledge, NotAcknowledge,
         ArbitrationLost, MasterBusError, OtherStart, OtherStop, FrameStart, FrameByte,
         FrameStop, FrameBusError, OtherNotify, Error
    <3>2. QED
      BY <3>1 DEF HwType
  <2>8. QED
    BY <2>1, <2>2, <2>3, <2>4, <2>5, <2>6, <2>7 DEF HwType
<1>8. CASE UNCHANGED vars
  BY <1>8 DEF vars, HwType
<1>9. QED
  BY <1>1, <1>2, <1>3, <1>4, <1>5, <1>6, <1>7, <1>8 DEF Next, Isr

-----------------------------------------------------------------------------
\* IInv is inductive.
LEMMA InitIInv == Init => IInv
<1> SUFFICES ASSUME Init PROVE IInv
  OBVIOUS
<1>1. TaskType /\ TxType
  <2>1. txQueue = <<>> /\ tx = FreeTx /\ sent = 0
    BY DEF Init
  <2>2. TxType
    BY <2>1, FreeTypes DEF TxType
  <2>3. QED
    BY <2>2 DEF Init, TaskType
<1>2. RxType
  <2>1. rxQueue = <<>> /\ rx = FreeRx /\ processed = 0 /\ halted = FALSE
    BY DEF Init
  <2>2. rxQueue \in Seq(Slot) /\ Len(rxQueue) <= RxSize
    BY <2>1, EmptySeq
  <2>3. processed \in 0..MaxFrames
    BY <2>1 DEF BoundAssumption
  <2>4. halted \in BOOLEAN
    BY <2>1, Zenon
  <2>5. QED
    BY <2>1, <2>2, <2>3, <2>4, FreeTypes DEF RxType
<1>3. HwType
  <2>1. /\ bus \in BusState
        /\ flags = {}
        /\ startReq \in BOOLEAN /\ stopReq \in BOOLEAN
    BY DEF Init, BusState
  <2>2. wire = <<>> /\ frame = 0 /\ togo = 0 /\ errors = 0
    BY DEF Init
  <2>3. wire \in Seq(0..MaxSend) /\ frame \in 0..MaxFrames /\ togo \in Nat
        /\ errors \in 0..MaxErrors
    BY <2>2
  <2>4. QED
    BY <2>1, <2>3 DEF HwType
<1>4. NoAbandonedMessage /\ BlockHoldsHead
  BY FreeTypes DEF Init, NoAbandonedMessage, BlockHoldsHead
<1>5. FlagInv /\ RingInv /\ SlotInv /\ FreshInv
  BY FreeTypes DEF Init, FlagInv, RingInv, SlotInv, FreshInv, AddrPending
<1>6. ReceivedWholeOnce /\ NoLostWakeup /\ BreakpointOnlyWhenFull
  BY DEF Init, ReceivedWholeOnce, NoLostWakeup, BreakpointOnlyWhenFull
<1>7. QED
  BY <1>1, <1>2, <1>3, <1>4, <1>5, <1>6, TypeParts DEF IInv

LEMMA NextIInv == IInv /\ [Next]_vars => IInv'
<1> SUFFICES ASSUME IInv, [Next]_vars PROVE IInv'
  OBVIOUS
<1>1. TypeOK /\ TxInv /\ FlagInv /\ WakeInv /\ ContentInv /\ RingInv
  BY DEF IInv, TxInv, WakeInv, ContentInv
<1>2. TaskType /\ TxType /\ RxType /\ HwType
  BY <1>1, TypeParts
<1>3. TxInv' /\ FlagInv' /\ WakeInv' /\ ContentInv'
  BY <1>1, TxStep, FlagStep, WakeStep, ContentStep
<1>4. TaskType' /\ TxType' /\ HwType'
  BY <1>2, TaskTypeStep, TxTypeStep, HwTypeStep
<1>5. RxType'
  BY <1>1, <1>2, <1>4, RxTypeStep DEF HwType
<1>6. TypeOK'
  BY <1>4, <1>5 DEF TypeOK, TaskType, TxType, RxType, HwType
<1>7. QED
  BY <1>3, <1>6 DEF IInv, TxInv, WakeInv, ContentInv

THEOREM Inductive == Spec => []IInv
<1>1. QED
  BY InitIInv, NextIInv, PTL DEF Spec

-----------------------------------------------------------------------------
\* The types of the driver's state, and that neither ring overflows although a
\* slot is allocated long before it is published.
THEOREM TypeCorrect == Spec => []TypeOK
<1>1. IInv => TypeOK
  BY DEF IInv
<1>2. QED
  BY <1>1, Inductive, PTL

\* No message waits in the transmit ring without the task or the control block
\* being responsible for it, however task and handlers interleave.
THEOREM NeverAbandoned == Spec => []NoAbandonedMessage
<1>1. IInv => NoAbandonedMessage
  BY DEF IInv
<1>2. QED
  BY <1>1, Inductive, PTL

\* The occupied control block points to the oldest message.
THEOREM HeadFirst == Spec => []BlockHoldsHead
<1>1. IInv => BlockHoldsHead
  BY DEF IInv
<1>2. QED
  BY <1>1, Inductive, PTL

\* Received messages are whole, are delivered once, and in order.
THEOREM WholeOnce == Spec => []ReceivedWholeOnce
<1>1. IInv => ReceivedWholeOnce
  BY DEF IInv
<1>2. QED
  BY <1>1, Inductive, PTL

\* The RoutingTask never sleeps on a received message.
THEOREM WakeupKept == Spec => []NoLostWakeup
<1>1. IInv => NoLostWakeup
  BY DEF IInv
<1>2. QED
  BY <1>1, Inductive, PTL

\* A bkpt is only executed when the receive ring is full.
THEOREM BreakpointCause == Spec => []BreakpointOnlyWhenFull
<1>1. IInv => BreakpointOnlyWhenFull
  BY DEF IInv
<1>2. QED
  BY <1>1, Inductive, PTL
-----------------------------------------------------------------------------
(***************************************************************************)
(* What is on the wire, as long as no other master has addressed us and no *)
(* error was reported: how far a frame of ours has come is told by the     *)
(* state of the bus, the flag that is up and the bytes counted in the      *)
(* control block.                                                          *)
(***************************************************************************)
Undisturbed == frame = 0 /\ errors = 0

\* The frame that is being sent holds the claimed message and nothing else.
FrameSoFar ==
  \/ bus = "addr" /\ "SB" \in flags
  \/ bus = "addr" /\ flags \subseteq {"ADDR"} /\ tx.bytes = 1 /\ wire = <<tx.mem>>
  \/ bus = "data" /\ flags = {"TxE"} /\ tx.bytes = 1 /\ wire = <<tx.mem>>
  \/ bus = "data" /\ flags = {"TxE"} /\ tx.bytes = 2 /\ wire = <<tx.mem, tx.mem>>
  \/ bus = "data" /\ flags \subseteq {"TxE"} /\ tx.bytes = 3 /\ wire = <<tx.mem, tx.mem, tx.mem>>

WireInv ==
  Undisturbed =>
    /\ flags \subseteq {"SB", "ADDR", "TxE"}
    /\ bus \in {"idle", "other", "addr", "data"}
    /\ ~Master => flags = {}
    /\ startReq \/ call = "start" => ~Master /\ tx.occ
    /\ startReq => call \in {"none", "claim"}
    /\ Master /\ ~stopReq => tx.occ /\ call \in {"none", "claim"} /\ FrameSoFar

LEMMA OneMoreByte ==
  ASSUME NEW S, NEW m \in S
  PROVE  Append(<<m>>, m) = <<m, m>> /\ Append(<<m, m>>, m) = <<m, m, m>>
<1>1. Append(<<m>>, m) = <<m, m>>
  <2> DEFINE t == Append(<<m>>, m)
  <2>1. <<m>> \in Seq(S) /\ <<m, m>> \in Seq(S)
    OBVIOUS
  <2>2. t \in Seq(S) /\ Len(t) = 2 /\ t[1] = m /\ t[2] = m
    BY <2>1
  <2> HIDE DEF t
  <2>3. t = [i \in 1..2 |-> t[i]]
    BY <2>2
  <2>4. <<m, m>> = [i \in 1..2 |-> <<m, m>>[i]] /\ \A i \in 1..2 : t[i] = <<m, m>>[i]
    BY <2>2
  <2> QED
    BY <2>3, <2>4 DEF t
<1>2. Append(<<m, m>>, m) = <<m, m, m>>
  <2> DEFINE t == Append(<<m, m>>, m)
  <2>1. <<m, m>> \in Seq(S) /\ <<m, m, m>> \in Seq(S)
    OBVIOUS
  <2>2. t \in Seq(S) /\ Len(t) = 3 /\ t[1] = m /\ t[2] = m /\ t[3] = m
    BY <2>1
  <2> HIDE DEF t
  <2>3. t = [i \in 1..3 |-> t[i]]
    BY <2>2
  <2>4. <<m, m, m>> = [i \in 1..3 |-> <<m, m, m>>[i]] /\ \A i \in 1..3 : t[i] = <<m, m, m>>[i]
    BY <2>2
  <2> QED
    BY <2>3, <2>4 DEF t
<1> QED
  BY <1>1, <1>2

LEMMA WireStep ==
  ASSUME TypeOK, BlockHoldsHead, FlagInv, WireInv, [Next]_vars
  PROVE  WireInv'
<1> SUFFICES ASSUME Undisturbed' PROVE WireInv'
  BY DEF WireInv
<1>1. Undisturbed
  <2>1. frame \in Nat /\ errors \in Nat
    BY DEF TypeOK
  <2>2. frame' \in {frame, frame + 1} /\ errors' \in {errors, errors + 1}
    BY DEF Next, Task, TaskWake, TaskForward, TaskCanDone, TaskPoll, TaskReply, TaskFree,
       TaskDone, StartTxClaim, StartTxClear, StartTxPeek, StartTxCheck, StartTxStart,
       Isr, EvStart, EvAddrMaster, EvAddrSlave, EvReceive, EvTransmit, EvTransmitted, EvStop,
       ErAckFailure, ErBusErrorMaster, ErBusErrorSlave,
       Hardware, StartCondition, StopCondition, Acknowledge, NotAcknowledge, Error,
       ArbitrationLost, MasterBusError, OtherStart, OtherStop, FrameStart,
       FrameByte, FrameStop, FrameBusError, OtherNotify, hwVars, vars
  <2> QED
    BY <2>1, <2>2 DEF Undisturbed
<1>2. /\ flags \subseteq {"SB", "ADDR", "TxE"}
      /\ bus \in {"idle", "other", "addr", "data"}
      /\ ~Master => flags = {}
      /\ startReq \/ call = "start" => ~Master /\ tx.occ
      /\ startReq => call \in {"none", "claim"}
      /\ Master /\ ~stopReq => tx.occ /\ call \in {"none", "claim"} /\ FrameSoFar
  BY <1>1 DEF WireInv
<1>3. /\ stopReq => Master /\ flags \cap {"SB", "ADDR", "TxE"} = {}
      /\ \A f, g \in {"SB", "ADDR", "TxE"} : f \in flags /\ g \in flags => f = g
      /\ "ADDR" \in flags => bus \in {"addr", "slave"}
      /\ \A f \in {"SB", "TxE"} : f \in flags => bus \in {"addr", "data"}
  BY DEF FlagInv
<1> USE DEF Master
<1>4. CASE UNCHANGED <<tx, call, hwVars>>
  BY <1>2, <1>4 DEF hwVars, WireInv, FrameSoFar
<1>5. CASE TaskForward \/ TaskReply
  <2>1. UNCHANGED <<tx, hwVars>> /\ call = "none" /\ call' \in {"none", "claim"}
    BY <1>5 DEF TaskForward, TaskReply, AtLoop, sendI2CMessage
  <2> QED
    BY <1>2, <2>1 DEF hwVars, WireInv, FrameSoFar
<1>6. CASE TaskWake \/ TaskCanDone \/ TaskPoll \/ TaskFree \/ TaskDone \/ UNCHANGED vars
  BY <1>4, <1>6 DEF TaskWake, TaskCanDone, TaskPoll, TaskFree, TaskDone, txVars, taskVars, vars
<1>7. CASE StartTxClaim
  <2>1. CASE tx.occ
    BY <1>2, <1>7, <2>1 DEF StartTxClaim, InStartTx, hwVars, WireInv, FrameSoFar
  <2>2. CASE ~tx.occ
    <3>1. ~startReq /\ (Master => stopReq) /\ call' = "clear"
      BY <1>2, <1>7, <2>2 DEF StartTxClaim
    <3> QED
      BY <1>2, <1>7, <3>1 DEF StartTxClaim, hwVars, WireInv
  <2> QED
    BY <2>1, <2>2
<1>8. CASE StartTxClear \/ StartTxPeek
  <2>1. ~startReq /\ (Master => stopReq) /\ call' \in {"peek", "check", "none"} /\ UNCHANGED hwVars
    BY <1>2, <1>8 DEF StartTxClear, StartTxPeek, InStartTx
  <2> QED
    BY <1>2, <2>1 DEF hwVars, WireInv
<1>9. CASE StartTxCheck \/ StartTxStart
  BY <1>2, <1>9 DEF StartTxCheck, StartTxStart, InStartTx, hwVars, txVars, WireInv, i2cBusy
<1>10. CASE EvStart
  <2>1. "SB" \in flags /\ ~stopReq /\ Master
    BY <1>3, <1>10 DEF EvStart, Ev, Serves
  <2>2. bus = "addr" /\ tx.occ /\ call \in {"none", "claim"}
    BY <1>2, <2>1 DEF FrameSoFar
  <2>3. /\ tx'.bytes = 1 /\ tx'.mem = tx.mem /\ tx'.occ = tx.occ
        /\ wire' = <<tx.mem>> /\ flags' = flags \ {"SB"} /\ UNCHANGED <<bus, call, startReq, stopReq>>
    BY <1>10 DEF EvStart, taskVars, TypeOK
  <2>4. flags' = {} /\ ~startReq /\ call # "start"
    BY <1>2, <1>3, <2>1, <2>3
  <2> QED
    BY <2>1, <2>2, <2>3, <2>4 DEF WireInv, FrameSoFar
<1>11. CASE EvAddrMaster
  <2>1. "ADDR" \in flags /\ ~stopReq /\ bus = "addr" /\ "SB" \notin flags /\ "TxE" \notin flags
    BY <1>2, <1>3, <1>11 DEF EvAddrMaster, Ev, Serves
  <2>2. tx.occ /\ call \in {"none", "claim"} /\ tx.bytes = 1 /\ wire = <<tx.mem>> /\ ~startReq
        /\ call # "start"
    BY <1>2, <2>1 DEF FrameSoFar
  <2>3. flags' = {"TxE"} /\ bus' = "data" /\ UNCHANGED <<tx, wire, call, startReq, stopReq>>
    BY <1>2, <1>11, <2>1 DEF EvAddrMaster, txVars, taskVars
  <2> QED
    BY <2>1, <2>2, <2>3 DEF WireInv, FrameSoFar
<1>12. ~EvAddrSlave /\ ~EvReceive /\ ~EvStop /\ ~ErAckFailure /\ ~ErBusErrorMaster /\ ~ErBusErrorSlave
  BY <1>2 DEF EvAddrSlave, EvReceive, EvStop, ErAckFailure, ErBusErrorMaster, ErBusErrorSlave,
     Ev, Er, Serves
<1>13. CASE EvTransmit
  <2>1. "TxE" \in flags /\ ~stopReq /\ "SB" \notin flags /\ "ADDR" \notin flags /\ Master
    BY <1>3, <1>13 DEF EvTransmit, Ev, Serves
  <2>2. tx.occ /\ call \in {"none", "claim"} /\ FrameSoFar /\ tx.bytes \in {1, 2} /\ ~startReq
    BY <1>2, <1>13, <2>1 DEF EvTransmit
  <2>3. /\ tx'.bytes = tx.bytes + 1 /\ tx'.mem = tx.mem /\ tx'.occ = tx.occ
        /\ wire' = Append(wire, tx.mem) /\ UNCHANGED <<bus, call, startReq, stopReq>>
        /\ flags' = IF tx.bytes = 1 THEN flags ELSE flags \ {"TxE"}
    BY <1>13 DEF EvTransmit, taskVars, TypeOK
  <2>4. \/ bus = "data" /\ flags = {"TxE"} /\ tx.bytes = 1 /\ wire = <<tx.mem>>
        \/ bus = "data" /\ flags = {"TxE"} /\ tx.bytes = 2 /\ wire = <<tx.mem, tx.mem>>
        \/ bus = "addr" /\ tx.bytes = 1 /\ wire = <<tx.mem>>
    BY <2>1, <2>2 DEF FrameSoFar
  <2>5. bus = "data"
    BY <2>1, <2>2 DEF FrameSoFar
  <2>6. \/ tx.bytes = 1 /\ wire' = <<tx.mem, tx.mem>>
        \/ tx.bytes = 2 /\ wire' = <<tx.mem, tx.mem, tx.mem>>
    <3>1. tx.mem \in 0..MaxSend
      BY DEF TypeOK
    <3>2. Append(<<tx.mem>>, tx.mem) = <<tx.mem, tx.mem>>
          /\ Append(<<tx.mem, tx.mem>>, tx.mem) = <<tx.mem, tx.mem, tx.mem>>
      BY <3>1, OneMoreByte
    <3> QED
      BY <2>3, <2>4, <2>5, <3>2
  <2> QED
    BY <2>1, <2>2, <2>3, <2>4, <2>5, <2>6 DEF WireInv, FrameSoFar
<1>14. CASE EvTransmitted
  <2>1. "TxE" \in flags /\ Master /\ flags' = {} /\ stopReq' /\ UNCHANGED <<bus, call, startReq>>
    BY <1>2, <1>3, <1>14 DEF EvTransmitted, finishTx, Ev, Serves, taskVars
  <2> QED
    BY <1>2, <2>1 DEF WireInv
<1>15. CASE StartCondition
  <2>1. ~Master /\ ~stopReq /\ tx.occ /\ call \in {"none", "claim"} /\ flags = {}
    BY <1>2, <1>3, <1>15 DEF StartCondition
  <2>2. bus' = "addr" /\ flags' = {"SB"} /\ ~startReq' /\ UNCHANGED <<tx, call, stopReq>>
    BY <1>15, <2>1 DEF StartCondition, SoftwareUnchanged, txVars, taskVars
  <2> QED
    BY <2>1, <2>2 DEF WireInv, FrameSoFar
<1>16. CASE StopCondition
  <2>1. flags = {} /\ bus' = "idle" /\ ~stopReq' /\ UNCHANGED <<tx, call, startReq, flags>>
    BY <1>2, <1>3, <1>16 DEF StopCondition, SoftwareUnchanged, txVars, taskVars
  <2> QED
    BY <1>2, <1>16, <2>1 DEF StopCondition, WireInv
<1>17. CASE Acknowledge
  <2>1. Master /\ ~stopReq /\ flags = {} /\ UNCHANGED <<tx, call, wire, bus, startReq, stopReq>>
    BY <1>2, <1>17 DEF Acknowledge, Shifting, SoftwareUnchanged, txVars, taskVars
  <2>2. flags' = {IF bus = "addr" THEN "ADDR" ELSE "TxE"}
    BY <1>17, <2>1 DEF Acknowledge
  <2> QED
    BY <1>2, <2>1, <2>2 DEF WireInv, FrameSoFar
<1>18. CASE OtherStart \/ OtherStop \/ OtherNotify
  BY <1>2, <1>18 DEF OtherStart, OtherStop, OtherNotify, SoftwareUnchanged, txVars, taskVars, hwVars,
     WireInv, FrameSoFar
<1>19. ~NotAcknowledge /\ ~ArbitrationLost /\ ~MasterBusError /\ ~FrameBusError
  <2>1. \A e : ~Error(e)
    BY <1>1 DEF Undisturbed, Error
  <2> QED
    BY <2>1 DEF NotAcknowledge, ArbitrationLost, MasterBusError, FrameBusError
<1>20. ~FrameStart /\ ~FrameByte /\ ~FrameStop
  BY <1>1, <1>2 DEF FrameStart, FrameByte, FrameStop, Undisturbed
<1> QED
  BY <1>5, <1>6, <1>7, <1>8, <1>9, <1>10, <1>11, <1>12, <1>13, <1>14, <1>15, <1>16, <1>17,
     <1>18, <1>19, <1>20 DEF Next, Task, Isr, Hardware

LEMMA WireInit == Init => WireInv
BY DEF Init, WireInv, Master

\* The ring shrinks in finishTx() only, which runs when all three bytes are written.
LEMMA SentStep ==
  ASSUME TypeOK, BlockHoldsHead, FlagInv, WireInv, [Next]_vars,
         Len(txQueue') < Len(txQueue), Undisturbed
  PROVE  wire = <<Head(txQueue), Head(txQueue), Head(txQueue)>>
<1>1. /\ flags \subseteq {"SB", "ADDR", "TxE"}
      /\ Master /\ ~stopReq => tx.occ /\ call \in {"none", "claim"} /\ FrameSoFar
      /\ txQueue \in Seq(Message)
  BY DEF WireInv, TypeOK
<1>2. EvTransmitted
  <2>1. txQueue' # txQueue
    OBVIOUS
  <2>2. ~sendI2CMessage
    <3>1. ASSUME sendI2CMessage PROVE FALSE
      <4>1. txQueue' = txQueue \/ txQueue' = Append(txQueue, sent + 1)
        BY <3>1 DEF sendI2CMessage
      <4>2. Len(txQueue) \in Nat /\ Len(Append(txQueue, sent + 1)) = Len(txQueue) + 1
        BY <1>1
      <4> QED
        BY <4>1, <4>2
    <3> QED
      BY <3>1
  <2>3. ~ErAckFailure
    BY <1>1 DEF ErAckFailure, Er, Serves
  <2> QED
    BY <2>1, <2>2, <2>3 DEF Next, Task, TaskWake, TaskForward, TaskCanDone, TaskPoll, TaskReply,
       TaskFree, TaskDone, StartTxClaim, StartTxClear, StartTxPeek, StartTxCheck, StartTxStart,
       Isr, EvStart, EvAddrMaster, EvAddrSlave, EvReceive, EvTransmit, EvStop,
       ErBusErrorMaster, ErBusErrorSlave,
       Hardware, StartCondition, StopCondition, Acknowledge, NotAcknowledge,
       ArbitrationLost, MasterBusError, OtherStart, OtherStop, FrameStart,
       FrameByte, FrameStop, FrameBusError, OtherNotify, SoftwareUnchanged, txVars, vars
<1>3. "TxE" \in flags /\ tx.bytes \notin {1, 2}
  BY <1>2 DEF EvTransmitted, Ev, Serves
<1>4. Master /\ ~stopReq /\ "SB" \notin flags
  BY <1>3 DEF FlagInv, Master
<1>5. tx.occ /\ call \in {"none", "claim"} /\ wire = <<tx.mem, tx.mem, tx.mem>>
  BY <1>1, <1>3, <1>4 DEF FrameSoFar
<1>6. tx.mem = Head(txQueue)
  BY <1>5 DEF BlockHoldsHead
<1> QED
  BY <1>5, <1>6

\* A message leaves the transmit ring only when all three bytes of exactly this message
\* were sent in one frame, as long as no other master has addressed us and no error was
\* reported; for every size of the ring and however the task and the handlers interleave.
THEOREM SentWhole == Spec => ConsumedWasSent
<1>1. IInv /\ WireInv /\ [Next]_vars => WireInv'
  BY WireStep DEF IInv
<1>2. IInv /\ WireInv /\ [Next]_vars =>
        [Len(txQueue') < Len(txQueue) /\ frame = 0 /\ errors = 0 =>
           wire = <<Head(txQueue), Head(txQueue), Head(txQueue)>>]_vars
  BY SentStep DEF IInv, Undisturbed
<1> QED
  BY WireInit, <1>1, <1>2, Inductive, PTL DEF Spec, ConsumedWasSent
=============================================================================
