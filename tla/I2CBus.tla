------------------------------- MODULE I2CBus -------------------------------
(***************************************************************************)
(* The I2C driver of hal/stm32I2C.cpp: the transmit and receive control    *)
(* blocks, the two message rings, the event and error interrupt handlers,  *)
(* and the RoutingTask that fills the one ring and drains the other.       *)
(*                                                                         *)
(* Three parties interleave:                                               *)
(*   - the RoutingTask, one action per access to state the handlers share; *)
(*   - the two interrupt handlers.  They have the same priority, so one    *)
(*     run of a handler is one action, and no task step is taken while an  *)
(*     interrupt flag is up;                                               *)
(*   - the I2C peripheral and the other masters of the bus.                *)
(*                                                                         *)
(* A message sent is its number, a frame received is its number: a byte is *)
(* abstracted to the message or frame it belongs to.                       *)
(***************************************************************************)
EXTENDS Integers, Sequences

CONSTANTS
  TxSize,    \* messages the transmit ring holds
  RxSize,    \* messages the receive ring holds
  MaxSend,   \* bound: calls of sendI2CMessage
  MaxFrames, \* bound: frames other masters address to us
  MaxErrors, \* bound: error conditions raised by the bus
  FrameLens, \* data bytes a frame addressed to us may have
  Errors     \* the error conditions of the bus: a subset of AF, ARLO, BERR

ASSUME SizeAssumption ==
  /\ TxSize \in Nat \ {0}
  /\ RxSize \in Nat \ {0}
ASSUME BoundAssumption ==
  /\ MaxSend \in Nat
  /\ MaxFrames \in Nat
  /\ MaxErrors \in Nat
ASSUME BusAssumption ==
  /\ FrameLens \subseteq Nat
  /\ Errors \subseteq {"AF", "ARLO", "BERR"}

VARIABLES
  \* ---- RoutingTask
  pc,        \* where the task is in its loop
  call,      \* where it is inside startTx()
  notified,  \* its task notification value
  \* ---- transmission
  txQueue,   \* i2cTxQueue
  tx,        \* txControl
  sent,      \* calls of sendI2CMessage so far: the number of the last message
  \* ---- reception
  rxQueue,   \* i2cRxQueue
  rx,        \* rxControl
  processed, \* number of the last frame the task took out of the ring
  halted,    \* a bkpt instruction was executed
  \* ---- peripheral and bus
  bus,       \* who uses the bus: see BusState
  flags,     \* interrupt flags of SR1 that are up
  startReq,  \* CR1.START
  stopReq,   \* CR1.STOP
  wire,      \* messages the bytes of the current outgoing frame come from
  frame,     \* number of the last frame addressed to us
  togo,      \* data bytes that frame still has to deliver
  errors     \* error conditions raised so far

taskVars == <<pc, call, notified>>
txVars   == <<txQueue, tx, sent>>
rxVars   == <<rxQueue, rx, processed, halted>>
hwVars   == <<bus, flags, startReq, stopReq, wire, frame, togo, errors>>
vars     == <<taskVars, txVars, rxVars, hwVars>>

(***************************************************************************)
(* Control blocks.  mem is the ring slot the block points to; 0 stands for *)
(* the null pointer of an empty MemoryRange.                               *)
(***************************************************************************)
None == 0
FreeTx == [occ |-> FALSE, mem |-> None, bytes |-> 0]

\* A received message under construction: the frames its bytes come from.
NoSlot == [src |-> None, data |-> None]
FreeRx == [occ |-> FALSE, mem |-> None, bytes |-> 0, slot |-> NoSlot]

(***************************************************************************)
(* The bus.  "other": another master talks to a third party; "slave":      *)
(* another master talks to us; "addr", "data": we are the master and the   *)
(* address, or a data byte, is on the wire; "nack": it was refused.        *)
(***************************************************************************)
BusState == {"idle", "other", "slave", "addr", "data", "nack"}
Master   == bus \in {"addr", "data", "nack"}
i2cBusy  == bus # "idle"

EvFlags == <<"SB", "ADDR", "RxNE", "TxE", "STOPF">>
ErFlags == <<"AF", "ARLO", "BERR">>

\* The handler tests the flags in a fixed order and serves the first that is up.
Serves(order, f) ==
  \E i \in DOMAIN order :
    /\ order[i] = f
    /\ f \in flags
    /\ \A j \in 1..(i - 1) : order[j] \notin flags

-----------------------------------------------------------------------------
(***************************************************************************)
(* RoutingTask.                                                            *)
(***************************************************************************)
TaskRuns == flags = {} /\ ~halted

\* Every step of the loop that is not inside startTx().
AtLoop(at) == TaskRuns /\ call = "none" /\ pc = at

\* waitForNotify(): take the notification and clear it.
TaskWake ==
  /\ AtLoop("blocked")
  /\ notified
  /\ notified' = FALSE
  /\ pc' = "can"
  /\ UNCHANGED <<call, txVars, rxVars, hwVars>>

\* sendI2CMessage() up to its call of startTx(): a full ring drops the message.
sendI2CMessage ==
  /\ sent < MaxSend
  /\ sent' = sent + 1
  /\ txQueue' = IF Len(txQueue) < TxSize THEN Append(txQueue, sent + 1)
                                         ELSE txQueue
  /\ call' = "claim"

\* A CAN frame or a LocoNet packet is forwarded to I2C.
TaskForward ==
  /\ AtLoop("can") \/ AtLoop("ln")
  /\ sendI2CMessage
  /\ UNCHANGED <<pc, notified, tx, rxVars, hwVars>>

TaskCanDone ==
  /\ AtLoop("can")
  /\ pc' = "i2c"
  /\ UNCHANGED <<call, notified, txVars, rxVars, hwVars>>

\* getI2CMessage() in the loop of processI2CMessages().
TaskPoll ==
  /\ AtLoop("i2c")
  /\ pc' = IF rxQueue = <<>> THEN "ln" ELSE "reply"
  /\ UNCHANGED <<call, notified, txVars, rxVars, hwVars>>

\* sendI2CResponseIfEnabled(): with and without the response.
TaskReply ==
  /\ AtLoop("reply")
  /\ pc' = "free"
  /\ \/ sendI2CMessage
     \/ UNCHANGED <<txQueue, sent, call>>
  /\ UNCHANGED <<notified, tx, rxVars, hwVars>>

\* Mutant: processI2CMessages() handles one message per notification.
TaskFreeOnce ==
  /\ AtLoop("free")
  /\ processed' = Head(rxQueue).data
  /\ rxQueue' = Tail(rxQueue)
  /\ pc' = "ln"
  /\ UNCHANGED <<call, notified, txVars, rx, halted, hwVars>>

\* messagePtr.reset(): the slot goes back to the ring.
TaskFree ==
  /\ AtLoop("free")
  /\ processed' = Head(rxQueue).data
  /\ rxQueue' = Tail(rxQueue)
  /\ pc' = "i2c"
  /\ UNCHANGED <<call, notified, txVars, rx, halted, hwVars>>

\* Mutant: the notification is cleared when the loop is left.
TaskDoneClears ==
  /\ AtLoop("ln")
  /\ pc' = "blocked"
  /\ notified' = FALSE
  /\ UNCHANGED <<call, txVars, rxVars, hwVars>>

TaskDone ==
  /\ AtLoop("ln")
  /\ pc' = "blocked"
  /\ UNCHANGED <<call, notified, txVars, rxVars, hwVars>>

(***************************************************************************)
(* startTx() as the task runs it, one action per access to shared state.   *)
(***************************************************************************)
InStartTx(at) == TaskRuns /\ call = at

\* Mutant: tryClaim() stores without comparing.
StartTxClaimAlways ==
  /\ InStartTx("claim")
  /\ call' = "clear"
  /\ tx' = [tx EXCEPT !.occ = TRUE]
  /\ UNCHANGED <<pc, notified, txQueue, sent, rxVars, hwVars>>

\* The compare-exchange of tryClaim().
StartTxClaim ==
  /\ InStartTx("claim")
  /\ IF tx.occ THEN call' = "none" /\ UNCHANGED tx
               ELSE call' = "clear" /\ tx' = [tx EXCEPT !.occ = TRUE]
  /\ UNCHANGED <<pc, notified, txQueue, sent, rxVars, hwVars>>

\* The two assignments tryClaim() makes after a successful exchange.
StartTxClear ==
  /\ InStartTx("clear")
  /\ call' = "peek"
  /\ tx' = [tx EXCEPT !.mem = None, !.bytes = 0]
  /\ UNCHANGED <<pc, notified, txQueue, sent, rxVars, hwVars>>

\* peek(), and release() when there is nothing to send.
StartTxPeek ==
  /\ InStartTx("peek")
  /\ IF txQueue = <<>>
     THEN call' = "none" /\ tx' = FreeTx
     ELSE call' = "check" /\ tx' = [tx EXCEPT !.mem = Head(txQueue)]
  /\ UNCHANGED <<pc, notified, txQueue, sent, rxVars, hwVars>>

\* The condition of resumeTx().
StartTxCheck ==
  /\ InStartTx("check")
  /\ call' = IF tx.occ /\ ~i2cBusy THEN "start" ELSE "none"
  /\ UNCHANGED <<pc, notified, txVars, rxVars, hwVars>>

\* i2c_send_start().
StartTxStart ==
  /\ InStartTx("start")
  /\ call' = "none"
  /\ startReq' = TRUE
  /\ UNCHANGED <<pc, notified, txVars, rxVars,
                 bus, flags, stopReq, wire, frame, togo, errors>>

Task ==
  \/ TaskWake \/ TaskForward \/ TaskCanDone \/ TaskPoll \/ TaskReply
  \/ TaskFree \/ TaskDone
  \/ StartTxClaim \/ StartTxClear \/ StartTxPeek \/ StartTxCheck \/ StartTxStart

-----------------------------------------------------------------------------
(***************************************************************************)
(* What the handlers call.  Each runs to its end inside one handler.       *)
(***************************************************************************)
\* startTx() on a free block: claim, peek, and keep the block or release it.
Claimed(queue) ==
  IF queue = <<>> THEN FreeTx
                  ELSE [occ |-> TRUE, mem |-> Head(queue), bytes |-> 0]

\* AtomicRingBuffer consume(): only the range at the head can be consumed.
Consume(queue, mem) ==
  IF queue # <<>> /\ mem = Head(queue) THEN Tail(queue) ELSE queue

\* Mutant: finishTx() does not look for the next message.
finishTxNoStart ==
  /\ txQueue' = Consume(txQueue, tx.mem)
  /\ tx' = FreeTx
  /\ stopReq' = TRUE

\* Mutant: finishTx() peeks the next message before it consumes this one.
finishTxPeekFirst ==
  /\ txQueue' = Consume(txQueue, tx.mem)
  /\ tx' = Claimed(txQueue)
  /\ stopReq' = TRUE

\* Mutant: finishTx() does not consume the message.
finishTxNoConsume ==
  /\ tx' = Claimed(txQueue)
  /\ stopReq' = TRUE
  /\ UNCHANGED txQueue

\* finishTx(): the bus is still ours when startTx() looks at it, because the
\* STOP condition follows the byte on the wire, so no START is requested.
finishTx ==
  /\ txQueue' = Consume(txQueue, tx.mem)
  /\ tx' = Claimed(Consume(txQueue, tx.mem))
  /\ stopReq' = TRUE

\* startTxFromISR(): claim a free block, then resumeTx() in both cases.
startTxFromISR ==
  LET block == IF tx.occ THEN tx ELSE Claimed(txQueue)
  IN  /\ tx' = block
      /\ startReq' = (startReq \/ (block.occ /\ ~i2cBusy))

\* Mutant: forwardRx() clears the memory range but keeps the block claimed.
forwardRxKeepsBlock ==
  IF rx.occ /\ rx.bytes = 3
  THEN /\ rxQueue' = IF rx.mem # None THEN Append(rxQueue, rx.slot) ELSE rxQueue
       /\ halted' = (rx.mem = None)
       /\ rx' = [rx EXCEPT !.mem = None]
       /\ startTxFromISR
       /\ notified' = TRUE
  ELSE UNCHANGED <<rxQueue, halted, rx, tx, startReq, notified>>

\* Mutant: forwardRx() publishes and does not release.
forwardRxNoRelease ==
  IF rx.occ /\ rx.bytes = 3
  THEN /\ rxQueue' = IF rx.mem # None THEN Append(rxQueue, rx.slot) ELSE rxQueue
       /\ halted' = (rx.mem = None)
       /\ startTxFromISR
       /\ notified' = TRUE
       /\ UNCHANGED rx
  ELSE UNCHANGED <<rxQueue, halted, rx, tx, startReq, notified>>

\* forwardRx(): publish a complete message, release the block, look for
\* something to send, wake the task.  Anything else is left for the next frame.
forwardRx ==
  IF rx.occ /\ rx.bytes = 3
  THEN /\ rxQueue' = IF rx.mem # None THEN Append(rxQueue, rx.slot) ELSE rxQueue
       /\ halted' = (rx.mem = None)
       /\ rx' = FreeRx
       /\ startTxFromISR
       /\ notified' = TRUE
  ELSE UNCHANGED <<rxQueue, halted, rx, tx, startReq, notified>>

-----------------------------------------------------------------------------
(***************************************************************************)
(* i2c1_ev_isr().                                                          *)
(***************************************************************************)
Ev(f) == ~halted /\ Serves(EvFlags, f)

\* SB: send the address taken from the message.
EvStart ==
  /\ Ev("SB")
  /\ tx' = [tx EXCEPT !.bytes = 1]
  /\ wire' = <<tx.mem>>
  /\ flags' = flags \ {"SB"}
  /\ UNCHANGED <<taskVars, txQueue, sent, rxVars,
                 bus, startReq, stopReq, frame, togo, errors>>

\* ADDR as master: reading SR2 clears the flag; the data register is empty.
EvAddrMaster ==
  /\ Ev("ADDR")
  /\ Master
  /\ bus' = "data"
  /\ flags' = (flags \ {"ADDR"}) \cup {"TxE"}
  /\ UNCHANGED <<taskVars, txVars, rxVars, startReq, stopReq, wire, frame, togo, errors>>

\* Mutant: the result of allocate() is not tested.
EvAddrSlaveUnchecked ==
  /\ Ev("ADDR")
  /\ ~Master
  /\ rx' = [rx EXCEPT !.occ = TRUE, !.mem = 1, !.bytes = 1]
  /\ halted' = FALSE
  /\ flags' = flags \ {"ADDR"}
  /\ UNCHANGED <<taskVars, txVars, rxQueue, processed,
                 bus, startReq, stopReq, wire, frame, togo, errors>>

\* ADDR as slave: claim the block and a slot; a full ring ends in a bkpt.
EvAddrSlave ==
  /\ Ev("ADDR")
  /\ ~Master
  /\ LET room == Len(rxQueue) < RxSize
         mem  == IF rx.occ THEN rx.mem ELSE IF room THEN 1 ELSE None
     IN  /\ rx' = [rx EXCEPT !.occ = TRUE, !.mem = mem, !.bytes = 1]
         /\ halted' = (mem = None)
  /\ flags' = flags \ {"ADDR"}
  /\ UNCHANGED <<taskVars, txVars, rxQueue, processed,
                 bus, startReq, stopReq, wire, frame, togo, errors>>

\* RxNE: store the byte.  A byte that is not stored is not read either, and
\* the flag stays up: then this action is disabled and so is the task.
EvReceive ==
  /\ Ev("RxNE")
  /\ rx.occ /\ rx.mem # None /\ rx.bytes < 3
  /\ rx' = [rx EXCEPT !.bytes = @ + 1,
                      !.slot.src = IF rx.bytes = 1 THEN frame ELSE @,
                      !.slot.data = IF rx.bytes = 2 THEN frame ELSE @]
  /\ flags' = flags \ {"RxNE"}
  /\ UNCHANGED <<taskVars, txVars, rxQueue, processed, halted,
                 bus, startReq, stopReq, wire, frame, togo, errors>>

\* TxE, first and second data byte.  The first one moves to the idle shift
\* register at once, so that the flag stays up; the second one stays in the
\* data register until the first is acknowledged.
EvTransmit ==
  /\ Ev("TxE")
  /\ tx.bytes \in {1, 2}
  /\ tx' = [tx EXCEPT !.bytes = @ + 1]
  /\ wire' = Append(wire, tx.mem)
  /\ flags' = IF tx.bytes = 1 THEN flags ELSE flags \ {"TxE"}
  /\ UNCHANGED <<taskVars, txQueue, sent, rxVars,
                 bus, startReq, stopReq, frame, togo, errors>>

\* TxE after the last byte was written: it is on the wire now, not yet
\* acknowledged (the handler excludes BTF, the end of the transfer).
EvTransmitted ==
  /\ Ev("TxE")
  /\ tx.bytes \notin {1, 2}
  /\ finishTx
  /\ flags' = flags \ {"TxE"}
  /\ UNCHANGED <<taskVars, sent, rxVars, bus, startReq, wire, frame, togo, errors>>

EvStop ==
  /\ Ev("STOPF")
  /\ forwardRx
  /\ flags' = flags \ {"STOPF"}
  /\ UNCHANGED <<pc, call, txQueue, sent, processed,
                 bus, stopReq, wire, frame, togo, errors>>

(***************************************************************************)
(* i2c1_er_isr().  The branch of ARLO changes nothing, and does not clear  *)
(* the flag: it is the absence of an action.                               *)
(***************************************************************************)
Er(f) == ~halted /\ Serves(ErFlags, f)

ErAckFailure ==
  /\ Er("AF")
  /\ finishTx
  /\ flags' = flags \ {"AF"}
  /\ UNCHANGED <<taskVars, sent, rxVars, bus, startReq, wire, frame, togo, errors>>

\* BERR as master: resumeTxForce().
ErBusErrorMaster ==
  /\ Er("BERR")
  /\ Master
  /\ startReq' = (startReq \/ tx.occ)
  /\ flags' = flags \ {"BERR"}
  /\ UNCHANGED <<taskVars, txVars, rxVars, bus, stopReq, wire, frame, togo, errors>>

ErBusErrorSlave ==
  /\ Er("BERR")
  /\ ~Master
  /\ forwardRx
  /\ flags' = flags \ {"BERR"}
  /\ UNCHANGED <<pc, call, txQueue, sent, processed,
                 bus, stopReq, wire, frame, togo, errors>>

Isr ==
  \/ EvStart \/ EvAddrMaster \/ EvAddrSlave \/ EvReceive
  \/ EvTransmit \/ EvTransmitted \/ EvStop
  \/ ErAckFailure \/ ErBusErrorMaster \/ ErBusErrorSlave

-----------------------------------------------------------------------------
(***************************************************************************)
(* The peripheral and the bus.                                             *)
(***************************************************************************)
SoftwareUnchanged == UNCHANGED <<taskVars, txVars, rxVars>>

\* Our byte is on the wire and nothing is asked of the software.
Shifting == bus \in {"addr", "data"} /\ flags \cap {"SB", "ADDR", "TxE"} = {}

\* START on a free bus, or a repeated START between two bytes of ours.
StartCondition ==
  /\ startReq
  /\ bus = "idle" \/ (Shifting /\ ~stopReq)
  /\ startReq' = FALSE
  /\ bus' = "addr"
  /\ flags' = flags \cup {"SB"}
  /\ wire' = <<>>
  /\ SoftwareUnchanged
  /\ UNCHANGED <<stopReq, frame, togo, errors>>

StopCondition ==
  /\ stopReq
  /\ Master
  /\ "AF" \notin flags
  /\ stopReq' = FALSE
  /\ bus' = "idle"
  /\ SoftwareUnchanged
  /\ UNCHANGED <<flags, startReq, wire, frame, togo, errors>>

\* The addressed device acknowledges the address or a data byte.
Acknowledge ==
  /\ Shifting
  /\ ~stopReq
  /\ flags' = flags \cup {IF bus = "addr" THEN "ADDR" ELSE "TxE"}
  /\ SoftwareUnchanged
  /\ UNCHANGED <<bus, startReq, stopReq, wire, frame, togo, errors>>

Error(e) ==
  /\ e \in Errors
  /\ errors < MaxErrors
  /\ errors' = errors + 1

\* It refuses one, possibly the last, for which the STOP is already requested.
NotAcknowledge ==
  /\ Shifting
  /\ Error("AF")
  /\ bus' = "nack"
  /\ flags' = flags \cup {"AF"}
  /\ SoftwareUnchanged
  /\ UNCHANGED <<startReq, stopReq, wire, frame, togo>>

\* The handlers are never late by the time of a whole byte: what the previous
\* frame left to be served is served before the next address has passed.
Prompt == flags \cap {"ADDR", "RxNE", "STOPF", "BERR"} = {}

\* Another master wins the bus, to talk to a third party or to us.
ArbitrationLost ==
  /\ Shifting
  /\ ~stopReq
  /\ Prompt
  /\ Error("ARLO")
  /\ \/ /\ bus' = "other"
        /\ flags' = flags \cup {"ARLO"}
        /\ UNCHANGED <<frame, togo>>
     \/ /\ frame < MaxFrames
        /\ bus' = "slave"
        /\ flags' = flags \cup {"ARLO", "ADDR"}
        /\ frame' = frame + 1
        /\ togo' \in FrameLens
  /\ SoftwareUnchanged
  /\ UNCHANGED <<startReq, stopReq, wire>>

\* A misplaced START or STOP while we send.
MasterBusError ==
  /\ Master
  /\ Error("BERR")
  /\ flags' = flags \cup {"BERR"}
  /\ SoftwareUnchanged
  /\ UNCHANGED <<bus, startReq, stopReq, wire, frame, togo>>

OtherStart ==
  /\ bus = "idle"
  /\ bus' = "other"
  /\ SoftwareUnchanged
  /\ UNCHANGED <<flags, startReq, stopReq, wire, frame, togo, errors>>

OtherStop ==
  /\ bus = "other"
  /\ bus' = "idle"
  /\ SoftwareUnchanged
  /\ UNCHANGED <<flags, startReq, stopReq, wire, frame, togo, errors>>

\* A frame for us.
FrameStart ==
  /\ bus = "idle"
  /\ Prompt
  /\ frame < MaxFrames
  /\ frame' = frame + 1
  /\ togo' \in FrameLens
  /\ bus' = "slave"
  /\ flags' = flags \cup {"ADDR"}
  /\ SoftwareUnchanged
  /\ UNCHANGED <<startReq, stopReq, wire, errors>>

FrameByte ==
  /\ bus = "slave"
  /\ Prompt
  /\ togo > 0
  /\ togo' = togo - 1
  /\ flags' = flags \cup {"RxNE"}
  /\ SoftwareUnchanged
  /\ UNCHANGED <<bus, startReq, stopReq, wire, frame, errors>>

\* The STOP condition may find the last byte still unread.
FrameStop ==
  /\ bus = "slave"
  /\ togo = 0
  /\ "ADDR" \notin flags
  /\ bus' = "idle"
  /\ flags' = flags \cup {"STOPF"}
  /\ SoftwareUnchanged
  /\ UNCHANGED <<startReq, stopReq, wire, frame, togo, errors>>

\* A bus error ends the frame; its STOP condition may still be seen.
FrameBusError ==
  /\ bus = "slave"
  /\ Prompt
  /\ Error("BERR")
  /\ flags' = flags \cup {"BERR"}
  /\ bus' \in {"slave", "idle", "other"}
  /\ togo' = 0
  /\ SoftwareUnchanged
  /\ UNCHANGED <<startReq, stopReq, wire, frame>>

\* A CAN frame or LocoNet bytes arrive: their handlers wake the same task.
OtherNotify ==
  /\ ~halted
  /\ ~notified
  /\ notified' = TRUE
  /\ UNCHANGED <<pc, call, txVars, rxVars, hwVars>>

Hardware ==
  \/ StartCondition \/ StopCondition \/ Acknowledge \/ NotAcknowledge
  \/ ArbitrationLost \/ MasterBusError \/ OtherStart \/ OtherStop
  \/ FrameStart \/ FrameByte \/ FrameStop \/ FrameBusError
  \/ OtherNotify

-----------------------------------------------------------------------------
Init ==
  /\ pc = "blocked"
  /\ call = "none"
  /\ notified = FALSE
  /\ txQueue = <<>>
  /\ tx = FreeTx
  /\ sent = 0
  /\ rxQueue = <<>>
  /\ rx = FreeRx
  /\ processed = 0
  /\ halted = FALSE
  /\ bus = "idle"
  /\ flags = {}
  /\ startReq = FALSE
  /\ stopReq = FALSE
  /\ wire = <<>>
  /\ frame = 0
  /\ togo = 0
  /\ errors = 0

Next == Task \/ Isr \/ Hardware

Spec == Init /\ [][Next]_vars

(***************************************************************************)
(* Fairness.  The RoutingTask has the highest priority and runs when it    *)
(* can; a pending interrupt is served; a master finishes the frame it is   *)
(* sending; arbitration is fair to a START that waits for the bus.  No     *)
(* other master is obliged to start a frame, and no error to happen.       *)
(***************************************************************************)
Fairness ==
  /\ WF_vars(Task)
  /\ WF_vars(Isr)
  /\ SF_vars(StartCondition)
  /\ WF_vars(StopCondition)
  /\ WF_vars(Acknowledge \/ NotAcknowledge)
  /\ WF_vars(OtherStop)
  /\ WF_vars(FrameByte \/ FrameStop)

FairSpec == Spec /\ Fairness

-----------------------------------------------------------------------------
(***************************************************************************)
(* Properties.                                                             *)
(***************************************************************************)
Message == 1..MaxSend
Frame   == 1..MaxFrames
Slot    == [src : 0..MaxFrames, data : 0..MaxFrames]

\* The types of the state, and the limits of the two rings: no handler
\* publishes into a full ring (allocate and publish are far apart in both).
TypeOK ==
  /\ pc \in {"blocked", "can", "i2c", "reply", "free", "ln"}
  /\ call \in {"none", "claim", "clear", "peek", "check", "start"}
  /\ notified \in BOOLEAN
  /\ txQueue \in Seq(Message) /\ Len(txQueue) <= TxSize
  /\ tx \in [occ : BOOLEAN, mem : 0..MaxSend, bytes : 0..3]
  /\ sent \in 0..MaxSend
  /\ rxQueue \in Seq(Slot) /\ Len(rxQueue) <= RxSize
  /\ rx \in [occ : BOOLEAN, mem : {0, 1}, bytes : 0..3, slot : Slot]
  /\ processed \in 0..MaxFrames
  /\ halted \in BOOLEAN
  /\ bus \in BusState
  /\ flags \subseteq {"SB", "ADDR", "RxNE", "TxE", "STOPF", "AF", "ARLO", "BERR"}
  /\ startReq \in BOOLEAN
  /\ stopReq \in BOOLEAN
  /\ wire \in Seq(0..MaxSend)
  /\ frame \in 0..MaxFrames
  /\ togo \in Nat
  /\ errors \in 0..MaxErrors

\* A message in the transmit ring always has somebody responsible for it: the
\* task on its way into startTx(), or the occupied control block.  Otherwise
\* it would wait in the ring for the next sendI2CMessage() (finishTx/startTx).
NoAbandonedMessage ==
  txQueue # <<>> /\ call # "claim" => tx.occ

\* Outside the task's claim, an occupied block points to the oldest message of
\* the ring: none is skipped and none is sent again after it was consumed,
\* although both the task and the handlers claim, peek and release.
BlockHoldsHead ==
  call \notin {"clear", "peek"} /\ tx.occ =>
    /\ txQueue # <<>>
    /\ tx.mem = Head(txQueue)

\* Every received message is made of the bytes of one frame, no frame is
\* delivered twice (a bus error and a STOP may both end it), and messages
\* reach the task in the order of their frames.
ReceivedWholeOnce ==
  /\ \A i \in DOMAIN rxQueue :
       /\ rxQueue[i].src = rxQueue[i].data
       /\ rxQueue[i].data > processed
  /\ \A i, j \in DOMAIN rxQueue : i < j => rxQueue[i].data < rxQueue[j].data

\* The task is never left waiting for a notification with a message in the
\* ring, although one binary notification stands for any number of events.
NoLostWakeup ==
  rxQueue # <<>> /\ pc \in {"blocked", "ln"} => notified

\* The bkpt of forwardRx() (a complete message without storage) is never
\* reached; the one of the ADDR branch only with a full receive ring.
BreakpointOnlyWhenFull ==
  halted => Len(rxQueue) = RxSize

\* As long as no other master has addressed us and the bus has reported no
\* error, a message leaves the transmit ring only when all three bytes of
\* exactly this message were sent in one frame, although finishTx() runs while
\* the last byte and the STOP are still on the wire.  (After a frame of another
\* master this does not hold: the STOPF handler may start a block that the task
\* has claimed and not filled yet.)
ConsumedWasSent ==
  [][Len(txQueue') < Len(txQueue) /\ frame = 0 /\ errors = 0 =>
       wire = <<Head(txQueue), Head(txQueue), Head(txQueue)>>]_vars

\* What the task was woken for it also handles: a received message is taken
\* out of the ring.
ReceivedIsProcessed ==
  rxQueue # <<>> ~> rxQueue = <<>>

\* Once a START is requested for a claimed message, the message is sent or
\* refused, whatever else is on the bus.
ResumedIsSent ==
  \A m \in Message :
    (startReq /\ call = "none" /\ tx.occ /\ tx.mem = m) ~>
      (\A i \in DOMAIN txQueue : txQueue[i] # m)

\* The promise of the design document: once a transmission of ours completes,
\* the next one, already claimed by finishTx(), is started automatically.
NextIsStarted ==
  \A m \in Message :
    (stopReq /\ tx.mem = m) ~> (\A i \in DOMAIN txQueue : txQueue[i] # m)
=============================================================================
