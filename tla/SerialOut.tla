------------------------------ MODULE SerialOut ------------------------------
(***************************************************************************)
(* The serial output: two tasks write text into a ring under a mutex, and  *)
(* whoever finds the DMA idle sends what the ring holds, the handler of    *)
(* the end of a transfer among them.                                       *)
(*                                                                         *)
(* A text is a sequence of characters, TRUE where it has a newline, which  *)
(* is written as two bytes.  A byte is named by its writer and its place   *)
(* in all that this writer writes.  The ring (AtomicRingBuffer) hands out  *)
(* contiguous ranges only: head counts the bytes published, tail the bytes *)
(* consumed.  The mutex and the switches between the tasks are those of    *)
(* the kernel; the interrupts may come between any two steps.              *)
(***************************************************************************)
EXTENDS Mutex

CONSTANTS
  Text,      \* the text that a task writes
  Writes,    \* bound: how often it does
  MaxFrames, \* bound: how often a bus notifies the RoutingTask
  Sizes      \* the sizes of the ring to look at

Routing == "RoutingTask"
Console == "ConsoleTask"
serialWriteMutex_ == "serialWriteMutex_"

ASSUME SerialAssumption ==
  /\ Task = {Routing, Console} /\ Object = {serialWriteMutex_}
  /\ BasePriority[Routing] > BasePriority[Console]
  /\ \A t \in Task : Text[t] \in Seq(BOOLEAN) /\ Text[t] # <<>> /\ Writes[t] \in Nat
  /\ MaxFrames \in Nat
  /\ Sizes \subseteq Nat \ {0}

VARIABLES
  k, mutex,         \* the kernel, serialWriteMutex_
  mem, head, tail,  \* serialBuffer_
  size,             \* bufferSize_
  busy,             \* serialDmaBusy_
  serialDmaMemory_, \* the range of the transfer: its first byte and its length
  dma,              \* channel enabled, requests of the USART enabled, the next
                    \* byte, how many are left, the flag of the end
  writer,           \* of each task: where it is, and its local variables
  frames,           \* the frames received
  wire              \* history: the bytes sent, by writer

ringVars == <<mem, head, tail, size>>
dmaVars == <<busy, serialDmaMemory_, dma>>
vars == <<k, mutex, ringVars, dmaVars, writer, frames, wire>>

-----------------------------------------------------------------------------
\* The bytes of a text up to its n-th character.
Expanded(t, n) == n + Cardinality({i \in 1..n : Text[t][i]})
Length(t) == Expanded(t, Len(Text[t]))

Byte(t, n) == [by |-> t, n |-> n]
Stale == Byte(None, 0)

Smaller(a, b) == IF a < b THEN a ELSE b
Stored == head - tail
Contiguous(position) == size - (position % size)
peek(from) == [at |-> from, len |-> Smaller(head - from, Contiguous(from))]

Runs(t) == k.pxCurrentTCB = t /\ ~k.pendSV /\ ~k.failed
At(t, p) == Runs(t) /\ writer[t].at = p
Goto(t, p) == writer' = [writer EXCEPT ![t].at = p]

\* After startSerialTx() the bytes are counted, and the rest goes the same way.
Written(t) == writer[t].used + writer[t].took
After(t) ==
  writer' = [writer EXCEPT ![t].at = IF writer[t].rest \/ Written(t) < Len(Text[t])
                                     THEN "lock" ELSE "idle",
                           ![t].used = Written(t), ![t].took = 0]

-----------------------------------------------------------------------------
(***************************************************************************)
(* SerialWrite().                                                          *)
(***************************************************************************)
\* Both functions of that name, up to the first lock.
SerialWrite(t) ==
  /\ At(t, "idle") /\ writer[t].left > 0
  /\ writer' = [writer EXCEPT ![t].at = "lock", ![t].left = @ - 1, ![t].used = 0]
  /\ UNCHANGED <<k, mutex, ringVars, dmaVars, frames, wire>>

\* The guard's constructor, OsMutex::lock().
Lock(t) ==
  /\ At(t, "lock")
  /\ IF mutex.free
     THEN mutex' = TakenBy(k) /\ k' = Take(k) /\ Goto(t, "allocate")
     ELSE Goto(t, "block") /\ UNCHANGED <<k, mutex>>
  /\ UNCHANGED <<ringVars, dmaVars, frames, wire>>

Block(t) ==
  /\ At(t, "block")
  /\ k' = WaitToTake(k, serialWriteMutex_, mutex)
  /\ Goto(t, "lock")
  /\ UNCHANGED <<mutex, ringVars, dmaVars, frames, wire>>

\* The bytes of all earlier writes of the task.
Before(t) == (Writes[t] - writer[t].left - 1) * Length(t)

\* Mutant: no room is asked for the second byte of a newline, but for one more.
AllocateOneMore(t) ==
  /\ At(t, "allocate")
  /\ LET text  == Text[t]
         used  == writer[t].used
         first == Expanded(t, used) + (IF writer[t].rest THEN 0 ELSE 1)
         want  == IF writer[t].rest THEN 1 ELSE Len(text) - used + 1
         len   == Smaller(want, Smaller(size - Stored, Contiguous(head)))
         last  == IF writer[t].rest THEN first + len - 1
                  ELSE Smaller(first + len - 1, Length(t))
         upto  == Cardinality({c \in 1..Len(text) : Expanded(t, c - 1) < last})
     IN  /\ mem' = [i \in DOMAIN mem |->
                      LET n == first + ((i - head) % size)
                      IN  IF n <= last THEN Byte(t, Before(t) + n) ELSE mem[i]]
         /\ writer' = [writer EXCEPT
              ![t].at   = IF len > 0 THEN "publish" ELSE "unlock",
              ![t].len  = len,
              ![t].took = IF len = 0 \/ writer[t].rest THEN 0 ELSE upto - used,
              ![t].rest = IF len = 0 THEN @ ELSE Expanded(t, upto) > last]
  /\ UNCHANGED <<k, mutex, head, tail, size, dmaVars, frames, wire>>

\* allocate() and memcpyCharReplace(): the bytes from first to last go to the
\* ring, upto is the last character of which a byte was copied, and of a
\* newline the second byte may be left over.  The range is asked for with one
\* byte more if the text ends with a newline, and filled.
Allocate(t) ==
  /\ At(t, "allocate")
  /\ LET text  == Text[t]
         used  == writer[t].used
         first == Expanded(t, used) + (IF writer[t].rest THEN 0 ELSE 1)
         extra == IF text[Len(text)] THEN 1 ELSE 0
         want  == IF writer[t].rest THEN 1 ELSE Len(text) - used + extra
         len   == Smaller(want, Smaller(size - Stored, Contiguous(head)))
         last  == IF writer[t].rest THEN first + len - 1
                  ELSE Smaller(first + len - 1, Length(t))
         upto  == Cardinality({c \in 1..Len(text) : Expanded(t, c - 1) < last})
     IN  /\ mem' = [i \in DOMAIN mem |->
                      LET n == first + ((i - head) % size)
                      IN  IF n <= last THEN Byte(t, Before(t) + n) ELSE mem[i]]
         /\ writer' = [writer EXCEPT
              ![t].at   = IF len > 0 THEN "publish" ELSE "unlock",
              ![t].len  = len,
              ![t].took = IF len = 0 \/ writer[t].rest THEN 0 ELSE upto - used,
              ![t].rest = IF len = 0 THEN @ ELSE Expanded(t, upto) > last]
  /\ UNCHANGED <<k, mutex, head, tail, size, dmaVars, frames, wire>>

Publish(t) ==
  /\ At(t, "publish")
  /\ head' = head + writer[t].len
  /\ writer' = [writer EXCEPT ![t].at = "unlock", ![t].len = 0]
  /\ UNCHANGED <<k, mutex, mem, tail, size, dmaVars, frames, wire>>

\* The guard's destructor, OsMutex::unlock().
Unlock(t) ==
  /\ At(t, "unlock")
  /\ k' = Give(k, serialWriteMutex_, mutex)
  /\ mutex' = FreeMutex
  /\ Goto(t, "start")
  /\ UNCHANGED <<ringVars, dmaVars, frames, wire>>

-----------------------------------------------------------------------------
(***************************************************************************)
(* startSerialTx(), as a task runs it.                                     *)
(***************************************************************************)
Start(t) ==
  /\ At(t, "start")
  /\ IF Stored > 0 THEN Goto(t, "claim") ELSE After(t)
  /\ UNCHANGED <<k, mutex, ringVars, dmaVars, frames, wire>>

Claim(t) ==
  /\ At(t, "claim")
  /\ busy' = TRUE
  /\ IF busy THEN After(t) ELSE Goto(t, "peek")
  /\ UNCHANGED <<k, mutex, ringVars, serialDmaMemory_, dma, frames, wire>>

\* Mutant: an empty range is not given back.
PeekAnything(t) ==
  /\ At(t, "peek")
  /\ serialDmaMemory_' = peek(tail)
  /\ Goto(t, "configure")
  /\ UNCHANGED <<k, mutex, ringVars, busy, dma, frames, wire>>

Peek(t) ==
  /\ At(t, "peek")
  /\ serialDmaMemory_' = peek(tail)
  /\ Goto(t, IF Stored = 0 THEN "release" ELSE "configure")
  /\ UNCHANGED <<k, mutex, ringVars, busy, dma, frames, wire>>

\* Mutant: the ring is not looked at again.
ReleaseForGood(t) ==
  /\ At(t, "release")
  /\ busy' = FALSE
  /\ After(t)
  /\ UNCHANGED <<k, mutex, ringVars, serialDmaMemory_, dma, frames, wire>>

Release(t) ==
  /\ At(t, "release")
  /\ busy' = FALSE
  /\ Goto(t, "start")
  /\ UNCHANGED <<k, mutex, ringVars, serialDmaMemory_, dma, frames, wire>>

Channel(range) == [on |-> TRUE, requests |-> FALSE, at |-> range.at, left |-> range.len, done |-> FALSE]

Configure(t) ==
  /\ At(t, "configure")
  /\ dma' = Channel(serialDmaMemory_)
  /\ Goto(t, "enable")
  /\ UNCHANGED <<k, mutex, ringVars, busy, serialDmaMemory_, frames, wire>>

EnableTxDma(t) ==
  /\ At(t, "enable")
  /\ dma' = [dma EXCEPT !.requests = TRUE]
  /\ After(t)
  /\ UNCHANGED <<k, mutex, ringVars, busy, serialDmaMemory_, frames, wire>>

-----------------------------------------------------------------------------
(***************************************************************************)
(* The hardware, and the exceptions.                                       *)
(***************************************************************************)
Transfers == dma.on /\ dma.requests /\ dma.left > 0

\* The DMA reads a byte and the USART sends it.
DmaByte ==
  /\ Transfers
  /\ LET b == mem[dma.at % size]
     IN  wire' = [wire EXCEPT ![b.by] = Append(@, b.n)]
  /\ dma' = [dma EXCEPT !.at = @ + 1, !.left = @ - 1, !.done = dma.left = 1]
  /\ UNCHANGED <<k, mutex, ringVars, busy, serialDmaMemory_, writer, frames>>

\* Mutant: the handler gives up the DMA and leaves the ring to the next writer.
dma1_channel4_isr_NoRestart ==
  /\ dma.done
  /\ tail' = tail + serialDmaMemory_.len
  /\ busy' = FALSE
  /\ dma' = [dma EXCEPT !.on = FALSE, !.requests = FALSE, !.done = FALSE]
  /\ UNCHANGED <<k, mutex, mem, head, size, serialDmaMemory_, writer, frames, wire>>

\* dma1_channel4_isr(), with startSerialTx(): no task runs meanwhile.
dma1_channel4_isr ==
  /\ dma.done
  /\ LET rest == tail + serialDmaMemory_.len
     IN  /\ tail' = rest
         /\ \/ /\ head > rest
               /\ serialDmaMemory_' = peek(rest)
               /\ dma' = [Channel(peek(rest)) EXCEPT !.requests = TRUE]
               /\ busy' = TRUE
            \/ /\ head = rest
               /\ busy' = FALSE
               /\ dma' = [dma EXCEPT !.on = FALSE, !.requests = FALSE, !.done = FALSE]
               /\ UNCHANGED serialDmaMemory_
  /\ UNCHANGED <<k, mutex, mem, head, size, writer, frames, wire>>

\* The RoutingTask waits for work.
WaitForNotify ==
  /\ At(Routing, "idle")
  /\ k' = NotifyTake(k, MaxDelay)
  /\ Goto(Routing, "wait")
  /\ UNCHANGED <<mutex, ringVars, dmaVars, frames, wire>>

Awake ==
  /\ At(Routing, "wait")
  /\ k' = NotifyTaken(k)
  /\ Goto(Routing, "idle")
  /\ UNCHANGED <<mutex, ringVars, dmaVars, frames, wire>>

PendSV ==
  /\ k.pendSV /\ ~k.failed
  /\ k' = vTaskSwitchContext(k)
  /\ UNCHANGED <<mutex, ringVars, dmaVars, writer, frames, wire>>

\* A receive handler of a bus.
BusIsr ==
  /\ ~k.failed
  /\ frames < MaxFrames /\ frames' = frames + 1
  /\ k' = notifyFromISRWithWake(k, Routing, FALSE)
  /\ UNCHANGED <<mutex, ringVars, dmaVars, writer, wire>>

-----------------------------------------------------------------------------
InitKernel ==
  [pxCurrentTCB |-> Routing,
   ready |-> [p \in Priority |-> IF p = BasePriority[Routing] THEN <<Routing, EndMark>>
                                 ELSE <<Console, EndMark>>],
   delayed |-> <<>>, overflow |-> <<>>, wake |-> [t \in Task |-> 0],
   waiting |-> [o \in Object |-> <<>>], pending |-> <<>>,
   tick |-> 0, nextUnblock |-> MaxDelay, pendedTicks |-> 0, suspended |-> 0,
   yieldPending |-> FALSE, pendSV |-> FALSE,
   notify |-> [t \in Task |-> "none"], value |-> [t \in Task |-> FALSE],
   prio |-> BasePriority, held |-> [t \in Task |-> 0], failed |-> FALSE]

Init ==
  /\ k = InitKernel
  /\ mutex = FreeMutex
  /\ size \in Sizes
  /\ mem = [i \in 0..size - 1 |-> Stale]
  /\ head = 0 /\ tail = 0 /\ frames = 0
  /\ busy = FALSE
  /\ serialDmaMemory_ = [at |-> 0, len |-> 0]
  /\ dma = [on |-> FALSE, requests |-> FALSE, at |-> 0, left |-> 0, done |-> FALSE]
  /\ writer = [t \in Task |-> [at |-> "idle", left |-> Writes[t], used |-> 0, len |-> 0,
                               took |-> 0, rest |-> FALSE]]
  /\ wire = [t \in Task \cup {None} |-> <<>>]

TaskStep(t) ==
  \/ SerialWrite(t) \/ Lock(t) \/ Block(t) \/ Allocate(t) \/ Publish(t) \/ Unlock(t)
  \/ Start(t) \/ Claim(t) \/ Peek(t) \/ Release(t) \/ Configure(t) \/ EnableTxDma(t)

Processor == (\E t \in Task : TaskStep(t)) \/ WaitForNotify \/ Awake

Next ==
  \/ Processor
  \/ DmaByte \/ dma1_channel4_isr \/ PendSV \/ BusIsr

Spec == Init /\ [][Next]_vars

(***************************************************************************)
(* The processor goes on with the task that runs, whichever it is: only    *)
(* the kernel decides on that.  Exceptions are taken, and the DMA sends.   *)
(* No bus has to send anything.                                            *)
(***************************************************************************)
Fairness ==
  WF_vars(Processor) /\ WF_vars(PendSV) /\ WF_vars(DmaByte) /\ WF_vars(dma1_channel4_isr)

FairSpec == Spec /\ Fairness

-----------------------------------------------------------------------------
(***************************************************************************)
(* Properties.                                                             *)
(***************************************************************************)
\* What a task writes is sent once and in its order, newlines as two bytes, and
\* nothing else is, whichever tasks, handlers and ranges it went through.
BytesInOrder ==
  /\ wire[None] = <<>>
  /\ \A t \in Task : wire[t] = [i \in 1..Len(wire[t]) |-> i]

\* The DMA has one owner: a task between the claim and the enabling, or a
\* transfer, of at least one byte, that has not been acknowledged.
Owners == {t \in Task : writer[t].at \in {"peek", "release", "configure", "enable"}}
OneOwner ==
  /\ Cardinality(Owners) + (IF dma.on /\ dma.requests THEN 1 ELSE 0) = (IF busy THEN 1 ELSE 0)
  /\ dma.on => dma.left > 0 \/ dma.done

\* Data in the ring is on its way, or some task has not looked at it yet.  (The
\* comment in startSerialTx(): "Recheck after releasing ownership in case a
\* writer published data while we held it.")
NothingLeftBehind ==
  Stored > 0 => busy \/ \E t \in Task : writer[t].at \in {"unlock", "start", "claim"}

\* One task at a time fills the ring, and it runs with the priority of the one
\* that waits for it; nobody else keeps a priority that is not its own.
Filling == {t \in Task : writer[t].at \in {"allocate", "publish", "unlock"}}
HolderInherits ==
  /\ Filling = (IF mutex.free THEN {} ELSE {mutex.holder})
  /\ \A t \in Members(k.waiting[serialWriteMutex_]) :
       ~mutex.free => k.prio[mutex.holder] >= k.prio[t]
  /\ \A t \in Task : t \notin Filling => k.prio[t] = BasePriority[t]

\* Where the ring holds all that is written, every call of SerialWrite() returns
\* and every byte is sent: again and again, both tasks are out of SerialWrite(),
\* the ring is empty and the DMA is idle.  (design.md: "If the provided data
\* fits into the buffer, the call returns after copying the data and starting
\* the DMA.")
Fits == size >= Length(Routing) * Writes[Routing] + Length(Console) * Writes[Console]
AtRest == Stored = 0 /\ ~busy /\ \A t \in Task : writer[t].at \in {"idle", "wait"}
RestsIfFits == Fits => []<>AtRest

\* Every call of SerialWrite() returns.  (design.md: "`_write()` will busy-wait
\* until all of the data could be forwarded into the buffer.")
WriteReturns == \A t \in Task : (writer[t].at = "lock") ~> (writer[t].at = "idle")
=============================================================================
