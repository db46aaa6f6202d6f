------------------------------- MODULE Kernel -------------------------------
(***************************************************************************)
(* The FreeRTOS kernel V10.4.1 as the firmware configures it: preemption,  *)
(* time slices, an idle task that yields, tasks that are never deleted and *)
(* never suspended for good (INCLUDE_vTaskSuspend is 0, so that a wait     *)
(* "for ever" ends when the tick count has come round).                    *)
(*                                                                         *)
(* The state of the kernel is one record, k, and each function is an       *)
(* operator from record to record: the modules that use the kernel own the *)
(* variable and decide where an interrupt may come between two of them.    *)
(* An operator is what its function does inside one critical section.      *)
(*                                                                         *)
(*   pxCurrentTCB   the running task                                       *)
(*   ready          pxReadyTasksLists, by priority                         *)
(*   delayed, overflow   pxDelayedTaskList, pxOverflowDelayedTaskList      *)
(*   wake           item value of a delayed task: the tick it wakes at     *)
(*   waiting        the event list of each kernel object                   *)
(*   pending        xPendingReadyList                                      *)
(*   pendSV         the context switch exception is pending                *)
(*   notify, value  ucNotifyState, and whether ulNotifiedValue is not 0    *)
(*   prio, held     uxPriority, uxMutexesHeld                              *)
(*   failed         a configASSERT has stopped the firmware                *)
(***************************************************************************)
EXTENDS Integers, Sequences, FiniteSets

CONSTANTS
  Task,          \* all tasks, the idle task among them
  BasePriority,  \* uxBasePriority of a task
  Object,        \* the kernel objects that tasks wait for
  Ticks          \* bound: the tick count is a number modulo Ticks

ASSUME KernelAssumption ==
  /\ IsFiniteSet(Task)
  /\ BasePriority \in [Task -> Nat]
  /\ \E t \in Task : BasePriority[t] = 0
  /\ Ticks \in Nat \ {0, 1}

Priority == {BasePriority[t] : t \in Task}
MaxDelay == Ticks - 1     \* portMAX_DELAY
Later(time, ticks) == (time + ticks) % Ticks

-----------------------------------------------------------------------------
(***************************************************************************)
(* Lists.  A ready list is a ring; the sequence that stands for it ends    *)
(* with the item pxIndex points to.  The end marker is one of its items.   *)
(* In the sorted lists pxIndex is never moved, and the marker is left out. *)
(***************************************************************************)
EndMark == "xListEnd"

Members(list) == {list[i] : i \in DOMAIN list}

\* A task is in a list once at most.
uxListRemove(list, t) ==
  IF t \in Members(list)
  THEN LET at == CHOOSE i \in DOMAIN list : list[i] = t
       IN  SubSeq(list, 1, at - 1) \o SubSeq(list, at + 1, Len(list))
  ELSE list

\* vListInsertEnd() into a ring: just before the item of pxIndex.
vListInsertEnd(ring, t) ==
  SubSeq(ring, 1, Len(ring) - 1) \o <<t, ring[Len(ring)]>>

\* vListInsert(): behind every item with the same or a smaller value.
vListInsert(list, t, value) ==
  LET n == Cardinality({i \in DOMAIN list : value[list[i]] <= value[t]})
  IN  SubSeq(list, 1, n) \o <<t>> \o SubSeq(list, n + 1, Len(list))

\* listGET_OWNER_OF_NEXT_ENTRY(): pxIndex moves on, past the marker.
Rotated(ring) == Append(Tail(ring), Head(ring))
NextEntry(ring) ==
  IF Head(ring) = EndMark THEN Rotated(Rotated(ring)) ELSE Rotated(ring)

ReadyTasks(k) == (UNION {Members(k.ready[p]) : p \in Priority}) \ {EndMark}
ReadyAt(k, p) == Members(k.ready[p]) \ {EndMark}

\* The item of the state list leaves whatever list it is in; its value counts
\* in the sorted lists only.
Unlisted(k, t) ==
  [k EXCEPT !.ready    = [p \in Priority |-> uxListRemove(@[p], t)],
            !.delayed  = uxListRemove(@, t),
            !.overflow = uxListRemove(@, t),
            !.wake[t]  = 0]
OffEvents(k, t) ==
  [k EXCEPT !.waiting = [o \in Object |-> uxListRemove(@[o], t)],
            !.pending = uxListRemove(@, t)]

prvAddTaskToReadyList(k, t) ==
  [k EXCEPT !.ready[k.prio[t]] = vListInsertEnd(@, t)]

Readied(k, t) == prvAddTaskToReadyList(Unlisted(k, t), t)

\* The list operations of several tasks, in the order of a sequence.
ReadiedAll(k, list) ==
  LET step[i \in 0..Len(list)] ==
        IF i = 0 THEN k ELSE Readied(OffEvents(step[i - 1], list[i]), list[i])
  IN  step[Len(list)]

configASSERT(k, condition) == IF condition THEN k ELSE [k EXCEPT !.failed = TRUE]

-----------------------------------------------------------------------------
(***************************************************************************)
(* Context switches.                                                       *)
(***************************************************************************)
\* portYIELD()
portYIELD(k) == [k EXCEPT !.pendSV = TRUE]

TopReadyPriority(k) ==
  CHOOSE p \in Priority :
    ReadyAt(k, p) # {} /\ \A q \in Priority : ReadyAt(k, q) # {} => q <= p

\* Mutant: the running task is chosen again while it is ready.
vTaskSwitchContextKeepsCurrent(k) ==
  IF k.pxCurrentTCB \in ReadyTasks(k) THEN [k EXCEPT !.pendSV = FALSE, !.yieldPending = FALSE]
  ELSE LET p    == TopReadyPriority(k)
           ring == NextEntry(k.ready[p])
       IN  [k EXCEPT !.pendSV = FALSE, !.yieldPending = FALSE, !.ready[p] = ring,
                     !.pxCurrentTCB = ring[Len(ring)]]

\* vTaskSwitchContext(), called by the exception handler.
vTaskSwitchContext(k) ==
  IF k.suspended > 0
  THEN [k EXCEPT !.pendSV = FALSE, !.yieldPending = TRUE]
  ELSE LET p    == TopReadyPriority(k)
           ring == NextEntry(k.ready[p])
       IN  [k EXCEPT !.pendSV = FALSE, !.yieldPending = FALSE, !.ready[p] = ring,
                     !.pxCurrentTCB = ring[Len(ring)]]

\* vTaskMissedYield() and every other place that only notes the yield.
vTaskMissedYield(k) == [k EXCEPT !.yieldPending = TRUE]

-----------------------------------------------------------------------------
(***************************************************************************)
(* Time.                                                                   *)
(***************************************************************************)
prvResetNextTaskUnblockTime(k) ==
  [k EXCEPT !.nextUnblock =
     IF k.delayed = <<>> THEN MaxDelay ELSE k.wake[Head(k.delayed)]]

\* taskSWITCH_DELAYED_LISTS()
SwitchDelayedLists(k) ==
  prvResetNextTaskUnblockTime(
    [configASSERT(k, k.delayed = <<>>) EXCEPT !.delayed = k.overflow, !.overflow = k.delayed])

\* Mutant: the lists are not switched when the tick count comes round.
TickedNoSwitch(k) == [k EXCEPT !.tick = Later(@, 1)]

\* The tick count goes on by one.
Ticked(k) ==
  LET t == [k EXCEPT !.tick = Later(@, 1)]
  IN  IF t.tick = 0 THEN SwitchDelayedLists(t) ELSE t

\* The delayed tasks whose time has come: from the head on, up to the first
\* that has to wait.
Due(k) == {i \in DOMAIN k.delayed : \A j \in 1..i : k.wake[k.delayed[j]] <= k.tick}
Expired(k) ==
  IF k.tick >= k.nextUnblock THEN SubSeq(k.delayed, 1, Cardinality(Due(k))) ELSE <<>>

\* xTaskIncrementTick().  Its result, that a context switch is required, is
\* the operator below it.
xTaskIncrementTick(k) ==
  IF k.suspended > 0
  THEN [k EXCEPT !.pendedTicks = @ + 1]
  ELSE LET t == Ticked(k)
           r == ReadiedAll(t, Expired(t))
       IN  IF t.tick >= t.nextUnblock THEN prvResetNextTaskUnblockTime(r) ELSE r

TickRequiresSwitch(k) ==
  LET t == Ticked(k)
      r == xTaskIncrementTick(k)
  IN  /\ k.suspended = 0
      /\ \/ \E x \in Members(Expired(t)) : k.prio[x] >= k.prio[k.pxCurrentTCB]
         \/ Cardinality(ReadyAt(r, k.prio[k.pxCurrentTCB])) > 1
         \/ k.yieldPending

\* xPortSysTickHandler()
xPortSysTickHandler(k) ==
  IF TickRequiresSwitch(k) THEN portYIELD(xTaskIncrementTick(k)) ELSE xTaskIncrementTick(k)

\* Mutant: the tick count is taken not to come round.
prvAddCurrentTaskToDelayedListOneList(k, xTicksToWait) ==
  LET t    == k.pxCurrentTCB
      wake == Later(k.tick, xTicksToWait)
      u    == [Unlisted(k, t) EXCEPT !.wake[t] = wake]
  IN  [u EXCEPT !.delayed = vListInsert(@, t, u.wake),
                !.nextUnblock = IF wake < @ THEN wake ELSE @]

\* prvAddCurrentTaskToDelayedList()
prvAddCurrentTaskToDelayedList(k, xTicksToWait) ==
  LET t    == k.pxCurrentTCB
      wake == Later(k.tick, xTicksToWait)
      u    == [Unlisted(k, t) EXCEPT !.wake[t] = wake]
  IN  IF wake < k.tick
      THEN [u EXCEPT !.overflow = vListInsert(@, t, u.wake)]
      ELSE [u EXCEPT !.delayed = vListInsert(@, t, u.wake),
                     !.nextUnblock = IF wake < @ THEN wake ELSE @]

-----------------------------------------------------------------------------
(***************************************************************************)
(* The scheduler is suspended and resumed.                                 *)
(***************************************************************************)
vTaskSuspendAll(k) == [k EXCEPT !.suspended = @ + 1]

\* The pending ready tasks; a yield is due if one has at least our priority.
PendingReadied(k) ==
  LET r == ReadiedAll(k, k.pending)
      y == \E t \in Members(k.pending) : k.prio[t] >= k.prio[k.pxCurrentTCB]
  IN  IF k.pending = <<>> THEN k
      ELSE prvResetNextTaskUnblockTime([r EXCEPT !.yieldPending = @ \/ y])

\* The ticks that passed meanwhile, one after the other.
PendedTicksDone(k) ==
  LET one(j) == IF TickRequiresSwitch(j) THEN vTaskMissedYield(xTaskIncrementTick(j))
                                         ELSE xTaskIncrementTick(j)
      step[i \in 0..k.pendedTicks] == IF i = 0 THEN k ELSE one(step[i - 1])
  IN  IF k.pendedTicks = 0 THEN k ELSE [step[k.pendedTicks] EXCEPT !.pendedTicks = 0]

\* xTaskResumeAll().  It returns whether it has yielded already.
xTaskResumeAll(k) ==
  LET d == [configASSERT(k, k.suspended > 0) EXCEPT !.suspended = @ - 1]
      r == PendedTicksDone(PendingReadied(d))
  IN  IF d.suspended > 0 THEN d
      ELSE IF r.yieldPending THEN portYIELD(r) ELSE r

\* The two lines of every caller: if it has not yielded, yield.
ResumeAndYield(k) == portYIELD(xTaskResumeAll(k))

-----------------------------------------------------------------------------
(***************************************************************************)
(* Event lists and notifications.                                          *)
(***************************************************************************)
\* vTaskPlaceOnEventList(): by priority.  vTaskPlaceOnEventListRestricted() is
\* for a list that only one task ever waits in.
vTaskPlaceOnEventList(k, o, xTicksToWait) ==
  LET t     == k.pxCurrentTCB
      value == [x \in Task |-> 0 - k.prio[x]]
  IN  prvAddCurrentTaskToDelayedList(
        [k EXCEPT !.waiting[o] = vListInsert(@, t, value)], xTicksToWait)

vTaskPlaceOnEventListRestricted(k, o, xTicksToWait, xWaitIndefinitely) ==
  prvAddCurrentTaskToDelayedList(
    [k EXCEPT !.waiting[o] = Append(@, k.pxCurrentTCB)],
    IF xWaitIndefinitely THEN MaxDelay ELSE xTicksToWait)

Outranks(k, t) == k.prio[t] > k.prio[k.pxCurrentTCB]

\* xTaskRemoveFromEventList().  Its result, that the first of the list
\* outranks the running task, is used by every caller to yield.
xTaskRemoveFromEventList(k, o) ==
  LET t == Head(k.waiting[o])
      r == [k EXCEPT !.waiting[o] = Tail(@), !.yieldPending = @ \/ Outranks(k, t)]
  IN  IF k.suspended = 0 THEN Readied(r, t) ELSE [r EXCEPT !.pending = Append(@, t)]

\* The first part of ulTaskGenericNotifyTake(pdTRUE): wait for a notification.
NotifyTake(k, xTicksToWait) ==
  LET t == k.pxCurrentTCB
  IN  IF k.value[t] THEN k
      ELSE portYIELD(prvAddCurrentTaskToDelayedList([k EXCEPT !.notify[t] = "waiting"],
                                                    xTicksToWait))

\* Its second part, when the task runs again: the value is cleared.
NotifyTaken(k) ==
  LET t == k.pxCurrentTCB
  IN  [k EXCEPT !.value[t] = FALSE, !.notify[t] = "none"]

\* Mutant: the value is set only for a task that waits already.
NotifiedIfWaiting(k, t) ==
  [k EXCEPT !.notify[t] = "received", !.value[t] = @ \/ k.notify[t] = "waiting"]

\* eSetValueWithoutOverwrite
Notified(k, t) ==
  [k EXCEPT !.notify[t] = "received", !.value[t] = @ \/ k.notify[t] # "received"]

\* xTaskGenericNotify(): also while the scheduler is suspended.
xTaskGenericNotify(k, t) ==
  LET n == Notified(k, t)
      r == Readied(configASSERT(n, \A o \in Object : t \notin Members(k.waiting[o])), t)
  IN  IF k.notify[t] # "waiting" THEN n
      ELSE IF Outranks(k, t) THEN portYIELD(r) ELSE r

\* xTaskGenericNotifyFromISR().  Whether a task of a higher priority was woken
\* is the operator below it.
xTaskGenericNotifyFromISR(k, t) ==
  LET n == Notified(k, t)
      r == IF k.suspended = 0 THEN Readied(n, t) ELSE [n EXCEPT !.pending = Append(@, t)]
  IN  IF k.notify[t] # "waiting" THEN n
      ELSE [r EXCEPT !.yieldPending = @ \/ Outranks(k, t)]

WokenByIsr(k, t) == k.notify[t] = "waiting" /\ Outranks(k, t)

\* OsTask::notifyFromISRWithWake().  The flag is not initialised: when nobody
\* was woken the handler may yield all the same.
notifyFromISRWithWake(k, t, uninitialised) ==
  LET n == xTaskGenericNotifyFromISR(k, t)
  IN  IF WokenByIsr(k, t) \/ uninitialised THEN portYIELD(n) ELSE n

=============================================================================
