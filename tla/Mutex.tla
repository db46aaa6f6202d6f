-------------------------------- MODULE Mutex --------------------------------
(***************************************************************************)
(* The mutex of FreeRTOS, a queue of one item without data that remembers  *)
(* its holder, as OsMutex takes and gives it: a take waits for ever, as    *)
(* far as the model goes (the tick count that would end the wait needs 198 *)
(* days), and a mutex is taken once only.                                  *)
(*                                                                         *)
(* A mutex is a record: whether it is free, which the code keeps as        *)
(* uxMessagesWaiting, and xMutexHolder.  Its xTasksWaitingToReceive is the *)
(* event list waiting[m] of the kernel.                                    *)
(***************************************************************************)
EXTENDS Kernel

None == "none"
FreeMutex == [free |-> TRUE, holder |-> None]

\* vListInsertEnd() of a task in the list of another priority.
AtPriority(k, t, p) ==
  IF t \in ReadyAt(k, k.prio[t])
  THEN prvAddTaskToReadyList([Unlisted(k, t) EXCEPT !.prio[t] = p], t)
  ELSE [k EXCEPT !.prio[t] = p]

\* xTaskPriorityInherit(): the holder runs with the priority of the one that
\* waits for it.
xTaskPriorityInherit(k, holder) ==
  IF holder # None /\ k.prio[holder] < k.prio[k.pxCurrentTCB]
  THEN AtPriority(k, holder, k.prio[k.pxCurrentTCB]) ELSE k

\* Mutant: the priority is given back only while nobody waits.
xTaskPriorityDisinheritIfIdle(k, t) ==
  LET h == [k EXCEPT !.held[t] = @ - 1]
  IN  IF \A o \in Object : k.waiting[o] = <<>> THEN AtPriority(h, t, BasePriority[t]) ELSE h

\* xTaskPriorityDisinherit(): with the last mutex it goes back to its own.
xTaskPriorityDisinherit(k, t) ==
  LET a == configASSERT(k, t = k.pxCurrentTCB /\ k.held[t] > 0)
      h == [a EXCEPT !.held[t] = @ - 1]
  IN  IF h.prio[t] # BasePriority[t] /\ h.held[t] = 0
      THEN AtPriority(h, t, BasePriority[t]) ELSE h

\* xQueueSemaphoreTake(), its first critical section: the mutex is free.
Take(k) == [k EXCEPT !.held[k.pxCurrentTCB] = @ + 1]
TakenBy(k) == [free |-> FALSE, holder |-> k.pxCurrentTCB]

\* Its second part, with the scheduler suspended: the caller goes to sleep, if
\* the mutex was not given in between.  No handler gives a mutex, so that
\* nothing is lost if this is one step.
WaitToTake(k, m, mutex) ==
  LET s == vTaskSuspendAll(k)
      i == xTaskPriorityInherit(s, mutex.holder)
  IN  IF mutex.free THEN xTaskResumeAll(s)
      ELSE ResumeAndYield(vTaskPlaceOnEventList(i, m, MaxDelay))

\* xQueueGenericSend() of a mutex, with prvCopyDataToQueue().
Give(k, m, mutex) ==
  LET d == xTaskPriorityDisinherit(k, mutex.holder)
      w == d.waiting[m]
  IN  IF w # <<>>
      THEN IF Outranks(d, Head(w)) THEN portYIELD(xTaskRemoveFromEventList(d, m))
           ELSE xTaskRemoveFromEventList(d, m)
      ELSE IF d.prio # k.prio THEN portYIELD(d) ELSE d
=============================================================================
