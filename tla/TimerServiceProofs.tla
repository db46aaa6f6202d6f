-------------------------- MODULE TimerServiceProofs --------------------------
(***************************************************************************)
(* Proofs about TimerService: the task that runs is one of the highest     *)
(* priority among the ready ones, a notification that was not taken yet    *)
(* keeps its task awake, a delayed task is woken in its tick, and nothing  *)
(* fails but the assertion of a full queue, with any timers, any number of *)
(* ticks and any queue.                                                    *)
(***************************************************************************)
EXTENDS TimerService, KernelProofs

LEMMA TaskType ==
  /\ Routing \in Task /\ TimerTask \in Task /\ Console \in Task /\ Idle \in Task
  /\ EndMark \notin Task /\ TimerQueue \in Object
  /\ BasePriority \in [Task -> Priority] /\ Priority \subseteq Int
  /\ Routing # TimerTask /\ Routing # Console /\ Routing # Idle
  /\ TimerTask # Console /\ TimerTask # Idle
  /\ BasePriority[Routing] > BasePriority[TimerTask]
  /\ Senders \subseteq {Routing, Console}
<1>1. Task = {"RoutingTask", "Tmr Svc", "ConsoleTask", "IDLE"} /\ TimerQueue \in Object
  BY TimerAssumption DEF Routing, TimerTask, Console, Idle
<1>2. EndMark \notin Task
  BY <1>1 DEF EndMark
<1>3. BasePriority \in [Task -> Priority]
  BY KernelAssumption DEF Priority
<1>4. Priority \subseteq Int
  BY PriorityType
<1> QED
  BY <1>1, <1>2, <1>3, <1>4, TimerAssumption DEF Routing, TimerTask, Console, Idle

-----------------------------------------------------------------------------
(***************************************************************************)
(* What the kernel's record keeps to.                                      *)
(***************************************************************************)
\* The idle task is ready, only the timer task waits, for a command, only the
\* RoutingTask is put off by an interrupt, and it is awake unless it waits for
\* its notification.
Known(j) ==
  /\ Kern(j) /\ j.prio = BasePriority /\ Placed(j)
  /\ Idle \in ReadyTasks(j)
  /\ \A o \in Object : Members(j.waiting[o]) \subseteq {TimerTask} \ ReadyTasks(j)
  /\ \A o \in Object \ {TimerQueue} : Members(j.waiting[o]) = {}
  /\ Members(j.pending) \subseteq {Routing}
  /\ Routing \in Members(j.pending) => j.notify[Routing] # "waiting"
  /\ j.notify[Routing] # "waiting" => Routing \in ReadyTasks(j) \cup Members(j.pending)
  /\ j.notify[Routing] = "received" => j.value[Routing]

\* The scheduler works: a switch is pending, or the right task runs.
Chosen(j) == j.pendSV \/ (j.pxCurrentTCB \in ReadyTasks(j) /\ Topped(j))
Free(j) ==
  /\ j.suspended = 0 /\ j.pendedTicks = 0 /\ j.pending = <<>>
  /\ Chosen(j)

\* The timer task has suspended it: what keeps the right task from running is
\* noted, and is made up for when the scheduler is resumed.
Stopped(j) ==
  /\ j.suspended = 1 /\ j.pendedTicks \in Nat
  /\ j.pxCurrentTCB = TimerTask
  /\ j.pendSV \/ Level(j)

\* Fields that say nothing of which tasks are awake.
Aside ==
  {"pxCurrentTCB", "delayed", "overflow", "wake", "tick", "nextUnblock", "pendedTicks",
   "suspended", "yieldPending", "pendSV", "held", "failed"}

\* No assertion fails, and the times of the delayed tasks lie ahead still.
Steady(i, j) == i.failed = j.failed /\ (Timed(j) => Timed(i))

LEMMA SteadyAside ==
  ASSUME NEW i, NEW j, Keeps(i, j, Untimed \ {"failed"})
  PROVE  Steady(i, j)
<1>1. Keeps(i, j, Untimed) /\ i.failed = j.failed
  BY DEF Keeps, Untimed, Fields
<1> QED
  BY <1>1, KeepsTimed DEF Steady

LEMMA KnownAside ==
  ASSUME NEW i, NEW j, Known(j), Kern(i), Keeps(i, j, Aside)
  PROVE  Known(i) /\ ReadyTasks(i) = ReadyTasks(j)
<1>1. /\ i.ready = j.ready /\ i.waiting = j.waiting /\ i.pending = j.pending /\ i.prio = j.prio
      /\ i.notify = j.notify /\ i.value = j.value
  BY DEF Keeps, Fields, Aside
<1>2. ReadyTasks(i) = ReadyTasks(j) /\ (Placed(j) => Placed(i))
  BY <1>1 DEF ReadyTasks, Placed, ReadyAt
<1> QED
  BY <1>1, <1>2 DEF Known

\* Tasks are made ready, and wait no more.
LEMMA KnownReady ==
  ASSUME NEW i, NEW j, Known(j), Kern(i), Placed(i),
         i.prio = j.prio, i.notify = j.notify, i.value = j.value,
         NEW S, ReadyTasks(i) = ReadyTasks(j) \cup S,
         \A o \in Object : Members(i.waiting[o]) \subseteq Members(j.waiting[o]) \ S,
         Members(i.pending) \subseteq Members(j.pending),
         Members(j.pending) \subseteq Members(i.pending) \cup S
  PROVE  Known(i)
<1>1. /\ i.prio = BasePriority /\ Idle \in ReadyTasks(i)
      /\ \A o \in Object : Members(i.waiting[o]) \subseteq {TimerTask} \ ReadyTasks(i)
      /\ \A o \in Object \ {TimerQueue} : Members(i.waiting[o]) = {}
      /\ Members(i.pending) \subseteq {Routing}
  BY DEF Known
<1>2. /\ Routing \in Members(i.pending) => i.notify[Routing] # "waiting"
      /\ i.notify[Routing] # "waiting" => Routing \in ReadyTasks(i) \cup Members(i.pending)
      /\ i.notify[Routing] = "received" => i.value[Routing]
  BY DEF Known
<1> QED
  BY <1>1, <1>2 DEF Known

LEMMA NotOutranked ==
  ASSUME NEW j, Kern(j), NEW t \in Task, ~Outranks(j, t)
  PROVE  j.prio[t] <= j.prio[j.pxCurrentTCB]
<1>1. j.prio[t] \in Nat /\ j.prio[j.pxCurrentTCB] \in Nat
  BY PriorityType DEF Kern
<1> QED
  BY <1>1 DEF Outranks

LEMMA YieldKnown ==
  ASSUME NEW j, Known(j)
  PROVE  /\ Known(portYIELD(j)) /\ ReadyTasks(portYIELD(j)) = ReadyTasks(j)
         /\ portYIELD(j).suspended = j.suspended /\ portYIELD(j).pendSV = TRUE
         /\ portYIELD(j).pxCurrentTCB = j.pxCurrentTCB
         /\ j.suspended = 0 /\ j.pendedTicks = 0 /\ j.pending = <<>> => Free(portYIELD(j))
         /\ Stopped(j) => Stopped(portYIELD(j))
         /\ Steady(portYIELD(j), j)
<1> DEFINE i == portYIELD(j)
<1>1. Kern(i) /\ Keeps(i, j, {"pendSV"}) /\ i.pendSV = TRUE
  BY DEF Known, Kern, Keeps, Fields, portYIELD
<1> HIDE DEF i
<1>2. Keeps(i, j, Aside)
  BY <1>1 DEF Keeps, Aside
<1>s. Steady(i, j)
  BY <1>1, SteadyAside DEF Keeps, Untimed, Fields
<1>3. Known(i) /\ ReadyTasks(i) = ReadyTasks(j)
  BY <1>1, <1>2, KnownAside
<1>4. /\ i.suspended = j.suspended /\ i.pendedTicks = j.pendedTicks /\ i.pending = j.pending
      /\ i.pxCurrentTCB = j.pxCurrentTCB
  BY <1>1 DEF Keeps, Fields
<1> QED
  BY <1>1, <1>3, <1>4, <1>s DEF Free, Chosen, Stopped, i

LEMMA FailKnown ==
  ASSUME NEW j, NEW c, Known(j)
  PROVE  LET i == configASSERT(j, c)
         IN  /\ Known(i) /\ ReadyTasks(i) = ReadyTasks(j) /\ i.suspended = j.suspended
             /\ Free(j) => Free(i)
             /\ Stopped(j) => Stopped(i)
             /\ Timed(j) => Timed(i)
<1> DEFINE i == configASSERT(j, c)
<1>1. Kern(i) /\ Keeps(i, j, {"failed"})
  <2>1. i = j \/ i = [j EXCEPT !.failed = TRUE]
    BY DEF configASSERT
  <2> HIDE DEF i
  <2>2. CASE i = j
    BY <2>2 DEF Known, Keeps
  <2>3. CASE i = [j EXCEPT !.failed = TRUE]
    BY <2>3 DEF Known, Kern, Keeps, Fields
  <2> QED
    BY <2>1, <2>2, <2>3
<1> HIDE DEF i
<1>2. Keeps(i, j, Aside)
  BY <1>1 DEF Keeps, Aside
<1>s. Timed(j) => Timed(i)
  <2>1. Keeps(i, j, Untimed)
    BY <1>1 DEF Keeps, Untimed, Fields
  <2> QED
    BY <2>1, KeepsTimed
<1>3. Known(i) /\ ReadyTasks(i) = ReadyTasks(j)
  BY <1>1, <1>2, KnownAside
<1>4. /\ i.suspended = j.suspended /\ i.pendedTicks = j.pendedTicks /\ i.pending = j.pending
      /\ i.pxCurrentTCB = j.pxCurrentTCB /\ i.prio = j.prio /\ i.pendSV = j.pendSV
      /\ i.yieldPending = j.yieldPending
  BY <1>1 DEF Keeps, Fields
<1>5. (Chosen(j) => Chosen(i)) /\ (Level(j) => Level(i))
  BY <1>3, <1>4 DEF Chosen, Level, Topped
<1> QED
  BY <1>3, <1>4, <1>5, <1>s DEF Free, Stopped, i

-----------------------------------------------------------------------------
(***************************************************************************)
(* What the operators of the kernel do to it.                              *)
(***************************************************************************)
LEMMA SwitchKnown ==
  ASSUME NEW j, Known(j), Free(j)
  PROVE  /\ Known(vTaskSwitchContext(j)) /\ Free(vTaskSwitchContext(j))
         /\ Steady(vTaskSwitchContext(j), j)
<1> DEFINE i == vTaskSwitchContext(j)
<1>1. Kern(j) /\ j.suspended = 0 /\ Placed(j) /\ EndMark \notin Task /\ ReadyTasks(j) # {}
  BY TaskType DEF Known, Free
<1>2. /\ Kern(i) /\ Keeps(i, j, {"pendSV", "yieldPending", "ready", "pxCurrentTCB"})
  BY <1>1, SwitchKernel, Zenon
<1>3. Placed(i) /\ Topped(i) /\ ReadyTasks(i) = ReadyTasks(j) /\ i.pxCurrentTCB \in ReadyTasks(j)
  BY <1>1, SwitchTopped, Zenon
<1> HIDE DEF i
<1>4. /\ i.prio = j.prio /\ i.notify = j.notify /\ i.value = j.value /\ i.waiting = j.waiting
      /\ i.pending = j.pending /\ i.suspended = j.suspended /\ i.pendedTicks = j.pendedTicks
  BY <1>2 DEF Keeps, Fields
<1>s. Steady(i, j)
  BY <1>2, SteadyAside DEF Keeps, Untimed, Fields
<1>5. Known(i)
  BY <1>2, <1>3, <1>4 DEF Known
<1>6. Free(i)
  BY <1>3, <1>4 DEF Free, Chosen
<1> QED
  BY <1>5, <1>6, <1>s DEF i

LEMMA SwitchStopped ==
  ASSUME NEW j, Known(j), Stopped(j)
  PROVE  /\ Known(vTaskSwitchContext(j)) /\ Stopped(vTaskSwitchContext(j))
         /\ ReadyTasks(vTaskSwitchContext(j)) = ReadyTasks(j)
         /\ Steady(vTaskSwitchContext(j), j)
<1> DEFINE i == vTaskSwitchContext(j)
<1>1. i = [j EXCEPT !.pendSV = FALSE, !.yieldPending = TRUE]
  BY DEF vTaskSwitchContext, Stopped
<1>2. /\ Kern(i) /\ Keeps(i, j, {"pendSV", "yieldPending"}) /\ i.yieldPending = TRUE
  BY <1>1 DEF Known, Kern, Keeps, Fields
<1> HIDE DEF i
<1>3. Keeps(i, j, Aside)
  BY <1>2 DEF Keeps, Aside
<1>s. Steady(i, j)
  BY <1>2, SteadyAside DEF Keeps, Untimed, Fields
<1>4. Known(i) /\ ReadyTasks(i) = ReadyTasks(j)
  BY <1>2, <1>3, KnownAside
<1>5. i.suspended = j.suspended /\ i.pendedTicks = j.pendedTicks /\ i.pxCurrentTCB = j.pxCurrentTCB
  BY <1>2 DEF Keeps, Fields
<1> QED
  BY <1>2, <1>4, <1>5, <1>s DEF Stopped, Level, i

LEMMA TickKnown ==
  ASSUME NEW j, Known(j), Free(j)
  PROVE  /\ Known(xPortSysTickHandler(j)) /\ Free(xPortSysTickHandler(j))
         /\ Timed(j) => Steady(xPortSysTickHandler(j), j)
<1> DEFINE i == xTaskIncrementTick(j)
           S == Members(Expired(Ticked(j)))
<1>1. Kern(j) /\ j.suspended = 0 /\ EndMark \notin Task
  BY TaskType DEF Known, Free
<1>2. /\ Made(i, j, S) /\ Keeps(i, j, TimeFields \ {"yieldPending", "pendedTicks"})
      /\ Topped(j) /\ ~TickRequiresSwitch(j) => Topped(i)
  BY <1>1, TickKernel, Zenon
<1>s. Timed(j) => Steady(i, j)
  BY <1>2 DEF Made, Steady
<1>3. xPortSysTickHandler(j) = IF TickRequiresSwitch(j) THEN portYIELD(i) ELSE i
  BY DEF xPortSysTickHandler
<1> HIDE DEF i, S
<1>4. /\ i.prio = j.prio /\ i.notify = j.notify /\ i.value = j.value
      /\ i.suspended = j.suspended /\ i.pendedTicks = j.pendedTicks /\ i.pendSV = j.pendSV
      /\ i.pxCurrentTCB = j.pxCurrentTCB
  BY <1>2 DEF Keeps, Fields, TimeFields, StateLists
<1>5. Kern(i) /\ Placed(i) /\ ReadyTasks(i) = ReadyTasks(j) \cup S
  BY <1>2 DEF Made, Known
<1>6. Members(j.pending) = {} /\ Members(i.pending) = {} /\ i.pending = <<>>
  <2>1. Members(j.pending) = {}
    BY DEF Free, Members
  <2>2. Members(i.pending) = {} /\ i.pending \in Seq(Task)
    BY <1>2, <2>1 DEF Made, Kern, Lists
  <2> QED
    BY <2>1, <2>2, NoMembers
<1>7. /\ \A o \in Object : Members(i.waiting[o]) \subseteq Members(j.waiting[o]) \ S
      /\ Members(i.pending) \subseteq Members(j.pending)
      /\ Members(j.pending) \subseteq Members(i.pending) \cup S
  BY <1>2, <1>6 DEF Made
<1>8. Known(i)
  BY <1>4, <1>5, <1>7, KnownReady
<1>9. i.suspended = 0 /\ i.pendedTicks = 0
  BY <1>4 DEF Free
<1>10. CASE TickRequiresSwitch(j)
  BY <1>3, <1>6, <1>8, <1>9, <1>10, <1>s, YieldKnown DEF Steady
<1>11. CASE ~TickRequiresSwitch(j)
  <2>1. Chosen(i)
    BY <1>2, <1>4, <1>5, <1>11 DEF Free, Chosen
  <2> QED
    BY <1>3, <1>6, <1>8, <1>9, <1>11, <1>s, <2>1 DEF Free
<1> QED
  BY <1>10, <1>11

LEMMA TickStopped ==
  ASSUME NEW j, Known(j), Stopped(j)
  PROVE  /\ Known(xPortSysTickHandler(j)) /\ Stopped(xPortSysTickHandler(j))
         /\ ReadyTasks(xPortSysTickHandler(j)) = ReadyTasks(j)
         /\ Steady(xPortSysTickHandler(j), j)
<1> DEFINE i == xPortSysTickHandler(j)
<1>1. i = [j EXCEPT !.pendedTicks = @ + 1]
  BY DEF xPortSysTickHandler, xTaskIncrementTick, TickRequiresSwitch, Stopped
<1>2. /\ Kern(i) /\ Keeps(i, j, {"pendedTicks"}) /\ i.pendedTicks = j.pendedTicks + 1
  BY <1>1 DEF Known, Kern, Keeps, Fields
<1> HIDE DEF i
<1>3. Keeps(i, j, Aside)
  BY <1>2 DEF Keeps, Aside
<1>s. Steady(i, j)
  BY <1>2, SteadyAside DEF Keeps, Untimed, Fields
<1>4. Known(i) /\ ReadyTasks(i) = ReadyTasks(j)
  BY <1>2, <1>3, KnownAside
<1>5. /\ i.suspended = j.suspended /\ i.pxCurrentTCB = j.pxCurrentTCB /\ i.pendSV = j.pendSV
      /\ i.prio = j.prio /\ i.yieldPending = j.yieldPending
  BY <1>2 DEF Keeps, Fields
<1>6. i.pendedTicks \in Nat
  BY <1>2 DEF Stopped
<1> QED
  BY <1>4, <1>5, <1>6, <1>s DEF Stopped, Level, Topped, i

\* Every end of prvProcessTimerOrBlockTask().
LEMMA ResumeKnown ==
  ASSUME NEW j, Known(j), Stopped(j)
  PROVE  LET i == xTaskResumeAll(j)
         IN  /\ Known(i) /\ i.suspended = 0 /\ i.pendedTicks = 0 /\ i.pending = <<>>
             /\ TimerTask \in ReadyTasks(j) => Free(i)
             /\ Timed(j) => Steady(i, j)
<1> DEFINE i == xTaskResumeAll(j)
<1>1. Kern(j) /\ EndMark \notin Task /\ j.suspended = 1 /\ j.pendedTicks \in Nat
      /\ (j.pendSV \/ Level(j)) /\ Placed(j)
  BY TaskType DEF Known, Stopped
<1>2. /\ \E S \in SUBSET Task :
           /\ ReadyTasks(i) = ReadyTasks(j) \cup S
           /\ \A o \in Object : Members(i.waiting[o]) = Members(j.waiting[o]) \ S
           /\ Members(j.pending) \subseteq S
      /\ Kern(i) /\ Keeps(i, j, TimeFields \cup {"suspended", "pendSV"})
      /\ i.suspended = 0 /\ i.pendedTicks = 0 /\ i.pending = <<>>
      /\ Placed(i)
      /\ i.pendSV \/ Topped(i)
      /\ Timed(j) => Timed(i) /\ i.failed = j.failed
  BY <1>1, ResumeAllKernel
<1> HIDE DEF i
<1>3. i.prio = j.prio /\ i.notify = j.notify /\ i.value = j.value /\ i.pxCurrentTCB = j.pxCurrentTCB
  BY <1>2 DEF Keeps, Fields, TimeFields, StateLists
<1>4. PICK S \in SUBSET Task :
        /\ ReadyTasks(i) = ReadyTasks(j) \cup S
        /\ \A o \in Object : Members(i.waiting[o]) = Members(j.waiting[o]) \ S
        /\ Members(j.pending) \subseteq S
  BY <1>2
<1>5. Members(i.pending) = {}
  BY <1>2 DEF Members
<1>6. Known(i)
  <2>1. Kern(i) /\ Placed(i) /\ ReadyTasks(i) = ReadyTasks(j) \cup S
    BY <1>2, <1>4
  <2>2. /\ \A o \in Object : Members(i.waiting[o]) \subseteq Members(j.waiting[o]) \ S
        /\ Members(i.pending) \subseteq Members(j.pending)
        /\ Members(j.pending) \subseteq Members(i.pending) \cup S
    BY <1>4, <1>5
  <2> QED
    BY <1>3, <2>1, <2>2, KnownReady
<1>7. TimerTask \in ReadyTasks(j) => Free(i)
  BY <1>2, <1>3, <1>4 DEF Free, Chosen, Stopped
<1> QED
  BY <1>2, <1>6, <1>7 DEF i, Steady

\* vTaskSuspendAll() by the timer task.
LEMMA SuspendKnown ==
  ASSUME NEW j, Known(j), Free(j), ~j.pendSV, j.pxCurrentTCB = TimerTask
  PROVE  LET i == vTaskSuspendAll(j)
         IN  /\ Known(i) /\ Stopped(i) /\ TimerTask \in ReadyTasks(i) /\ Topped(i)
             /\ ReadyTasks(i) = ReadyTasks(j)
             /\ Steady(i, j)
<1> DEFINE i == vTaskSuspendAll(j)
<1>1. Kern(i) /\ Keeps(i, j, {"suspended"}) /\ i.suspended = 1
  <2>1. i = [j EXCEPT !.suspended = @ + 1]
    BY DEF vTaskSuspendAll
  <2> QED
    BY <2>1 DEF Known, Free, Kern, Keeps, Fields
<1> HIDE DEF i
<1>2. Keeps(i, j, Aside)
  BY <1>1 DEF Keeps, Aside
<1>s. Steady(i, j)
  BY <1>1, SteadyAside DEF Keeps, Untimed, Fields
<1>3. Known(i) /\ ReadyTasks(i) = ReadyTasks(j)
  BY <1>1, <1>2, KnownAside
<1>4. i.pendedTicks = j.pendedTicks /\ i.pxCurrentTCB = j.pxCurrentTCB /\ i.prio = j.prio
  BY <1>1 DEF Keeps, Fields
<1>5. TimerTask \in ReadyTasks(i) /\ Topped(i)
  BY <1>3, <1>4 DEF Free, Chosen, Topped
<1> QED
  BY <1>1, <1>3, <1>4, <1>5, <1>s DEF Free, Stopped, Level, i

\* It goes to wait for a command, with the scheduler suspended.
LEMMA PlaceKnown ==
  ASSUME NEW j, Known(j), Stopped(j), Topped(j), TimerTask \in ReadyTasks(j), NEW x, NEW b
  PROVE  LET i == vTaskPlaceOnEventListRestricted(j, TimerQueue, x, b)
         IN  /\ Known(i) /\ Stopped(i)
             /\ b \/ x \in Span \ {0} => Steady(i, j)
<1> DEFINE l == Append(j.waiting[TimerQueue], TimerTask)
           y == IF b THEN MaxDelay ELSE x
           u == [j EXCEPT !.waiting[TimerQueue] = l]
           i == vTaskPlaceOnEventListRestricted(j, TimerQueue, x, b)
<1>1. i = prvAddCurrentTaskToDelayedList(u, y)
  BY DEF vTaskPlaceOnEventListRestricted, Stopped
<1>2. l \in Lists(Task) /\ Members(l) = Members(j.waiting[TimerQueue]) \cup {TimerTask}
  <2>1. j.waiting[TimerQueue] \in Lists(Task) /\ TimerTask \notin Members(j.waiting[TimerQueue])
    BY TaskType DEF Known, Kern
  <2> QED
    BY <2>1, TaskType, AppendToList
<1>y. b \/ x \in Span \ {0} => y \in Span /\ y # 0
  BY SpanType
<1> HIDE DEF l, y
<1>3. /\ Kern(u) /\ Keeps(u, j, {"waiting"}) /\ u.waiting = [j.waiting EXCEPT ![TimerQueue] = l]
  BY <1>2, TaskType DEF Known, Kern, Keeps, Fields
<1> HIDE DEF u
<1>s. ASSUME b \/ x \in Span \ {0} PROVE Steady(i, j)
  <2>1. Steady(u, j)
    BY <1>3, SteadyAside DEF Keeps, Untimed, Fields
  <2>2. y \in Span /\ y # 0
    BY <1>s, <1>y
  <2>3. i.failed = u.failed /\ (Timed(u) => Timed(i))
    BY <1>1, <1>3, <2>2, TaskType, DelayTimed
  <2> HIDE DEF i
  <2> QED
    BY <2>1, <2>3 DEF Steady
<1> HIDE DEF i
<1>4. u.ready = j.ready /\ u.prio = j.prio /\ u.pxCurrentTCB = TimerTask
  BY <1>3 DEF Keeps, Fields, Stopped
<1>5. ReadyTasks(u) = ReadyTasks(j) /\ Placed(u)
  BY <1>4 DEF ReadyTasks, Placed, ReadyAt, Known
<1>6. /\ Kern(i) /\ Keeps(i, u, StateLists \cup {"nextUnblock"}) /\ Placed(i)
      /\ ReadyTasks(i) = ReadyTasks(j) \ {TimerTask}
  BY <1>1, <1>3, <1>4, <1>5, TaskType, DelayKernel, DelayPlaced
<1>7. /\ i.prio = j.prio /\ i.notify = j.notify /\ i.value = j.value /\ i.pending = j.pending
      /\ i.waiting = u.waiting /\ i.suspended = j.suspended /\ i.pendedTicks = j.pendedTicks
      /\ i.pxCurrentTCB = j.pxCurrentTCB
  BY <1>3, <1>6 DEF Keeps, Fields, StateLists
<1>8. /\ \A o \in Object : Members(i.waiting[o]) \subseteq Members(j.waiting[o]) \cup {TimerTask}
      /\ \A o \in Object \ {TimerQueue} : i.waiting[o] = j.waiting[o]
  BY <1>2, <1>3, <1>7 DEF Known, Kern
<1>9. Known(i)
  <2>1. /\ \A o \in Object : Members(i.waiting[o]) \subseteq {TimerTask} \ ReadyTasks(i)
        /\ \A o \in Object \ {TimerQueue} : Members(i.waiting[o]) = {}
    BY <1>6, <1>8 DEF Known
  <2>2. Idle \in ReadyTasks(i) /\ (Routing \in ReadyTasks(j) => Routing \in ReadyTasks(i))
    BY <1>6, TaskType DEF Known
  <2> QED
    BY <1>6, <1>7, <2>1, <2>2 DEF Known
<1>10. Topped(i)
  BY <1>6, <1>7 DEF Topped
<1> QED
  BY <1>7, <1>9, <1>10, <1>s DEF Stopped, Level, i

\* xQueueGenericSend() finds nobody who waits while the timer task is awake.
LEMMA NobodyWaits ==
  ASSUME NEW j, Known(j), TimerTask \in ReadyTasks(j)
  PROVE  AfterSend(j) = j
<1> DEFINE l == j.waiting[TimerQueue]
<1>1. l \in Lists(Task) /\ Members(l) = {}
  BY TaskType DEF Known, Kern
<1>2. l = <<>>
  <2> HIDE DEF l
  <2>1. l \in Seq(Task)
    BY <1>1 DEF Lists
  <2> QED
    BY <1>1, <2>1, NoMembers
<1> QED
  BY <1>2 DEF AfterSend

LEMMA SendKnown ==
  ASSUME NEW j, Known(j), Free(j), ~j.pendSV
  PROVE  /\ Known(AfterSend(j)) /\ Free(AfterSend(j))
         /\ Steady(AfterSend(j), j)
<1> DEFINE t == Head(j.waiting[TimerQueue])
           i == xTaskRemoveFromEventList(j, TimerQueue)
<1>1. CASE j.waiting[TimerQueue] = <<>>
  BY <1>1 DEF AfterSend, Steady
<1>2. CASE j.waiting[TimerQueue] # <<>>
  <2>1. AfterSend(j) = IF Outranks(j, t) THEN portYIELD(i) ELSE i
    BY <1>2 DEF AfterSend
  <2>2. /\ t \in Task /\ Kern(i) /\ Keeps(i, j, StateLists \cup {"waiting", "yieldPending"})
        /\ ReadyTasks(i) = ReadyTasks(j) \cup {t}
        /\ i.waiting = [j.waiting EXCEPT ![TimerQueue] = Tail(@)]
    <3>1. Kern(j) /\ j.suspended = 0 /\ EndMark \notin Task /\ TimerQueue \in Object
      BY TaskType DEF Known, Free
    <3> QED
      BY <1>2, <3>1, WakeKernel
  <2>3. i = Readied([j EXCEPT !.waiting[TimerQueue] = Tail(@), !.yieldPending = @ \/ Outranks(j, t)], t)
    BY DEF xTaskRemoveFromEventList, Free
  <2> DEFINE y == j.yieldPending \/ Outranks(j, t)
             l == Tail(j.waiting[TimerQueue])
             u == [j EXCEPT !.waiting[TimerQueue] = l, !.yieldPending = y]
  <2>4. j.waiting[TimerQueue] \in Lists(Task)
    BY TaskType DEF Known, Kern
  <2>5. l \in Lists(Task) /\ Members(l) = Members(j.waiting[TimerQueue]) \ {t}
    BY <1>2, <2>4, TailOfList
  <2>6. i = Readied(u, t)
    BY <2>3
  <2> HIDE DEF i, t, y, l
  <2>7. Kern(u) /\ u.ready = j.ready /\ u.prio = j.prio /\ Keeps(u, j, {"waiting", "yieldPending"})
    BY <2>5, TaskType DEF Known, Kern, Keeps, Fields
  <2> HIDE DEF u
  <2>8. Placed(i)
    <3>1. Placed(u)
      BY <2>7 DEF Known, Placed, ReadyAt
    <3> QED
      BY <2>2, <2>6, <2>7, <3>1, TaskType, ReadiedPlaced
  <2>s. Steady(i, j)
    <3>1. Steady(u, j)
      BY <2>7, SteadyAside DEF Keeps, Untimed, Fields
    <3>2. i.failed = u.failed /\ (Timed(u) => Timed(i))
      BY <2>2, <2>6, <2>7, TaskType, ReadiedTimed
    <3> QED
      BY <3>1, <3>2 DEF Steady
  <2>9. /\ i.prio = j.prio /\ i.notify = j.notify /\ i.value = j.value /\ i.pending = j.pending
        /\ i.suspended = j.suspended /\ i.pendedTicks = j.pendedTicks /\ i.pendSV = j.pendSV
        /\ i.pxCurrentTCB = j.pxCurrentTCB
    BY <2>2 DEF Keeps, Fields, StateLists
  <2>10. \A o \in Object : Members(i.waiting[o]) \subseteq Members(j.waiting[o]) \ {t}
    <3>1. t = TimerTask
      <4>1. t \in Members(j.waiting[TimerQueue])
        BY <1>2, <2>4, TailOfList DEF t
      <4> QED
        BY <4>1, TaskType DEF Known
    <3> SUFFICES ASSUME NEW o \in Object PROVE Members(i.waiting[o]) \subseteq Members(j.waiting[o]) \ {t}
      OBVIOUS
    <3>2. CASE o = TimerQueue
      <4>1. i.waiting[o] = l
        BY <2>2, <3>2 DEF Known, Kern, l
      <4> QED
        BY <2>5, <3>2, <4>1
    <3>3. CASE o # TimerQueue
      BY <2>2, <3>3 DEF Known, Kern
    <3> QED
      BY <3>2, <3>3
  <2>11. Known(i)
    BY <2>2, <2>8, <2>9, <2>10, KnownReady
  <2>12. i.suspended = 0 /\ i.pendedTicks = 0 /\ i.pending = <<>>
    BY <2>9 DEF Free
  <2>13. CASE Outranks(j, t)
    BY <2>1, <2>11, <2>12, <2>13, <2>s, YieldKnown DEF Steady
  <2>14. CASE ~Outranks(j, t)
    <3>1. j.prio[t] <= j.prio[j.pxCurrentTCB]
      BY <2>2, <2>14, NotOutranked DEF Known
    <3>2. Chosen(i)
      BY <2>2, <2>9, <3>1 DEF Free, Chosen, Topped
    <3> QED
      BY <2>1, <2>11, <2>12, <2>14, <2>s, <3>2 DEF Free
  <2> QED
    BY <2>13, <2>14
<1> QED
  BY <1>1, <1>2

-----------------------------------------------------------------------------
(***************************************************************************)
(* The notification of the RoutingTask.                                    *)
(***************************************************************************)
LEMMA NotifiedKernel ==
  ASSUME NEW j, Known(j)
  PROVE  LET i == Notified(j, Routing)
         IN  /\ Kern(i) /\ Keeps(i, j, {"notify", "value"})
             /\ i.notify[Routing] = "received" /\ i.value[Routing]
             /\ ReadyTasks(i) = ReadyTasks(j) /\ Placed(i)
<1> DEFINE v == j.value[Routing] \/ j.notify[Routing] # "received"
           i == Notified(j, Routing)
<1>1. i = [j EXCEPT !.notify[Routing] = "received", !.value[Routing] = v]
  BY DEF Notified
<1>2. v
  BY DEF Known
<1> HIDE DEF v, i
<1>3. /\ Kern(i) /\ Keeps(i, j, {"notify", "value"})
      /\ i.notify = [j.notify EXCEPT ![Routing] = "received"]
      /\ i.value = [j.value EXCEPT ![Routing] = v]
  BY <1>1 DEF Known, Kern, Keeps, Fields
<1>4. i.notify[Routing] = "received" /\ i.value[Routing]
  BY <1>2, <1>3, TaskType DEF Known, Kern
<1>5. i.ready = j.ready /\ i.prio = j.prio
  BY <1>3 DEF Keeps, Fields
<1>6. ReadyTasks(i) = ReadyTasks(j) /\ Placed(i)
  BY <1>5 DEF ReadyTasks, Placed, ReadyAt, Known
<1> QED
  BY <1>3, <1>4, <1>6 DEF i

\* It is notified, and made ready or put off for the end of the suspension.
LEMMA NotifiedKnown ==
  ASSUME NEW i, NEW j, NEW S, Known(j), Kern(i), Placed(i), i.prio = j.prio,
         i.notify[Routing] = "received", i.value[Routing],
         S \subseteq {Routing},
         ReadyTasks(i) = ReadyTasks(j) \cup S, i.waiting = j.waiting,
         Members(j.pending) \subseteq Members(i.pending), Members(i.pending) \subseteq {Routing},
         Routing \in ReadyTasks(i) \cup Members(i.pending)
  PROVE  Known(i)
<1>1. /\ Idle \in ReadyTasks(i)
      /\ \A o \in Object : Members(i.waiting[o]) \subseteq {TimerTask} \ ReadyTasks(i)
      /\ \A o \in Object \ {TimerQueue} : Members(i.waiting[o]) = {}
  BY TaskType DEF Known
<1> QED
  BY <1>1 DEF Known

\* xTaskGenericNotify() of the RoutingTask, also while the scheduler is suspended.
LEMMA NotifyKnown ==
  ASSUME NEW j, Known(j), Free(j) \/ Stopped(j)
  PROVE  LET i == xTaskGenericNotify(j, Routing)
         IN  /\ Known(i) /\ i.suspended = j.suspended
             /\ ReadyTasks(j) \subseteq ReadyTasks(i)
             /\ Free(j) => Free(i)
             /\ Stopped(j) => Stopped(i)
             /\ Steady(i, j)
<1> DEFINE n == Notified(j, Routing)
           c == configASSERT(n, \A o \in Object : Routing \notin Members(j.waiting[o]))
           r == Readied(c, Routing)
           i == xTaskGenericNotify(j, Routing)
<1>1. /\ Kern(n) /\ Keeps(n, j, {"notify", "value"})
      /\ n.notify[Routing] = "received" /\ n.value[Routing]
      /\ ReadyTasks(n) = ReadyTasks(j) /\ Placed(n)
  BY NotifiedKernel
<1>2. i = IF j.notify[Routing] # "waiting" THEN n
          ELSE IF Outranks(j, Routing) THEN portYIELD(r) ELSE r
  BY DEF xTaskGenericNotify
<1> HIDE DEF n
<1>3. /\ n.prio = j.prio /\ n.waiting = j.waiting /\ n.pending = j.pending
      /\ n.suspended = j.suspended /\ n.pendedTicks = j.pendedTicks /\ n.pendSV = j.pendSV
      /\ n.pxCurrentTCB = j.pxCurrentTCB /\ n.yieldPending = j.yieldPending
  BY <1>1 DEF Keeps, Fields
<1>s. Steady(n, j)
  BY <1>1, SteadyAside DEF Keeps, Untimed, Fields
<1>4. CASE j.notify[Routing] # "waiting"
  <2>1. i = n
    BY <1>2, <1>4
  <2>2. Known(n)
    BY <1>1, <1>3, <1>4 DEF Known
  <2>3. (Chosen(j) => Chosen(n)) /\ (Level(j) => Level(n))
    BY <1>1, <1>3 DEF Chosen, Level, Topped
  <2> QED
    BY <1>1, <1>3, <1>s, <2>1, <2>2, <2>3 DEF Free, Stopped
<1>5. CASE j.notify[Routing] = "waiting"
  <2>1. Kern(c) /\ Keeps(c, n, {}) /\ Placed(c) /\ c = n
    <3>1. \A o \in Object : Routing \notin Members(j.waiting[o])
      BY TaskType DEF Known
    <3>2. c = n
      BY <3>1 DEF configASSERT
    <3> HIDE DEF c
    <3> QED
      BY <1>1, <3>2 DEF Keeps
  <2> HIDE DEF c
  <2>2. /\ c.notify = n.notify /\ c.value = n.value /\ c.ready = n.ready
    BY <2>1 DEF Keeps, Fields
  <2>3. /\ Kern(r) /\ Keeps(r, c, StateLists) /\ Placed(r)
        /\ ReadyTasks(r) = ReadyTasks(c) \cup {Routing}
    BY <2>1, TaskType, ReadiedKernel, ReadiedTasks, ReadiedPlaced
  <2>s. Steady(r, j)
    <3>1. r.failed = c.failed /\ (Timed(c) => Timed(r))
      BY <2>1, TaskType, ReadiedTimed
    <3> HIDE DEF r
    <3> QED
      BY <1>s, <2>1, <3>1 DEF Steady
  <2>4. ReadyTasks(c) = ReadyTasks(n)
    BY <2>2 DEF ReadyTasks
  <2> HIDE DEF r
  <2>5. /\ r.prio = j.prio /\ r.waiting = j.waiting /\ r.pending = j.pending
        /\ r.suspended = j.suspended /\ r.pendedTicks = j.pendedTicks /\ r.pendSV = j.pendSV
        /\ r.pxCurrentTCB = j.pxCurrentTCB /\ r.yieldPending = j.yieldPending
        /\ r.notify = n.notify /\ r.value = n.value
    BY <1>3, <2>1, <2>3 DEF Keeps, Fields, StateLists
  <2>6. ReadyTasks(r) = ReadyTasks(j) \cup {Routing}
    BY <1>1, <2>3, <2>4
  <2>7. Known(r)
    <3>1. Members(r.pending) \subseteq {Routing}
      BY <2>5 DEF Known
    <3> QED
      BY <1>1, <2>3, <2>5, <2>6, <3>1, NotifiedKnown
  <2>8. CASE Outranks(j, Routing)
    <3>1. i = portYIELD(r)
      BY <1>2, <1>5, <2>8
    <3>2. Stopped(j) => Stopped(i)
      <4>1. Known(i) /\ i.suspended = r.suspended /\ i.pendSV = TRUE /\ i.pxCurrentTCB = r.pxCurrentTCB
        BY <2>7, <3>1, YieldKnown
      <4>2. i.pendedTicks = r.pendedTicks
        BY <2>3, <3>1 DEF portYIELD, Kern, Fields
      <4> QED
        BY <2>5, <4>1, <4>2 DEF Stopped
    <3>3. Known(i) /\ ReadyTasks(i) = ReadyTasks(r) /\ i.suspended = j.suspended
      BY <2>5, <2>7, <3>1, YieldKnown
    <3>s. Steady(i, j)
      BY <2>7, <2>s, <3>1, YieldKnown DEF Steady
    <3>4. Free(j) => Free(i)
      <4>1. Free(j) => r.suspended = 0 /\ r.pendedTicks = 0 /\ r.pending = <<>>
        BY <2>5 DEF Free
      <4> QED
        BY <2>7, <3>1, <4>1, YieldKnown
    <3> QED
      BY <2>6, <3>2, <3>3, <3>4, <3>s
  <2>9. CASE ~Outranks(j, Routing)
    <3>1. i = r
      BY <1>2, <1>5, <2>9
    <3>2. j.prio[Routing] <= j.prio[j.pxCurrentTCB]
      BY <2>9, TaskType, NotOutranked DEF Known
    <3>3. Topped(j) => Topped(r)
      BY <2>5, <2>6, <3>2 DEF Topped
    <3>4. (Chosen(j) => Chosen(r)) /\ (Level(j) => Level(r))
      BY <2>5, <2>6, <3>3 DEF Chosen, Level
    <3> QED
      BY <2>5, <2>6, <2>7, <2>s, <3>1, <3>4 DEF Free, Stopped
  <2> QED
    BY <2>8, <2>9
<1> QED
  BY <1>4, <1>5

\* xTaskGenericNotifyFromISR() of the RoutingTask, and the yield of its caller.
LEMMA NotifyIsrKnown ==
  ASSUME NEW j, Known(j), Free(j) \/ Stopped(j), NEW b
  PROVE  LET i == notifyFromISRWithWake(j, Routing, b)
         IN  /\ Known(i) /\ i.suspended = j.suspended
             /\ ReadyTasks(j) \subseteq ReadyTasks(i)
             /\ Free(j) => Free(i)
             /\ Stopped(j) => Stopped(i)
             /\ Steady(i, j)
<1> DEFINE n == Notified(j, Routing)
           l == Append(n.pending, Routing)
           r == IF j.suspended = 0 THEN Readied(n, Routing) ELSE [n EXCEPT !.pending = l]
           y == r.yieldPending \/ Outranks(j, Routing)
           u == [r EXCEPT !.yieldPending = y]
           m == xTaskGenericNotifyFromISR(j, Routing)
           i == notifyFromISRWithWake(j, Routing, b)
<1>1. /\ Kern(n) /\ Keeps(n, j, {"notify", "value"})
      /\ n.notify[Routing] = "received" /\ n.value[Routing]
      /\ ReadyTasks(n) = ReadyTasks(j) /\ Placed(n)
  BY NotifiedKernel
<1>2. m = IF j.notify[Routing] # "waiting" THEN n ELSE u
  BY DEF xTaskGenericNotifyFromISR
<1>3. i = IF WokenByIsr(j, Routing) \/ b THEN portYIELD(m) ELSE m
  BY DEF notifyFromISRWithWake
<1> HIDE DEF n, m, i, l
<1>4. /\ n.prio = j.prio /\ n.waiting = j.waiting /\ n.pending = j.pending
      /\ n.suspended = j.suspended /\ n.pendedTicks = j.pendedTicks /\ n.pendSV = j.pendSV
      /\ n.pxCurrentTCB = j.pxCurrentTCB /\ n.yieldPending = j.yieldPending
  BY <1>1 DEF Keeps, Fields
<1>s. Steady(n, j)
  BY <1>1, SteadyAside DEF Keeps, Untimed, Fields
\* Before the yield.
<1>5. /\ Known(m) /\ m.suspended = j.suspended /\ m.pendedTicks = j.pendedTicks
      /\ m.pxCurrentTCB = j.pxCurrentTCB
      /\ ReadyTasks(j) \subseteq ReadyTasks(m)
      /\ Free(j) => m.pending = <<>> /\ (WokenByIsr(j, Routing) \/ Chosen(m))
      /\ Stopped(j) => m.pendSV \/ Level(m)
      /\ Steady(m, j)
  <2>1. CASE j.notify[Routing] # "waiting"
    <3>1. m = n
      BY <1>2, <2>1
    <3>2. Known(n)
      BY <1>1, <1>4, <2>1 DEF Known
    <3>3. (Chosen(j) => Chosen(n)) /\ (Level(j) => Level(n))
      BY <1>1, <1>4 DEF Chosen, Level, Topped
    <3> QED
      BY <1>1, <1>4, <1>s, <3>1, <3>2, <3>3 DEF Free, Stopped
  <2>2. CASE j.notify[Routing] = "waiting" /\ j.suspended = 0
    <3>1. r = Readied(n, Routing) /\ m = u
      BY <1>2, <2>2
    <3> HIDE DEF r
    <3>2. /\ Kern(r) /\ Keeps(r, n, StateLists) /\ Placed(r)
          /\ ReadyTasks(r) = ReadyTasks(j) \cup {Routing}
      BY <1>1, <3>1, TaskType, ReadiedKernel, ReadiedTasks, ReadiedPlaced
    <3> HIDE DEF y
    <3>3. Kern(u) /\ Keeps(u, r, {"yieldPending"})
      BY <3>2 DEF Kern, Keeps, Fields
    <3> HIDE DEF u
    <3>4. /\ u.prio = j.prio /\ u.waiting = j.waiting /\ u.pending = j.pending
          /\ u.suspended = j.suspended /\ u.pendedTicks = j.pendedTicks /\ u.pendSV = j.pendSV
          /\ u.pxCurrentTCB = j.pxCurrentTCB /\ u.notify = n.notify /\ u.value = n.value
          /\ u.ready = r.ready /\ r.prio = j.prio
      BY <1>4, <3>2, <3>3 DEF Keeps, Fields, StateLists
    <3>5. ReadyTasks(u) = ReadyTasks(j) \cup {Routing} /\ Placed(u)
      BY <3>2, <3>4 DEF ReadyTasks, Placed, ReadyAt
    <3>6. Known(u)
      <4>1. Members(u.pending) \subseteq {Routing}
        BY <3>4 DEF Known
      <4> QED
        BY <1>1, <3>3, <3>4, <3>5, <4>1, NotifiedKnown
    <3>7. WokenByIsr(j, Routing) \/ (Chosen(j) => Chosen(u))
      <4>1. CASE Outranks(j, Routing)
        BY <2>2, <4>1 DEF WokenByIsr
      <4>2. CASE ~Outranks(j, Routing)
        <5>1. j.prio[Routing] <= j.prio[j.pxCurrentTCB]
          BY <4>2, TaskType, NotOutranked DEF Known
        <5> QED
          BY <3>4, <3>5, <5>1 DEF Chosen, Topped
      <4> QED
        BY <4>1, <4>2
    <3>8. ~Stopped(j)
      BY <2>2 DEF Stopped
    <3>s. Steady(u, j)
      <4>1. r.failed = n.failed /\ (Timed(n) => Timed(r))
        BY <1>1, <3>1, TaskType, ReadiedTimed
      <4>2. Steady(u, r)
        BY <3>3, SteadyAside DEF Keeps, Untimed, Fields
      <4> QED
        BY <1>s, <4>1, <4>2 DEF Steady
    <3> QED
      BY <3>1, <3>4, <3>5, <3>6, <3>7, <3>8, <3>s DEF Free
  <2>3. CASE j.notify[Routing] = "waiting" /\ j.suspended # 0
    <3>1. r = [n EXCEPT !.pending = l] /\ m = u
      BY <1>2, <2>3
    <3>2. l \in Lists(Task) /\ Members(l) = Members(j.pending) \cup {Routing}
      <4>1. n.pending \in Lists(Task) /\ Routing \notin Members(n.pending)
        BY <1>4, <2>3 DEF Known, Kern
      <4> QED
        BY <1>4, <4>1, TaskType, AppendToList DEF l
    <3> HIDE DEF r
    <3>3. /\ Kern(r) /\ Keeps(r, n, {"pending"}) /\ r.pending = l
      BY <1>1, <3>1, <3>2 DEF Kern, Keeps, Fields
    <3>4. r.yieldPending = j.yieldPending
      BY <1>4, <3>3 DEF Keeps, Fields
    <3>5. Kern(u) /\ Keeps(u, r, {"yieldPending"}) /\ (j.yieldPending => u.yieldPending)
      BY <3>3, <3>4 DEF Kern, Keeps, Fields
    <3> HIDE DEF u, y
    <3>6. /\ u.prio = j.prio /\ u.waiting = j.waiting /\ u.pending = l
          /\ u.suspended = j.suspended /\ u.pendedTicks = j.pendedTicks /\ u.pendSV = j.pendSV
          /\ u.pxCurrentTCB = j.pxCurrentTCB /\ u.notify = n.notify /\ u.value = n.value
          /\ u.ready = n.ready /\ n.prio = j.prio
      BY <1>4, <3>3, <3>5 DEF Keeps, Fields
    <3>7. ReadyTasks(u) = ReadyTasks(j) /\ Placed(u)
      BY <1>1, <3>6 DEF ReadyTasks, Placed, ReadyAt
    <3>8. Known(u)
      <4>1. Members(u.pending) \subseteq {Routing} /\ Members(j.pending) \subseteq Members(u.pending)
            /\ Routing \in Members(u.pending)
        BY <3>2, <3>6 DEF Known
      <4> DEFINE S == {}
      <4>2. ReadyTasks(u) = ReadyTasks(j) \cup S /\ S \subseteq {Routing}
        BY <3>7
      <4> HIDE DEF S
      <4> QED
        BY <1>1, <3>5, <3>6, <3>7, <4>1, <4>2, NotifiedKnown
    <3>9. j.pendSV \/ Level(j) => u.pendSV \/ Level(u)
      BY <3>5, <3>6, <3>7 DEF Level, Topped
    <3>10. ~Free(j)
      BY <2>3 DEF Free
    <3>s. Steady(u, j)
      <4>1. Steady(r, n) /\ Steady(u, r)
        BY <3>3, <3>5, SteadyAside DEF Keeps, Untimed, Fields
      <4> QED
        BY <1>s, <4>1 DEF Steady
    <3> QED
      BY <3>1, <3>6, <3>7, <3>8, <3>9, <3>10, <3>s DEF Stopped
  <2> QED
    BY <2>1, <2>2, <2>3
<1>6. CASE WokenByIsr(j, Routing) \/ b
  <2>1. i = portYIELD(m)
    BY <1>3, <1>6
  <2>2. Free(j) => m.suspended = 0 /\ m.pendedTicks = 0 /\ m.pending = <<>>
    BY <1>5 DEF Free
  <2>3. Stopped(j) => Stopped(m)
    BY <1>5 DEF Stopped
  <2>4. Steady(i, j)
    BY <1>5, <2>1, YieldKnown DEF Steady
  <2> QED
    BY <1>5, <2>1, <2>2, <2>3, <2>4, YieldKnown DEF i
<1>7. CASE ~(WokenByIsr(j, Routing) \/ b)
  <2>1. i = m
    BY <1>3, <1>7
  <2> QED
    BY <1>5, <1>7, <2>1 DEF Free, Stopped, i
<1> QED
  BY <1>6, <1>7

\* The RoutingTask goes to sleep, unless it was notified meanwhile.
LEMMA TakeKnown ==
  ASSUME NEW j, Known(j), Free(j), j.pxCurrentTCB = Routing, NEW x \in Span, x # 0
  PROVE  /\ Known(NotifyTake(j, x)) /\ Free(NotifyTake(j, x))
         /\ Steady(NotifyTake(j, x), j)
<1> DEFINE u == [j EXCEPT !.notify[Routing] = "waiting"]
           r == prvAddCurrentTaskToDelayedList(u, x)
<1>1. NotifyTake(j, x) = IF j.value[Routing] THEN j ELSE portYIELD(r)
  BY DEF NotifyTake
<1>2. Kern(u) /\ Keeps(u, j, {"notify"}) /\ u.notify[Routing] = "waiting"
  BY TaskType DEF Known, Kern, Keeps, Fields
<1> HIDE DEF u
<1>3. /\ u.ready = j.ready /\ u.prio = j.prio /\ u.pxCurrentTCB = Routing /\ u.pending = j.pending
      /\ u.waiting = j.waiting /\ u.suspended = 0 /\ u.pendedTicks = 0
  BY <1>2 DEF Keeps, Fields, Free
<1>4. ReadyTasks(u) = ReadyTasks(j) /\ Placed(u)
  BY <1>3 DEF ReadyTasks, Placed, ReadyAt, Known
<1>5. /\ Kern(r) /\ Keeps(r, u, StateLists \cup {"nextUnblock"}) /\ Placed(r)
      /\ ReadyTasks(r) = ReadyTasks(j) \ {Routing}
  BY <1>2, <1>3, <1>4, TaskType, DelayKernel, DelayPlaced
<1>s. Steady(r, j)
  <2>1. Steady(u, j)
    BY <1>2, SteadyAside DEF Keeps, Untimed, Fields
  <2>2. r.failed = u.failed /\ (Timed(u) => Timed(r))
    BY <1>2, TaskType, DelayTimed
  <2> HIDE DEF r
  <2> QED
    BY <2>1, <2>2 DEF Steady
<1> HIDE DEF r
<1>6. /\ r.prio = j.prio /\ r.pending = j.pending /\ r.waiting = j.waiting /\ r.suspended = 0
      /\ r.pendedTicks = 0 /\ r.notify = u.notify
  BY <1>3, <1>5 DEF Keeps, Fields, StateLists
<1>7. Known(r)
  <2>1. Idle \in ReadyTasks(r) /\ ReadyTasks(r) \subseteq ReadyTasks(j)
    BY <1>5, TaskType DEF Known
  <2>2. /\ \A o \in Object : Members(r.waiting[o]) \subseteq {TimerTask} \ ReadyTasks(r)
        /\ \A o \in Object \ {TimerQueue} : Members(r.waiting[o]) = {}
    BY <1>6, <2>1 DEF Known
  <2>3. Members(r.pending) = {}
    BY <1>6 DEF Free, Members
  <2> QED
    BY <1>2, <1>5, <1>6, <2>1, <2>2, <2>3 DEF Known
<1>8. Known(portYIELD(r)) /\ Free(portYIELD(r)) /\ Steady(portYIELD(r), j)
  BY <1>6, <1>7, <1>s, YieldKnown DEF Free, Steady
<1> QED
  BY <1>1, <1>8 DEF Steady

LEMMA TakenKnown ==
  ASSUME NEW j, Known(j), Free(j), ~j.pendSV, j.pxCurrentTCB = Routing
  PROVE  /\ Known(NotifyTaken(j)) /\ Free(NotifyTaken(j))
         /\ Steady(NotifyTaken(j), j)
<1> DEFINE i == NotifyTaken(j)
<1>1. Kern(i) /\ Keeps(i, j, {"notify", "value"}) /\ i.notify[Routing] = "none"
  <2>1. i = [j EXCEPT !.value[Routing] = FALSE, !.notify[Routing] = "none"]
    BY DEF NotifyTaken
  <2> HIDE DEF i
  <2>2. Kern(j) /\ Routing \in DOMAIN j.notify
    BY TaskType DEF Known, Kern
  <2>3. /\ Keeps(i, j, {"notify", "value"})
        /\ i.notify = [j.notify EXCEPT ![Routing] = "none"]
        /\ i.value = [j.value EXCEPT ![Routing] = FALSE]
    BY <2>1, <2>2 DEF Kern, Keeps, Fields
  <2> QED
    BY <2>2, <2>3 DEF Kern, Keeps, Fields
<1> HIDE DEF i
<1>2. /\ i.ready = j.ready /\ i.prio = j.prio /\ i.pxCurrentTCB = j.pxCurrentTCB /\ i.pending = j.pending
      /\ i.waiting = j.waiting /\ i.suspended = j.suspended /\ i.pendedTicks = j.pendedTicks
  BY <1>1 DEF Keeps, Fields
<1>s. Steady(i, j)
  BY <1>1, SteadyAside DEF Keeps, Untimed, Fields
<1>3. ReadyTasks(i) = ReadyTasks(j) /\ Placed(i)
  BY <1>2 DEF ReadyTasks, Placed, ReadyAt, Known
<1>4. Routing \in ReadyTasks(j) /\ Topped(j)
  BY DEF Free, Chosen
<1>5. Known(i)
  BY <1>1, <1>2, <1>3, <1>4 DEF Known
<1>6. Chosen(i)
  BY <1>2, <1>3, <1>4 DEF Chosen, Topped
<1> QED
  BY <1>2, <1>5, <1>6, <1>s DEF Free, i

-----------------------------------------------------------------------------
(***************************************************************************)
(* The invariant of the tasks.                                             *)
(***************************************************************************)
\* The timer task is where it has suspended the scheduler.
Held ==
  \/ tmr.at \in {"blocked", "resume", "expired"}
  \/ tmr.at \in {"switch", "reload"} /\ tmr.then = "resume"

Returns ==
  /\ DOMAIN tmr = {"at", "now", "next", "then", "timer", "msg"}
  /\ tmr.at \in {"switch", "reload"} => tmr.then \in {"resume", "command"}
  /\ tmr.at = "callback" => tmr.then = "receive"

RunsInv ==
  /\ Known(k) /\ Returns
  /\ ~Held => Free(k)
  /\ Held => Stopped(k)
  /\ Held /\ tmr.at # "blocked" => TimerTask \in ReadyTasks(k)

LEMMA InitLists ==
  /\ <<Routing, EndMark>> \in Rings /\ Members(<<Routing, EndMark>>) = {Routing, EndMark}
  /\ <<TimerTask, EndMark>> \in Rings /\ Members(<<TimerTask, EndMark>>) = {TimerTask, EndMark}
  /\ <<Console, Idle, EndMark>> \in Rings
  /\ Members(<<Console, Idle, EndMark>>) = {Console, Idle, EndMark}
  /\ <<>> \in Lists(Task) /\ Members(<<>>) = {}
<1>1. ASSUME NEW t \in Task
      PROVE  <<t, EndMark>> \in Rings /\ Members(<<t, EndMark>>) = {t, EndMark}
  <2> DEFINE l == <<t, EndMark>>
  <2>1. l \in Seq(Task \cup {EndMark}) /\ DOMAIN l = {1, 2} /\ l[1] = t /\ l[2] = EndMark /\ t # EndMark
    BY TaskType
  <2> HIDE DEF l
  <2>2. Once(l) /\ Members(l) = {t, EndMark}
    BY <2>1 DEF Once, Members
  <2> QED
    BY <2>1, <2>2 DEF Rings, Lists, l
<1>2. <<Console, Idle, EndMark>> \in Rings /\ Members(<<Console, Idle, EndMark>>) = {Console, Idle, EndMark}
  <2> DEFINE l == <<Console, Idle, EndMark>>
  <2>1. Console # Idle /\ Console # EndMark /\ Idle # EndMark
    BY DEF Console, Idle, EndMark
  <2>2. l \in Seq(Task \cup {EndMark}) /\ DOMAIN l = {1, 2, 3} /\ l[1] = Console /\ l[2] = Idle /\ l[3] = EndMark
    BY TaskType
  <2> HIDE DEF l
  <2>3. Once(l) /\ Members(l) = {Console, Idle, EndMark}
    BY <2>1, <2>2 DEF Once, Members
  <2> QED
    BY <2>2, <2>3 DEF Rings, Lists, l
<1>3. <<>> \in Lists(Task) /\ Members(<<>>) = {}
  BY DEF Lists, Once, Members
<1> QED
  BY <1>1, <1>2, <1>3, TaskType

LEMMA InitRuns == Init => RunsInv
<1> SUFFICES ASSUME Init PROVE RunsInv
  OBVIOUS
<1> DEFINE j == InitKernel
           of(p) == CASE p = BasePriority[Routing]   -> <<Routing, EndMark>>
                      [] p = BasePriority[TimerTask] -> <<TimerTask, EndMark>>
                      [] OTHER                       -> <<Console, Idle, EndMark>>
           w == [t \in Task |-> 0]
           q == [o \in Object |-> <<>>]
           s == [t \in Task |-> "none"]
           v == [t \in Task |-> FALSE]
           l == [p \in Priority |-> of(p)]
<1>1. /\ DOMAIN j = Fields
      /\ j.pxCurrentTCB = Routing /\ j.ready = l
      /\ j.delayed = <<>> /\ j.overflow = <<>> /\ j.wake = w
      /\ j.waiting = q /\ j.pending = <<>> /\ j.pendedTicks = 0 /\ j.suspended = 0
      /\ j.pendSV = FALSE /\ j.notify = s
      /\ j.value = v /\ j.prio = BasePriority
      /\ j.held = w
  BY DEF InitKernel, Fields
<1> HIDE DEF j
<1>2. \A p \in Priority : of(p) \in Rings
  BY InitLists
<1>3. /\ l \in [Priority -> Rings] /\ DOMAIN w = Task /\ w \in [Task -> Int]
      /\ DOMAIN s = Task /\ DOMAIN v = Task /\ \A o \in Object : q[o] = <<>>
      /\ q \in [Object -> Lists(Task)]
      /\ s[Routing] = "none"
  <2> HIDE DEF of
  <2> QED
    BY <1>2, InitLists, TaskType
<1>4. Kern(j)
  <2> HIDE DEF l, q, s, v, w
  <2> QED
    BY <1>1, <1>3, InitLists, TaskType DEF Kern
<1>5. /\ BasePriority[Console] = 0 /\ BasePriority[Idle] = 0
      /\ BasePriority[Routing] > BasePriority[TimerTask] /\ BasePriority[TimerTask] > 0
      /\ BasePriority[Routing] \in Nat /\ BasePriority[TimerTask] \in Nat
      /\ Task = {Routing, TimerTask, Console, Idle}
  BY TimerAssumption, KernelAssumption, TaskType
<1>6. ASSUME NEW p \in Priority
      PROVE  \/ p = BasePriority[Routing] /\ l[p] = <<Routing, EndMark>>
             \/ p = BasePriority[TimerTask] /\ l[p] = <<TimerTask, EndMark>>
             \/ p = 0 /\ l[p] = <<Console, Idle, EndMark>>
  BY <1>5 DEF Priority
<1>7. /\ BasePriority[Routing] \in Priority /\ l[BasePriority[Routing]] = <<Routing, EndMark>>
      /\ 0 \in Priority /\ l[0] = <<Console, Idle, EndMark>>
  BY <1>5 DEF Priority
<1> HIDE DEF l, q, s, v, w
<1>8. Placed(j)
  <2> SUFFICES ASSUME NEW p \in Priority, NEW x \in Members(l[p]), x # EndMark
               PROVE  BasePriority[x] = p
    BY <1>1 DEF Placed, ReadyAt
  <2> QED
    BY <1>5, <1>6, InitLists
<1>9. Routing \in ReadyTasks(j) /\ Idle \in ReadyTasks(j)
  BY <1>1, <1>7, InitLists, ReadyMember, TaskType
<1>10. Topped(j)
  <2>1. ReadyTasks(j) \subseteq Task
    BY <1>4, ReadyIsTask
  <2>2. \A t \in Task : BasePriority[t] <= BasePriority[Routing]
    BY <1>5
  <2> QED
    BY <1>1, <2>1, <2>2 DEF Topped
<1>11. Known(j) /\ Free(j)
  BY <1>1, <1>3, <1>4, <1>8, <1>9, <1>10, InitLists DEF Known, Free, Chosen
<1>12. Returns /\ ~Held
  BY DEF Init, Local, Returns, Held
<1>13. k = j
  BY DEF Init, j
<1> QED
  BY <1>11, <1>12, <1>13 DEF RunsInv

\* A step of the kernel that neither suspends the scheduler nor resumes it.
Kept ==
  /\ Known(k')
  /\ Free(k) => Free(k')
  /\ Stopped(k) => Stopped(k') /\ ReadyTasks(k) \subseteq ReadyTasks(k')

LEMMA KeptRuns ==
  ASSUME RunsInv, Kept, Returns', Held' <=> Held, (tmr.at = "blocked") <=> (tmr.at = "blocked")'
  PROVE  RunsInv'
BY DEF RunsInv, Kept

LEMMA UnchangedKept ==
  ASSUME RunsInv, UNCHANGED k
  PROVE  Kept /\ Steady(k', k)
BY DEF RunsInv, Kept, Steady

LEMMA CallsKept ==
  ASSUME RunsInv, NEW t, Calls(t)
  PROVE  Kept /\ Steady(k', k)
<1>1. CASE k' = k
  BY <1>1, UnchangedKept
<1>2. CASE k' = xTaskGenericNotify(k, Routing)
  <2>1. Known(k) /\ (Free(k) \/ Stopped(k))
    BY DEF RunsInv
  <2> QED
    BY <1>2, <2>1, NotifyKnown DEF Kept
<1> QED
  BY <1>1, <1>2 DEF Calls

LEMMA ResendKept ==
  ASSUME RunsInv, NEW m, Resend(m), TimerTask \in ReadyTasks(k)
  PROVE  /\ Kept /\ (Timed(k) => Timed(k'))
         /\ k'.failed => k.failed \/ ~Fits
<1>1. Known(k)
  BY DEF RunsInv
<1>2. k' = k \/ (k' = configASSERT(k, FALSE) /\ ~Fits)
  BY <1>1, NobodyWaits DEF Resend
<1>3. CASE k' = k
  BY <1>3, UnchangedKept
<1>4. CASE k' = configASSERT(k, FALSE) /\ ~Fits
  BY <1>1, <1>4, FailKnown DEF Kept
<1> QED
  BY <1>2, <1>3, <1>4

\* The timer task runs: it is ready, unless it is about to resume and to yield.
LEMMA TimerTaskRuns ==
  ASSUME RunsInv, Runs(TimerTask), tmr.at # "blocked"
  PROVE  TimerTask \in ReadyTasks(k)
<1>1. CASE Held
  BY <1>1 DEF RunsInv
<1>2. CASE ~Held
  BY <1>2 DEF RunsInv, Free, Chosen, Runs
<1> QED
  BY <1>1, <1>2

\* Any other task runs only while the scheduler works.
LEMMA OtherRuns ==
  ASSUME RunsInv, NEW t, Runs(t), t # TimerTask
  PROVE  ~Held /\ Free(k) /\ Known(k) /\ ~k.pendSV /\ k.pxCurrentTCB = t
BY DEF RunsInv, Stopped, Runs

-----------------------------------------------------------------------------
(***************************************************************************)
(* The steps.                                                              *)
(***************************************************************************)
LEMMA SuspendStep ==
  ASSUME RunsInv, prvProcessTimerOrBlockTask
  PROVE  RunsInv'
<1> DEFINE s == vTaskSuspendAll(k)
<1>1. ~Held /\ Known(k) /\ Free(k) /\ ~k.pendSV /\ k.pxCurrentTCB = TimerTask
  BY DEF prvProcessTimerOrBlockTask, At, Runs, RunsInv, Held
<1>2. Known(s) /\ Stopped(s) /\ TimerTask \in ReadyTasks(s) /\ Topped(s)
  BY <1>1, SuspendKnown
<1>3. \/ /\ k' = s
         /\ tmr' = [Local EXCEPT !.at = "switch", !.now = s.tick, !.then = "resume"]
      \/ \E next : k' = s /\ tmr' = [Local EXCEPT !.at = "expired", !.now = s.tick, !.next = next]
      \/ /\ k' = s \/ \E x, b : k' = vTaskPlaceOnEventListRestricted(s, TimerQueue, x, b)
         /\ Go("blocked")
  BY Zenon DEF prvProcessTimerOrBlockTask
<1> HIDE DEF s
<1>4. CASE k' = s /\ tmr' = [Local EXCEPT !.at = "switch", !.now = s.tick, !.then = "resume"]
  <2>1. Returns' /\ Held'
    BY <1>4 DEF Returns, Held, Local
  <2> QED
    BY <1>2, <1>4, <2>1 DEF RunsInv
<1>5. CASE \E next : k' = s /\ tmr' = [Local EXCEPT !.at = "expired", !.now = s.tick, !.next = next]
  <2>1. Returns' /\ Held'
    BY <1>5 DEF Returns, Held, Local
  <2> QED
    BY <1>2, <1>5, <2>1 DEF RunsInv
<1>6. CASE /\ k' = s \/ \E x, b : k' = vTaskPlaceOnEventListRestricted(s, TimerQueue, x, b)
           /\ Go("blocked")
  <2>1. Returns' /\ Held' /\ tmr'.at = "blocked"
    BY <1>6 DEF Returns, Held, Local, Go
  <2>2. Known(k') /\ Stopped(k')
    BY <1>2, <1>6, PlaceKnown
  <2> QED
    BY <2>1, <2>2 DEF RunsInv
<1> QED
  BY <1>3, <1>4, <1>5, <1>6

LEMMA ResumeStep ==
  ASSUME RunsInv, Blocked \/ Resume \/ ResumeExpired
  PROVE  RunsInv'
<1> DEFINE i == xTaskResumeAll(k)
<1>1. Known(k) /\ Stopped(k) /\ (tmr.at # "blocked" => TimerTask \in ReadyTasks(k))
  BY DEF Blocked, Resume, ResumeExpired, At, RunsInv, Held
<1>2. /\ Known(i) /\ i.suspended = 0 /\ i.pendedTicks = 0 /\ i.pending = <<>>
      /\ tmr.at # "blocked" => Free(i)
  BY <1>1, ResumeKnown
<1>3. CASE Blocked
  <2>1. k' = portYIELD(i) /\ Go("receive")
    BY <1>3 DEF Blocked, ResumeAndYield
  <2> HIDE DEF i
  <2>2. Known(k') /\ Free(k')
    BY <1>2, <2>1, YieldKnown
  <2>3. Returns' /\ ~Held'
    BY <2>1 DEF Returns, Held, Local, Go
  <2> QED
    BY <2>2, <2>3 DEF RunsInv
<1>4. CASE Resume
  <2>1. k' = i /\ tmr.at # "blocked"
    BY <1>4 DEF Resume, At
  <2>2. Returns' /\ ~Held'
    BY <1>4 DEF Resume, Returns, Held, Local, Go
  <2> HIDE DEF i
  <2> QED
    BY <1>2, <2>1, <2>2 DEF RunsInv
<1>5. CASE ResumeExpired
  <2>1. k' = i /\ tmr.at # "blocked"
    BY <1>5 DEF ResumeExpired, At
  <2>2. Returns' /\ ~Held'
    BY <1>5 DEF ResumeExpired, Returns, Held, KeepGo, RunsInv
  <2> HIDE DEF i
  <2> QED
    BY <1>2, <2>1, <2>2 DEF RunsInv
<1> QED
  BY <1>3, <1>4, <1>5

\* The steps of the timer task that serve a timer.
LEMMA ServeStep ==
  ASSUME RunsInv, prvProcessExpiredTimer \/ Callback
  PROVE  RunsInv'
<1>1. CASE prvProcessExpiredTimer
  <2>1. Runs(TimerTask) /\ tmr.at = "process"
    BY <1>1 DEF prvProcessExpiredTimer, At
  <2>2. \/ \E t : Calls(t) /\ Go("receive")
        \/ \E m, t : Resend(m) /\ tmr' = [Local EXCEPT !.at = "callback", !.timer = t, !.then = "receive"]
    BY <1>1, Zenon DEF prvProcessExpiredTimer
  <2>3. Kept
    <3>1. TimerTask \in ReadyTasks(k)
      BY <2>1, TimerTaskRuns
    <3> QED
      BY <2>2, <3>1, CallsKept, ResendKept
  <2>4. Returns' /\ ~Held /\ ~Held' /\ tmr'.at # "blocked"
    BY <2>1, <2>2 DEF Returns, Held, Local, Go
  <2> QED
    BY <2>1, <2>3, <2>4, KeptRuns
<1>2. CASE Callback
  <2>1. Kept
    BY <1>2, CallsKept DEF Callback
  <2>2. tmr.at = "callback" /\ Returns /\ tmr' = [tmr EXCEPT !.at = tmr.then, !.then = "none", !.timer = "none"]
    BY <1>2 DEF Callback, At, RunsInv
  <2>3. Returns' /\ ~Held /\ ~Held' /\ tmr'.at # "blocked"
    BY <2>2 DEF Returns, Held
  <2> QED
    BY <2>1, <2>2, <2>3, KeptRuns
<1> QED
  BY <1>1, <1>2

\* The steps that obey a command.
LEMMA ObeyStep ==
  ASSUME RunsInv, Receive \/ SampleTimeNow \/ StartTimer \/ Restart \/ StopTimer \/ ChangePeriod
  PROVE  RunsInv'
<1>1. Returns
  BY DEF RunsInv
<1>2. CASE Receive
  <2>1. Kept /\ tmr.at = "receive"
    BY <1>2, UnchangedKept DEF Receive, At
  <2>2. Go("next") \/ \E m : tmr' = [Local EXCEPT !.at = "time", !.msg = m]
    BY <1>2, Zenon DEF Receive
  <2>3. Returns' /\ ~Held /\ ~Held' /\ tmr'.at # "blocked"
    BY <2>1, <2>2 DEF Returns, Held, Local, Go
  <2> QED
    BY <2>1, <2>3, KeptRuns
<1>3. CASE SampleTimeNow
  <2>1. Kept /\ tmr.at = "time"
    BY <1>3, UnchangedKept DEF SampleTimeNow, At
  <2>2. \/ tmr' = [tmr EXCEPT !.at = "switch", !.now = k.tick, !.then = "command"]
        \/ tmr' = [tmr EXCEPT !.at = "command", !.now = k.tick]
    BY <1>3 DEF SampleTimeNow
  <2>3. Returns' /\ ~Held /\ ~Held' /\ tmr'.at # "blocked"
    BY <1>1, <2>1, <2>2 DEF Returns, Held
  <2> QED
    BY <2>1, <2>3, KeptRuns
<1>4. CASE StartTimer
  <2>1. tmr.at = "command" /\ (KeepGo("restart") \/ Go("receive"))
    BY <1>4 DEF StartTimer, At
  <2>2. Kept
    <3>1. (\E t : Calls(t)) \/ UNCHANGED k
      BY <1>4 DEF StartTimer
    <3> QED
      BY <3>1, CallsKept, UnchangedKept
  <2>3. Returns' /\ ~Held /\ ~Held' /\ tmr'.at # "blocked"
    BY <1>1, <2>1 DEF Returns, Held, KeepGo, Go, Local
  <2> QED
    BY <2>1, <2>2, <2>3, KeptRuns
<1>5. CASE Restart
  <2>1. tmr.at = "restart" /\ Go("receive") /\ Runs(TimerTask)
    BY <1>5 DEF Restart, At
  <2>2. Kept
    <3>1. TimerTask \in ReadyTasks(k)
      BY <2>1, TimerTaskRuns
    <3> QED
      BY <1>5, <3>1, ResendKept DEF Restart
  <2>3. Returns' /\ ~Held /\ ~Held' /\ tmr'.at # "blocked"
    BY <1>1, <2>1 DEF Returns, Held, Go, Local
  <2> QED
    BY <2>1, <2>2, <2>3, KeptRuns
<1>6. CASE StopTimer \/ ChangePeriod
  <2>1. tmr.at = "command" /\ Go("receive") /\ UNCHANGED k
    BY <1>6 DEF StopTimer, ChangePeriod, At
  <2>2. Returns' /\ ~Held /\ ~Held' /\ tmr'.at # "blocked"
    BY <1>1, <2>1 DEF Returns, Held, Go, Local
  <2> QED
    BY <2>1, <2>2, KeptRuns, UnchangedKept
<1> QED
  BY <1>2, <1>3, <1>4, <1>5, <1>6

\* The steps of prvSwitchTimerLists().
LEMMA SwitchStep ==
  ASSUME RunsInv, SwitchExpired \/ SwitchReload \/ Switched
  PROVE  RunsInv'
<1>1. Returns
  BY DEF RunsInv
<1>2. CASE SwitchExpired
  <2>1. tmr.at = "switch" /\ ((UNCHANGED tmr) \/ \E t : tmr' = [tmr EXCEPT !.at = "reload", !.timer = t])
    BY <1>2, Zenon DEF SwitchExpired, At
  <2>2. Kept
    <3>1. \E t : Calls(t)
      BY <1>2, Zenon DEF SwitchExpired
    <3> QED
      BY <3>1, CallsKept
  <2>3. Returns' /\ (Held' <=> Held) /\ tmr'.at # "blocked"
    BY <1>1, <2>1 DEF Returns, Held
  <2> QED
    BY <2>1, <2>2, <2>3, KeptRuns
<1>3. CASE SwitchReload
  <2>1. tmr.at = "reload" /\ Runs(TimerTask) /\ tmr' = [tmr EXCEPT !.at = "switch", !.timer = "none"]
    BY <1>3 DEF SwitchReload, At
  <2>2. Kept
    <3>1. TimerTask \in ReadyTasks(k)
      BY <2>1, TimerTaskRuns
    <3> QED
      BY <1>3, <3>1, ResendKept DEF SwitchReload
  <2>3. Returns' /\ (Held' <=> Held) /\ tmr'.at # "blocked"
    BY <1>1, <2>1 DEF Returns, Held
  <2> QED
    BY <2>1, <2>2, <2>3, KeptRuns
<1>4. CASE Switched
  <2>1. tmr.at = "switch" /\ UNCHANGED k /\ tmr' = [tmr EXCEPT !.at = tmr.then, !.then = "none"]
    BY <1>4 DEF Switched, At
  <2>2. Returns' /\ (Held' <=> Held) /\ tmr'.at # "blocked"
    BY <1>1, <2>1 DEF Returns, Held
  <2> QED
    BY <2>1, <2>2, KeptRuns, UnchangedKept
<1> QED
  BY <1>2, <1>3, <1>4

\* A sender of commands.
LEMMA CommandKept ==
  ASSUME RunsInv, NEW s \in {Routing, Console}, Runs(s), NEW m, xTimerGenericCommand(m)
  PROVE  Kept /\ Steady(k', k)
<1>1. Free(k) /\ Known(k) /\ ~k.pendSV
  BY OtherRuns, TaskType
<1>2. CASE k' = k
  BY <1>2, UnchangedKept
<1>3. CASE k' = AfterSend(k)
  <2>1. Known(k') /\ Free(k') /\ Steady(k', k)
    BY <1>1, <1>3, SendKnown
  <2>2. ~Stopped(k)
    BY <1>1 DEF Free, Stopped
  <2> QED
    BY <2>1, <2>2 DEF Kept
<1> QED
  BY <1>2, <1>3 DEF xTimerGenericCommand

\* The tasks that start and stop timers, and the idle task.
LEMMA UserKept ==
  ASSUME RunsInv, Users
  PROVE  Kept /\ Steady(k', k) /\ UNCHANGED tmr
<1>1. ASSUME NEW s \in Senders, NEW t \in Timer, Start(s, t) \/ Stop(s, t) \/ StartPeriod(s, t)
      PROVE  Kept /\ Steady(k', k) /\ UNCHANGED tmr
  <2>1. s \in {Routing, Console} /\ UNCHANGED tmr /\ Runs(s)
    BY <1>1, TaskType DEF Start, Stop, StartPeriod, TimersUnchanged, UserAt
  <2>2. (UNCHANGED k) \/ \E m : xTimerGenericCommand(m)
    BY <1>1 DEF Start, Stop, StartPeriod
  <2> QED
    BY <2>1, <2>2, CommandKept, UnchangedKept
<1>2. ASSUME NEW s \in Senders, StartAfterPeriod(s) \/ Send(s)
      PROVE  Kept /\ Steady(k', k) /\ UNCHANGED tmr
  <2>1. s \in {Routing, Console} /\ UNCHANGED tmr /\ Runs(s)
    BY <1>2, TaskType DEF StartAfterPeriod, Send, TimersUnchanged, UserAt
  <2>2. (UNCHANGED k) \/ \E m : xTimerGenericCommand(m)
    BY <1>2 DEF StartAfterPeriod, Send
  <2> QED
    BY <2>1, <2>2, CommandKept, UnchangedKept
<1>3. CASE WaitForNotify
  <2>1. Runs(Routing) /\ k' = NotifyTake(k, MaxDelay) /\ UNCHANGED tmr
    BY <1>3 DEF WaitForNotify, UserAt, TimersUnchanged
  <2>2. Free(k) /\ Known(k) /\ k.pxCurrentTCB = Routing
    BY <2>1, OtherRuns, TaskType
  <2>3. ~Stopped(k)
    BY <2>2 DEF Free, Stopped
  <2> QED
    BY <2>1, <2>2, <2>3, TakeKnown, SpanType DEF Kept
<1>4. CASE Awake
  <2>1. Runs(Routing) /\ k' = NotifyTaken(k) /\ UNCHANGED tmr
    BY <1>4 DEF Awake, UserAt, TimersUnchanged
  <2>2. Free(k) /\ Known(k) /\ ~k.pendSV /\ k.pxCurrentTCB = Routing
    BY <2>1, OtherRuns, TaskType
  <2>3. ~Stopped(k)
    BY <2>2 DEF Free, Stopped
  <2> QED
    BY <2>1, <2>2, <2>3, TakenKnown DEF Kept
<1>5. CASE IdleYields
  <2>1. Runs(Idle) /\ k' = portYIELD(k) /\ UNCHANGED tmr
    BY <1>5 DEF IdleYields, TimersUnchanged
  <2>2. Free(k) /\ Known(k)
    BY <2>1, OtherRuns, TaskType
  <2>3. ~Stopped(k) /\ k.suspended = 0 /\ k.pendedTicks = 0 /\ k.pending = <<>>
    BY <2>2 DEF Free, Stopped
  <2> QED
    BY <2>1, <2>2, <2>3, YieldKnown DEF Kept
<1> QED
  BY <1>1, <1>2, <1>3, <1>4, <1>5 DEF Users

\* The exceptions come between any two steps, also while the scheduler is suspended.
LEMMA ExceptionKept ==
  ASSUME RunsInv, PendSV \/ SysTick \/ BusIsr
  PROVE  Kept /\ (Timed(k) => Steady(k', k)) /\ UNCHANGED tmr
<1>1. Known(k) /\ (Free(k) \/ Stopped(k)) /\ ~(Free(k) /\ Stopped(k))
  BY DEF RunsInv, Free, Stopped
<1>2. UNCHANGED tmr
  BY DEF PendSV, SysTick, BusIsr
<1>3. CASE PendSV
  <2>1. k' = vTaskSwitchContext(k)
    BY <1>3 DEF PendSV
  <2>2. Free(k) => Known(k') /\ Free(k') /\ Steady(k', k)
    BY <1>1, <2>1, SwitchKnown
  <2>3. Stopped(k) => Known(k') /\ Stopped(k') /\ ReadyTasks(k') = ReadyTasks(k) /\ Steady(k', k)
    BY <1>1, <2>1, SwitchStopped
  <2>4. Kept
    BY <1>1, <2>2, <2>3 DEF Kept
  <2> QED
    BY <1>1, <1>2, <2>2, <2>3, <2>4
<1>4. CASE SysTick
  <2>1. k' = xPortSysTickHandler(k)
    BY <1>4 DEF SysTick
  <2>2. Free(k) => Known(k') /\ Free(k') /\ (Timed(k) => Steady(k', k))
    BY <1>1, <2>1, TickKnown
  <2>3. Stopped(k) => Known(k') /\ Stopped(k') /\ ReadyTasks(k') = ReadyTasks(k) /\ Steady(k', k)
    BY <1>1, <2>1, TickStopped
  <2>4. Kept
    BY <1>1, <2>2, <2>3 DEF Kept
  <2> QED
    BY <1>1, <1>2, <2>2, <2>3, <2>4
<1>5. CASE BusIsr
  <2>1. \E b : k' = notifyFromISRWithWake(k, Routing, b)
    BY <1>5, Zenon DEF BusIsr
  <2>2. Kept /\ Steady(k', k)
    BY <1>1, <2>1, NotifyIsrKnown DEF Kept
  <2> QED
    BY <1>2, <2>2
<1> QED
  BY <1>3, <1>4, <1>5

\* Whatever leaves the timer task where it is.
LEMMA AsideStep ==
  ASSUME RunsInv, Users \/ PendSV \/ SysTick \/ BusIsr
  PROVE  RunsInv'
<1>1. Kept /\ UNCHANGED tmr
  BY UserKept, ExceptionKept
<1>2. Returns' /\ (Held' <=> Held) /\ tmr'.at = tmr.at
  BY <1>1 DEF RunsInv, Returns, Held
<1> QED
  BY <1>1, <1>2, KeptRuns

LEMMA RunsStep == RunsInv /\ [Next]_vars => RunsInv'
<1> SUFFICES ASSUME RunsInv, [Next]_vars PROVE RunsInv'
  OBVIOUS
<1>1. CASE prvTimerTask
  BY <1>1, SuspendStep, ResumeStep, ServeStep, ObeyStep, SwitchStep DEF prvTimerTask
<1>2. CASE Users \/ PendSV \/ SysTick \/ BusIsr
  BY <1>2, AsideStep
<1>3. CASE UNCHANGED vars
  BY <1>3 DEF vars, RunsInv, Returns, Held
<1> QED
  BY <1>1, <1>2, <1>3 DEF Next

LEMMA RunsAlways == Spec => []RunsInv
<1>1. RunsInv /\ [Next]_vars => RunsInv'
  BY RunsStep
<1> QED
  BY InitRuns, <1>1, PTL DEF Spec

-----------------------------------------------------------------------------
(***************************************************************************)
(* The invariant of the timers, their commands and the tick count.         *)
(***************************************************************************)
Command ==
  {m \in [cmd : {"start", "stop", "period", "again"}, timer : Timer, value : Span] :
     m.cmd = "period" => m.value # 0}

\* While the tick count has not come round since the list of the timers was looked
\* at first, nothing can lie behind it.
Counted ==
  /\ timer \in [Timer -> [active : BOOLEAN, expiry : Span, period : Span \ {0}]]
  /\ current \in Lists(Timer) /\ overflow \in Lists(Timer)
  /\ lastTime \in Span
  /\ overflow # <<>> => lastTime # 0

Queued == timerQ \in Seq(Command) /\ Len(timerQ) <= QueueLength

\* The command that the timer task has received.
Received ==
  /\ tmr.at \in {"time", "command", "restart"} => tmr.msg \in Command
  /\ tmr.at \in {"switch", "reload"} /\ tmr.then = "command" => tmr.msg \in Command

\* The commands that are about to be sent.
Prepared ==
  /\ DOMAIN user = {Routing, Console}
  /\ \A s \in {Routing, Console} :
       /\ DOMAIN user[s] = {"at", "msg"}
       /\ user[s].at \in {"start", "send"} => user[s].msg \in Command /\ user[s].msg.cmd = "start"

\* The local variables of the timer task.
Locals ==
  /\ tmr.at = "reload" => tmr.timer \in Timer
  /\ tmr.at \in {"expired", "process"} => current # <<>> /\ tmr.next \in Span /\ tmr.now = lastTime
  /\ tmr.at = "command" => tmr.now = lastTime
  /\ tmr.at \in {"switch", "reload"} => tmr.now \in Span

TimeInv ==
  /\ Timed(k) /\ Counted /\ Queued /\ Received /\ Prepared /\ Locals
  /\ AssertOnlyWhenFull

LEMMA PeriodType ==
  ASSUME NEW t \in Timer
  PROVE  InitPeriod[t] \in Span \ {0} /\ NewPeriod[t] \in Span \ {0}
<1>1. InitPeriod[t] \in Nat \ {0} /\ NewPeriod[t] \in Nat \ {0} /\ MaxLate \in Nat
  BY TimerAssumption
<1>2. InitPeriod[t] + MaxLate < Ticks /\ NewPeriod[t] + MaxLate < Ticks /\ Ticks \in Nat
  BY TickRangeAssumption, KernelAssumption
<1> QED
  BY <1>1, <1>2 DEF Span

LEMMA InitTime == Init => TimeInv
<1> SUFFICES ASSUME Init PROVE TimeInv
  OBVIOUS
<1> DEFINE w == [t \in Task |-> 0]
<1>1. /\ k.tick = 0 /\ k.nextUnblock = MaxDelay /\ k.wake = w /\ k.delayed = <<>> /\ k.overflow = <<>>
      /\ k.failed = FALSE
  BY DEF Init, InitKernel
<1>2. w \in [Task -> Span]
  BY SpanType
<1> HIDE DEF w
<1>3. Timed(k)
  BY <1>1, <1>2, SpanType DEF Timed, Ordered, Sorted, Members
<1>4. Counted
  <2>1. timer \in [Timer -> [active : BOOLEAN, expiry : Span, period : Span \ {0}]]
    BY PeriodType, SpanType DEF Init
  <2>2. current = <<>> /\ overflow = <<>> /\ lastTime = 0
    BY DEF Init
  <2> QED
    BY <2>1, <2>2, SpanType DEF Counted, Lists, Once
<1>5. Queued
  BY TimerAssumption DEF Init, Queued
<1>6. Received /\ Locals
  BY DEF Init, Local, Received, Locals
<1>7. Prepared
  BY DEF Init, Prepared
<1> QED
  BY <1>1, <1>3, <1>4, <1>5, <1>6, <1>7 DEF TimeInv, AssertOnlyWhenFull

\* A command goes into the queue if it has room for it.
LEMMA QueueGrows ==
  ASSUME Queued, NEW m \in Command, timerQ' = IF Fits THEN Append(timerQ, m) ELSE timerQ
  PROVE  Queued' /\ (~Fits => Len(timerQ') = QueueLength)
<1>1. QueueLength \in Nat
  BY TimerAssumption
<1>2. CASE Fits
  BY <1>1, <1>2 DEF Queued, Fits
<1>3. CASE ~Fits
  BY <1>1, <1>3 DEF Queued, Fits
<1> QED
  BY <1>2, <1>3

LEMMA ResendTime ==
  ASSUME RunsInv, Timed(k), Queued, Runs(TimerTask), tmr.at # "blocked", NEW m \in Command, Resend(m)
  PROVE  Timed(k') /\ Queued' /\ (k'.failed => Len(timerQ') = QueueLength)
<1>1. TimerTask \in ReadyTasks(k)
  BY TimerTaskRuns
<1>2. Timed(k') /\ (k'.failed => k.failed \/ ~Fits)
  BY <1>1, ResendKept
<1>3. Queued' /\ (~Fits => Len(timerQ') = QueueLength)
  BY QueueGrows DEF Resend
<1> QED
  BY <1>2, <1>3 DEF Runs

\* A timer goes to a list.
LEMMA ListedLists ==
  ASSUME Counted, NEW w, NEW t \in Timer, NEW e, Listed(w, t, e)
  PROVE  /\ current' \in Lists(Timer) /\ overflow' \in Lists(Timer)
         /\ w # "overflow" /\ overflow = <<>> => overflow' = <<>>
<1> DEFINE v == [Expiry EXCEPT ![t] = e]
           c == uxListRemove(current, t)
           o == uxListRemove(overflow, t)
<1>1. /\ c \in Lists(Timer) /\ o \in Lists(Timer) /\ t \notin Members(c) /\ t \notin Members(o)
  BY RemoveFromList DEF Counted
<1>2. overflow = <<>> => o = <<>>
  BY DEF uxListRemove, Members
<1>3. /\ current' = IF w = "current" THEN vListInsert(c, t, v) ELSE c
      /\ overflow' = IF w = "overflow" THEN vListInsert(o, t, v) ELSE o
  BY DEF Listed
<1> HIDE DEF c, o, v
<1>4. vListInsert(c, t, v) \in Lists(Timer)
  BY <1>1, InsertSorted
<1>5. vListInsert(o, t, v) \in Lists(Timer)
  BY <1>1, InsertSorted
<1> QED
  BY <1>1, <1>2, <1>3, <1>4, <1>5

\* At the tick count 0 a timer is late by its whole period, or due before the tick
\* count comes round.
LEMMA InsertsAtZero ==
  ASSUME Counted, NEW t \in Timer, NEW v \in Span
  PROVE  Inserts(t, Later(v, timer[t].period), 0, v) # "overflow"
<1> DEFINE p == timer[t].period
           e == Later(v, p)
<1>1. p \in Span /\ p # 0
  BY DEF Counted
<1> HIDE DEF p
<1>2. /\ p \in Int /\ 0 <= p /\ p < Ticks /\ v \in Int /\ 0 <= v /\ v < Ticks
  BY <1>1, SpanMember, Zenon
<1>3. e = IF v + p < Ticks THEN v + p ELSE (v + p) - Ticks
  BY <1>1, LaterValue
<1> HIDE DEF e
<1>4. CASE e <= 0
  <2>1. v = Ticks - p /\ Ticks \in Nat
    BY <1>1, <1>2, <1>3, <1>4, SpanType
  <2>2. (0 - v) % Ticks = p
    <3>1. 0 - v = Ticks * (-1) + p /\ p \in 0..(Ticks - 1) /\ Ticks > 0
      BY <1>2, <2>1
    <3> QED
      BY <2>1, <3>1
  <2>3. (0 - v) % Ticks >= p
    BY <1>2, <2>2
  <2>4. Inserts(t, e, 0, v) = "over"
    BY <1>4, <2>3 DEF Inserts, p
  <2> QED
    BY <2>4 DEF e, p
<1>5. CASE ~(e <= 0)
  BY <1>5 DEF Inserts, e, p
<1> QED
  BY <1>4, <1>5

\* A timer has a new time: the lists keep to theirs.
LEMMA CountedListed ==
  ASSUME Counted, NEW w, NEW t \in Timer, NEW e \in Span, NEW p \in Span \ {0}, NEW b \in BOOLEAN,
         Listed(w, t, e),
         timer' = [timer EXCEPT ![t] = [active |-> b, expiry |-> e, period |-> p]],
         lastTime' = lastTime, lastTime = 0 => w # "overflow"
  PROVE  Counted'
<1>1. timer' \in [Timer -> [active : BOOLEAN, expiry : Span, period : Span \ {0}]]
  BY DEF Counted
<1>2. /\ current' \in Lists(Timer) /\ overflow' \in Lists(Timer)
      /\ w # "overflow" /\ overflow = <<>> => overflow' = <<>>
  BY ListedLists
<1> QED
  BY <1>1, <1>2 DEF Counted

\* The first of the list.
LEMMA HeadTimer ==
  ASSUME Counted, current # <<>>
  PROVE  /\ Head(current) \in Timer /\ HeadExpiry \in Span /\ Expiry \in [Timer -> Span]
         /\ timer[Head(current)].period \in Span \ {0} /\ timer[Head(current)].active \in BOOLEAN
<1>1. Head(current) \in Timer
  BY TailOfList DEF Counted
<1> QED
  BY <1>1 DEF Counted, HeadExpiry, Expiry

-----------------------------------------------------------------------------
(***************************************************************************)
(* The steps once more.                                                    *)
(***************************************************************************)
\* How long the timer task goes to sleep for: never for no time at all, and never
\* beyond the time the tick count comes round.
LEMMA SleepTime ==
  ASSUME Counted, NEW now \in Span, now >= lastTime,
         current # <<>> => HeadExpiry > now,
         current # <<>> \/ overflow # <<>>
  PROVE  ((IF current = <<>> THEN 0 ELSE HeadExpiry) - now) % Ticks \in Span \ {0}
<1>1. /\ now \in Int /\ 0 <= now /\ now < Ticks
      /\ lastTime \in Int /\ 0 <= lastTime
  BY SpanMember, Zenon DEF Counted
<1>2. Ticks \in Nat /\ Ticks > 0
  BY SpanType
<1>3. CASE current # <<>>
  <2> DEFINE h == HeadExpiry
  <2>1. h \in Int /\ 0 <= h /\ h < Ticks /\ h > now
    <3>1. h \in Span
      BY <1>3, HeadTimer
    <3> HIDE DEF h
    <3>2. h \in Int /\ 0 <= h /\ h < Ticks
      BY <3>1, SpanMember, Zenon
    <3> QED
      BY <1>3, <3>2 DEF h
  <2> HIDE DEF h
  <2>2. h - now \in 1..(Ticks - 1)
    BY <1>1, <1>2, <2>1
  <2>3. (h - now) % Ticks = h - now
    BY <1>2, <2>2
  <2> QED
    BY <1>2, <1>3, <2>2, <2>3 DEF Span, h
<1>4. CASE current = <<>>
  <2>1. now > 0
    BY <1>1, <1>4 DEF Counted
  <2>2. 0 - now = Ticks * (-1) + (Ticks - now) /\ Ticks - now \in 1..(Ticks - 1)
    BY <1>1, <1>2, <2>1
  <2>3. (0 - now) % Ticks = Ticks - now
    BY <1>2, <2>2
  <2> QED
    BY <1>2, <1>4, <2>2, <2>3 DEF Span
<1> QED
  BY <1>3, <1>4

LEMMA SuspendTime ==
  ASSUME RunsInv, TimeInv, prvProcessTimerOrBlockTask
  PROVE  TimeInv' /\ k'.failed = k.failed
<1> DEFINE s == vTaskSuspendAll(k)
           empty == current = <<>>
           next == IF empty THEN 0 ELSE HeadExpiry
           now == s.tick
           d == (next - now) % Ticks
           i == vTaskPlaceOnEventListRestricted(s, TimerQueue, d, empty /\ overflow = <<>>)
<1>1. ~Held /\ Known(k) /\ Free(k) /\ ~k.pendSV /\ k.pxCurrentTCB = TimerTask /\ ~k.failed
  BY DEF prvProcessTimerOrBlockTask, At, Runs, RunsInv, Held
<1>2. /\ Known(s) /\ Stopped(s) /\ TimerTask \in ReadyTasks(s) /\ Topped(s) /\ Steady(s, k)
  BY <1>1, SuspendKnown
<1>3. /\ UNCHANGED <<timer, current, overflow, timerQ, user>>
      /\ \/ /\ k' = s /\ UNCHANGED lastTime
            /\ tmr' = [Local EXCEPT !.at = "switch", !.now = now, !.then = "resume"]
         \/ /\ now >= lastTime /\ ~empty /\ k' = s /\ lastTime' = now
            /\ tmr' = [Local EXCEPT !.at = "expired", !.now = now, !.next = next]
         \/ /\ now >= lastTime /\ (empty \/ next > now) /\ (k' = s \/ k' = i)
            /\ lastTime' = now /\ Go("blocked")
  BY Zenon DEF prvProcessTimerOrBlockTask
<1>4. Timed(s) /\ ~s.failed /\ s.failed = k.failed /\ now \in Span
  BY <1>1, <1>2 DEF TimeInv, Steady, Timed, Ordered
<1>5. Counted
  BY DEF TimeInv
<1>6. ~empty => next \in Span
  BY <1>5, HeadTimer
<1>7. now >= lastTime /\ (empty \/ next > now) => Timed(i) /\ ~i.failed /\ i.failed = s.failed
  <2> SUFFICES ASSUME now >= lastTime, empty \/ next > now
               PROVE  Timed(i) /\ ~i.failed /\ i.failed = s.failed
    OBVIOUS
  <2>1. (empty /\ overflow = <<>>) \/ d \in Span \ {0}
    <3>1. current # <<>> => HeadExpiry > now
      OBVIOUS
    <3> HIDE DEF s
    <3> QED
      BY <1>4, <1>5, <3>1, SleepTime
  <2> HIDE DEF s, d, empty
  <2>2. Steady(i, s)
    BY <1>2, <2>1, PlaceKnown
  <2> QED
    BY <1>4, <2>2 DEF Steady
<1>8. now >= lastTime => (overflow # <<>> => now # 0)
  <2>1. lastTime \in Int /\ 0 <= lastTime /\ now \in Int
    BY <1>4, <1>5, SpanMember, Zenon DEF Counted
  <2> HIDE DEF s
  <2> QED
    BY <1>5, <2>1 DEF Counted
<1> HIDE DEF i, d, s
<1>9. Timed(k') /\ ~k'.failed /\ k'.failed = k.failed
  BY <1>3, <1>4, <1>7
<1>10. Counted'
  BY <1>3, <1>4, <1>5, <1>8 DEF Counted
<1>11. Queued' /\ Prepared'
  BY <1>3 DEF TimeInv, Queued, Prepared
<1>12. Received' /\ Locals'
  <2>1. CASE UNCHANGED lastTime /\ tmr' = [Local EXCEPT !.at = "switch", !.now = now, !.then = "resume"]
    BY <1>4, <2>1 DEF Local, Received, Locals
  <2>2. CASE ~empty /\ lastTime' = now /\ tmr' = [Local EXCEPT !.at = "expired", !.now = now, !.next = next]
    <3> HIDE DEF next
    <3> QED
      BY <1>3, <1>6, <2>2 DEF Local, Received, Locals
  <2>3. CASE Go("blocked")
    BY <2>3 DEF Go, Local, Received, Locals
  <2> HIDE DEF next, empty
  <2> QED
    BY <1>3, <2>1, <2>2, <2>3
<1> QED
  BY <1>9, <1>10, <1>11, <1>12 DEF TimeInv, AssertOnlyWhenFull

LEMMA SetExpiry ==
  ASSUME NEW r \in [active : BOOLEAN, expiry : Span, period : Span \ {0}], NEW e
  PROVE  /\ [r EXCEPT !.expiry = e] = [active |-> r.active, expiry |-> e, period |-> r.period]
         /\ [[r EXCEPT !.active = TRUE] EXCEPT !.expiry = e] = [active |-> TRUE, expiry |-> e, period |-> r.period]
<1> DEFINE Fs == {"active", "expiry", "period"}
           i == [r EXCEPT !.expiry = e]
           j == [[r EXCEPT !.active = TRUE] EXCEPT !.expiry = e]
           a == [active |-> r.active, expiry |-> e, period |-> r.period]
           b == [active |-> TRUE, expiry |-> e, period |-> r.period]
<1>1. /\ i = [f \in Fs |-> i[f]] /\ j = [f \in Fs |-> j[f]]
      /\ a = [f \in Fs |-> a[f]] /\ b = [f \in Fs |-> b[f]]
  OBVIOUS
<1>2. i.active = r.active /\ i.expiry = e /\ i.period = r.period
  OBVIOUS
<1>3. j.active = b.active /\ j.expiry = b.expiry /\ j.period = b.period
  OBVIOUS
<1>4. a.active = r.active /\ a.expiry = e /\ a.period = r.period
  OBVIOUS
<1> HIDE DEF i, j, a, b
<1>5. i = a
  BY <1>1, <1>2, <1>4
<1>6. j = b
  BY <1>1, <1>3
<1> QED
  BY <1>5, <1>6 DEF i, j, a, b

LEMMA TimeKept ==
  ASSUME TimeInv, ~k.failed, Steady(k', k), Counted', Queued', Received', Prepared', Locals'
  PROVE  TimeInv'
BY DEF TimeInv, Steady, AssertOnlyWhenFull

LEMMA ResumeTime ==
  ASSUME RunsInv, TimeInv, Blocked \/ Resume \/ ResumeExpired
  PROVE  TimeInv'
<1> DEFINE i == xTaskResumeAll(k)
<1>1. /\ Known(k) /\ Stopped(k) /\ ~k.failed /\ Timed(k)
      /\ UNCHANGED <<timer, current, overflow, lastTime, timerQ, user>>
  BY DEF Blocked, Resume, ResumeExpired, At, Runs, RunsInv, Held, TimeInv, timerVars
<1>2. Known(i) /\ Steady(i, k)
  BY <1>1, ResumeKnown
<1>3. k' = i \/ k' = portYIELD(i)
  BY DEF Blocked, Resume, ResumeExpired, ResumeAndYield
<1> HIDE DEF i
<1>4. Steady(k', k)
  BY <1>2, <1>3, YieldKnown DEF Steady
<1>5. Counted' /\ Queued' /\ Prepared'
  BY <1>1 DEF TimeInv, Counted, Queued, Prepared
<1>6. Received' /\ Locals'
  <2>1. CASE Go("receive")
    BY <2>1 DEF Go, Local, Received, Locals
  <2>2. CASE tmr.at = "expired" /\ KeepGo("process")
    <3>1. DOMAIN tmr = {"at", "now", "next", "then", "timer", "msg"}
      BY DEF RunsInv, Returns
    <3>2. tmr'.at = "process" /\ tmr'.next = tmr.next /\ tmr'.now = tmr.now
      BY <2>2, <3>1 DEF KeepGo
    <3>3. current # <<>> /\ tmr.next \in Span /\ tmr.now = lastTime
      BY <2>2 DEF TimeInv, Locals
    <3> QED
      BY <1>1, <3>2, <3>3 DEF Received, Locals
  <2> QED
    BY <2>1, <2>2 DEF Blocked, Resume, ResumeExpired, At
<1> QED
  BY <1>1, <1>4, <1>5, <1>6, TimeKept

\* The timer that is due goes on, from the time it was due at.
LEMMA ExpiredTime ==
  ASSUME RunsInv, TimeInv, prvProcessExpiredTimer
  PROVE  TimeInv'
<1> DEFINE t == Head(current)
           v == tmr.next
           p == timer[t].period
           e == Later(v, p)
           w == Inserts(t, e, tmr.now, v)
           m == Message("again", t, v)
<1>1. /\ Runs(TimerTask) /\ tmr.at = "process" /\ ~k.failed /\ current # <<>>
      /\ v \in Span /\ tmr.now = lastTime /\ Counted /\ Queued /\ Timed(k) /\ Prepared
  BY DEF prvProcessExpiredTimer, At, Runs, TimeInv, Locals
<1>2. t \in Timer /\ p \in Span \ {0} /\ timer[t].active \in BOOLEAN
  BY <1>1, HeadTimer
<1>3. e \in Span
  <2> HIDE DEF p, v
  <2> QED
    BY <1>1, <1>2, LaterType, SpanType
<1>4. /\ timer' = [timer EXCEPT ![t].expiry = e] /\ Listed(w, t, e)
      /\ lastTime' = lastTime /\ user' = user
      /\ \/ /\ Resend(m)
            /\ tmr' = [Local EXCEPT !.at = "callback", !.timer = t, !.then = "receive"]
         \/ Calls(t) /\ Go("receive") /\ timerQ' = timerQ
  BY Zenon DEF prvProcessExpiredTimer
<1>5. lastTime = 0 => w # "overflow"
  <2> SUFFICES ASSUME lastTime = 0 PROVE w # "overflow"
    OBVIOUS
  <2> HIDE DEF t, v
  <2>1. Inserts(t, Later(v, timer[t].period), 0, v) # "overflow"
    BY <1>1, <1>2, InsertsAtZero
  <2> QED
    BY <1>1, <2>1
<1>6. m \in Command
  <2> HIDE DEF t, v
  <2> QED
    BY <1>1, <1>2 DEF Command, Message
<1> HIDE DEF t, v, e, w, m
<1>7. timer' = [timer EXCEPT ![t] = [active |-> timer[t].active, expiry |-> e, period |-> p]]
  <2>1. [timer[t] EXCEPT !.expiry = e] = [active |-> timer[t].active, expiry |-> e, period |-> p]
    <3>1. timer[t] \in [active : BOOLEAN, expiry : Span, period : Span \ {0}]
      BY <1>1, <1>2 DEF Counted
    <3> QED
      BY <3>1, SetExpiry DEF p
  <2> QED
    BY <1>4, <2>1
<1> HIDE DEF p
<1>8. Counted'
  BY <1>1, <1>2, <1>3, <1>4, <1>5, <1>7, CountedListed
<1>9. Prepared'
  BY <1>1, <1>4 DEF Prepared
<1>10. CASE Resend(m) /\ tmr' = [Local EXCEPT !.at = "callback", !.timer = t, !.then = "receive"]
  <2>1. Timed(k') /\ Queued' /\ (k'.failed => Len(timerQ') = QueueLength)
    BY <1>1, <1>6, <1>10, ResendTime
  <2>2. Received' /\ Locals' /\ tmr'.at = "callback"
    BY <1>10 DEF Local, Received, Locals
  <2> QED
    BY <1>8, <1>9, <2>1, <2>2 DEF TimeInv, AssertOnlyWhenFull
<1>11. CASE Calls(t) /\ Go("receive") /\ timerQ' = timerQ
  <2>1. Steady(k', k)
    BY <1>11, CallsKept
  <2>2. Received' /\ Locals' /\ Queued'
    BY <1>1, <1>11 DEF Go, Local, Received, Locals, Queued
  <2> QED
    BY <1>1, <1>8, <1>9, <2>1, <2>2, TimeKept
<1> QED
  BY <1>4, <1>10, <1>11

LEMMA CallbackTime ==
  ASSUME RunsInv, TimeInv, Callback
  PROVE  TimeInv'
<1>1. /\ ~k.failed /\ tmr.at = "callback" /\ tmr' = [tmr EXCEPT !.at = tmr.then, !.then = "none", !.timer = "none"]
      /\ UNCHANGED <<timer, current, overflow, lastTime, timerQ, user>>
  BY DEF Callback, At, Runs, timerVars
<1>2. Steady(k', k)
  BY CallsKept DEF Callback
<1>3. tmr'.at = "receive"
  BY <1>1 DEF RunsInv, Returns
<1>4. Received' /\ Locals'
  BY <1>3 DEF Received, Locals
<1>5. Counted' /\ Queued' /\ Prepared'
  BY <1>1 DEF TimeInv, Counted, Queued, Prepared
<1> QED
  BY <1>1, <1>2, <1>4, <1>5, TimeKept

LEMMA ReceiveTime ==
  ASSUME RunsInv, TimeInv, Receive
  PROVE  TimeInv'
<1> DEFINE m == Head(timerQ)
<1>1. /\ ~k.failed /\ tmr.at = "receive" /\ Steady(k', k) /\ Counted /\ Queued /\ Prepared
      /\ UNCHANGED <<timer, lastTime, user>>
  BY UnchangedKept DEF Receive, At, Runs, TimeInv
<1>2. Prepared'
  BY <1>1 DEF Prepared
<1>3. CASE timerQ = <<>>
  <2>1. Go("next") /\ UNCHANGED <<timerQ, current, overflow>>
    BY <1>3 DEF Receive
  <2>2. Counted' /\ Queued' /\ Received' /\ Locals'
    BY <1>1, <2>1 DEF Counted, Queued, Go, Local, Received, Locals
  <2> QED
    BY <1>1, <1>2, <2>2, TimeKept
<1>4. CASE timerQ # <<>>
  <2>1. /\ timerQ' = Tail(timerQ) /\ tmr' = [Local EXCEPT !.at = "time", !.msg = m]
        /\ current' = uxListRemove(current, m.timer)
        /\ overflow' = uxListRemove(overflow, m.timer)
    BY <1>4 DEF Receive
  <2>2. m \in Command /\ Queued'
    BY <1>1, <1>4, <2>1, TimerAssumption DEF Queued
  <2>3. Counted'
    <3>1. current' \in Lists(Timer) /\ overflow' \in Lists(Timer)
      BY <1>1, <2>1, RemoveFromList DEF Counted
    <3>2. overflow = <<>> => overflow' = <<>>
      BY <2>1 DEF uxListRemove, Members
    <3> QED
      BY <1>1, <3>1, <3>2 DEF Counted
  <2>4. Received' /\ Locals'
    <3> HIDE DEF m
    <3> QED
      BY <2>1, <2>2 DEF Local, Received, Locals
  <2> QED
    BY <1>1, <1>2, <2>2, <2>3, <2>4, TimeKept
<1> QED
  BY <1>3, <1>4

LEMMA SampleTime ==
  ASSUME RunsInv, TimeInv, SampleTimeNow
  PROVE  TimeInv'
<1>1. /\ ~k.failed /\ tmr.at = "time" /\ Steady(k', k) /\ Counted /\ Queued /\ Prepared
      /\ UNCHANGED <<timer, current, overflow, timerQ, user>>
  BY UnchangedKept DEF SampleTimeNow, At, Runs, TimeInv
<1>2. k.tick \in Span /\ tmr.msg \in Command /\ DOMAIN tmr = {"at", "now", "next", "then", "timer", "msg"}
  BY <1>1 DEF TimeInv, Timed, Ordered, Received, RunsInv, Returns
<1>3. Queued' /\ Prepared'
  BY <1>1 DEF Queued, Prepared
<1>4. CASE k.tick < lastTime
  <2>1. tmr' = [tmr EXCEPT !.at = "switch", !.now = k.tick, !.then = "command"] /\ UNCHANGED lastTime
    BY <1>4 DEF SampleTimeNow
  <2>2. tmr'.at = "switch" /\ tmr'.now = k.tick /\ tmr'.msg = tmr.msg
    BY <1>2, <2>1
  <2>3. Received' /\ Locals' /\ Counted'
    BY <1>1, <1>2, <2>1, <2>2 DEF Received, Locals, Counted
  <2> QED
    BY <1>1, <1>3, <2>3, TimeKept
<1>5. CASE ~(k.tick < lastTime)
  <2>1. tmr' = [tmr EXCEPT !.at = "command", !.now = k.tick] /\ lastTime' = k.tick
    BY <1>5 DEF SampleTimeNow
  <2>2. tmr'.at = "command" /\ tmr'.now = k.tick /\ tmr'.msg = tmr.msg
    BY <1>2, <2>1
  <2>3. Received' /\ Locals'
    BY <1>2, <2>1, <2>2 DEF Received, Locals
  <2>4. lastTime # 0 => k.tick # 0
    <3> DEFINE n == k.tick
    <3>1. n \in Span /\ lastTime \in Span
      BY <1>1, <1>2 DEF Counted
    <3> HIDE DEF n
    <3>2. n \in Int /\ lastTime \in Int /\ 0 <= lastTime
      BY <3>1, SpanMember, Zenon
    <3> QED
      BY <1>5, <3>2 DEF n
  <2>5. Counted'
    BY <1>1, <1>2, <2>1, <2>4 DEF Counted
  <2> QED
    BY <1>1, <1>3, <2>3, <2>5, TimeKept
<1> QED
  BY <1>4, <1>5

\* A timer starts from the time of the command, or goes on from there.
LEMMA StartTime ==
  ASSUME RunsInv, TimeInv, StartTimer
  PROVE  TimeInv'
<1> DEFINE t == tmr.msg.timer
           v == tmr.msg.value
           p == timer[t].period
           e == Later(v, p)
           w == Inserts(t, e, tmr.now, v)
<1>1. /\ tmr.at = "command" /\ ~k.failed /\ tmr.msg \in Command
      /\ tmr.now = lastTime /\ Counted /\ Queued /\ Prepared
  BY DEF StartTimer, At, Runs, TimeInv, Locals, Received
<1>2. t \in Timer /\ v \in Span /\ p \in Span \ {0}
  BY <1>1 DEF Counted, Command
<1>3. e \in Span
  <2> HIDE DEF p, v
  <2> QED
    BY <1>2, LaterType, SpanType
<1>4. /\ timer' = [timer EXCEPT ![t].active = TRUE, ![t].expiry = e] /\ Listed(w, t, e)
      /\ lastTime' = lastTime /\ user' = user /\ timerQ' = timerQ
      /\ \/ KeepGo("restart") /\ Calls(t)
         \/ Go("receive") /\ UNCHANGED k
  BY Zenon DEF StartTimer
<1>5. lastTime = 0 => w # "overflow"
  <2> SUFFICES ASSUME lastTime = 0 PROVE w # "overflow"
    OBVIOUS
  <2> HIDE DEF t, v
  <2>1. Inserts(t, Later(v, timer[t].period), 0, v) # "overflow"
    BY <1>1, <1>2, InsertsAtZero
  <2> QED
    BY <1>1, <2>1
<1>6. Received' /\ Locals'
  <2>1. CASE KeepGo("restart")
    <3>1. tmr'.at = "restart" /\ tmr'.msg = tmr.msg
      BY <2>1 DEF KeepGo, RunsInv, Returns
    <3> QED
      BY <1>1, <3>1 DEF Received, Locals
  <2>2. CASE Go("receive")
    BY <2>2 DEF Go, Local, Received, Locals
  <2> QED
    BY <1>4, <2>1, <2>2
<1> HIDE DEF t, v, e, w
<1>7. timer' = [timer EXCEPT ![t] = [active |-> TRUE, expiry |-> e, period |-> p]]
  <2>1. [[timer[t] EXCEPT !.active = TRUE] EXCEPT !.expiry = e] = [active |-> TRUE, expiry |-> e, period |-> p]
    <3>1. timer[t] \in [active : BOOLEAN, expiry : Span, period : Span \ {0}]
      BY <1>1, <1>2 DEF Counted
    <3> QED
      BY <3>1, SetExpiry DEF p
  <2>2. timer' = [timer EXCEPT ![t] = [[timer[t] EXCEPT !.active = TRUE] EXCEPT !.expiry = e]]
    BY <1>1, <1>2, <1>4 DEF Counted
  <2> QED
    BY <2>1, <2>2
<1> HIDE DEF p
<1>8. Counted'
  BY <1>1, <1>2, <1>3, <1>4, <1>5, <1>7, CountedListed
<1>9. Prepared' /\ Queued'
  BY <1>1, <1>4 DEF Prepared, Queued
<1>10. Steady(k', k)
  BY <1>4, CallsKept, UnchangedKept
<1> QED
  BY <1>1, <1>6, <1>8, <1>9, <1>10, TimeKept

LEMMA RestartTime ==
  ASSUME RunsInv, TimeInv, Restart
  PROVE  TimeInv'
<1> DEFINE t == tmr.msg.timer
           v == Later(tmr.msg.value, timer[t].period)
           m == Message("again", t, v)
<1>1. /\ Runs(TimerTask) /\ tmr.at = "restart" /\ tmr.msg \in Command /\ Timed(k) /\ Queued /\ Counted
      /\ Resend(m) /\ Go("receive") /\ UNCHANGED <<timer, current, overflow, lastTime, user>>
  BY DEF Restart, At, TimeInv, Received, timerVars
<1>2. t \in Timer /\ v \in Span
  <2>1. t \in Timer /\ tmr.msg.value \in Span /\ timer[t].period \in Span
    BY <1>1 DEF Counted, Command
  <2> QED
    BY <2>1, LaterType, SpanType
<1>3. m \in Command
  <2> HIDE DEF t, v
  <2> QED
    BY <1>2 DEF Command, Message
<1> HIDE DEF m
<1>4. Timed(k') /\ Queued' /\ (k'.failed => Len(timerQ') = QueueLength)
  BY <1>1, <1>3, ResendTime
<1>5. Received' /\ Locals' /\ tmr'.at = "receive"
  BY <1>1 DEF Go, Local, Received, Locals
<1>6. Counted' /\ Prepared'
  BY <1>1 DEF TimeInv, Counted, Prepared
<1> QED
  BY <1>4, <1>5, <1>6 DEF TimeInv, AssertOnlyWhenFull

LEMMA StopTime ==
  ASSUME RunsInv, TimeInv, StopTimer
  PROVE  TimeInv'
<1>1. /\ ~k.failed /\ tmr.at = "command" /\ Steady(k', k) /\ Counted /\ Queued /\ Prepared /\ tmr.msg \in Command
      /\ UNCHANGED <<current, overflow, lastTime, timerQ, user>> /\ Go("receive")
      /\ timer' = [timer EXCEPT ![tmr.msg.timer].active = FALSE]
  BY UnchangedKept DEF StopTimer, At, Runs, TimeInv, Received
<1>2. tmr.msg.timer \in Timer
  BY <1>1 DEF Command
<1>3. Counted'
  BY <1>1, <1>2 DEF Counted
<1>4. Queued' /\ Prepared' /\ Received' /\ Locals'
  BY <1>1 DEF Queued, Prepared, Go, Local, Received, Locals
<1> QED
  BY <1>1, <1>3, <1>4, TimeKept

\* A new period starts at the time the timer task knows.
LEMMA PeriodTime ==
  ASSUME RunsInv, TimeInv, ChangePeriod
  PROVE  TimeInv'
<1> DEFINE t == tmr.msg.timer
           v == tmr.msg.value
           e == Later(tmr.now, v)
           w == IF e <= tmr.now THEN "overflow" ELSE "current"
<1>1. /\ tmr.at = "command" /\ ~k.failed /\ tmr.msg \in Command /\ tmr.msg.cmd = "period"
      /\ tmr.now = lastTime /\ Counted /\ Queued /\ Prepared /\ Steady(k', k)
  BY UnchangedKept DEF ChangePeriod, At, Runs, TimeInv, Locals, Received
<1>2. t \in Timer /\ v \in Span \ {0} /\ tmr.now \in Span
  BY <1>1 DEF Counted, Command
<1>3. e \in Span
  <2> HIDE DEF v
  <2> QED
    BY <1>2, LaterType, SpanType
<1>4. /\ timer' = [timer EXCEPT ![t] = [active |-> TRUE, expiry |-> e, period |-> v]] /\ Listed(w, t, e)
      /\ lastTime' = lastTime /\ user' = user /\ timerQ' = timerQ /\ Go("receive")
  BY Zenon DEF ChangePeriod
<1>5. lastTime = 0 => w # "overflow"
  <2> SUFFICES ASSUME lastTime = 0 PROVE ~(e <= tmr.now)
    OBVIOUS
  <2> HIDE DEF v
  <2>1. v \in Int /\ 0 <= v /\ v < Ticks /\ v # 0 /\ tmr.now = 0
    <3>1. v \in Span
      BY <1>2
    <3>2. v \in Int /\ 0 <= v /\ v < Ticks
      BY <3>1, SpanMember, Zenon
    <3> QED
      BY <1>1, <1>2, <3>2
  <2>2. e = v
    <3>1. Later(0, v) = IF 0 + v < Ticks THEN 0 + v ELSE (0 + v) - Ticks
      BY <1>2, LaterValue, SpanType
    <3> QED
      BY <2>1, <3>1
  <2> QED
    BY <2>1, <2>2
<1>6. Received' /\ Locals'
  BY <1>4 DEF Go, Local, Received, Locals
<1> HIDE DEF t, v, e, w
<1>7. Counted'
  BY <1>1, <1>2, <1>3, <1>4, <1>5, CountedListed
<1>8. Prepared' /\ Queued'
  BY <1>1, <1>4 DEF Prepared, Queued
<1> QED
  BY <1>1, <1>6, <1>7, <1>8, TimeKept


\* The lists are switched: what is left in the current one has expired.
LEMMA SwitchExpiredTime ==
  ASSUME RunsInv, TimeInv, SwitchExpired
  PROVE  TimeInv'
<1> DEFINE t == Head(current)
           x == Expiry[t]
           p == timer[t].period
           r == Later(x, p)
<1>1. /\ tmr.at = "switch" /\ ~k.failed /\ current # <<>> /\ tmr.now \in Span
      /\ (tmr.then = "command" => tmr.msg \in Command)
      /\ Counted /\ Queued /\ Prepared /\ DOMAIN tmr = {"at", "now", "next", "then", "timer", "msg"}
  BY DEF SwitchExpired, At, Runs, TimeInv, Locals, Received, RunsInv, Returns
<1>2. t \in Timer /\ x \in Span /\ p \in Span \ {0} /\ timer[t].active \in BOOLEAN
  BY <1>1, HeadTimer
<1>3. r \in Span
  <2> HIDE DEF p, x
  <2> QED
    BY <1>2, LaterType, SpanType
<1>4. /\ Calls(t) /\ UNCHANGED <<lastTime, timerQ, user>>
      /\ \/ /\ timer' = [timer EXCEPT ![t].expiry = r] /\ Listed("current", t, r) /\ UNCHANGED tmr
         \/ /\ current' = Tail(current) /\ tmr' = [tmr EXCEPT !.at = "reload", !.timer = t]
            /\ UNCHANGED <<timer, overflow>>
  BY Zenon DEF SwitchExpired
<1>5. Steady(k', k)
  BY <1>4, CallsKept
<1>6. Queued' /\ Prepared'
  BY <1>1, <1>4 DEF Queued, Prepared
<1>7. CASE timer' = [timer EXCEPT ![t].expiry = r] /\ Listed("current", t, r) /\ UNCHANGED tmr
  <2>1. [timer[t] EXCEPT !.expiry = r] = [active |-> timer[t].active, expiry |-> r, period |-> p]
    <3> HIDE DEF r, t
    <3>1. timer[t] \in [active : BOOLEAN, expiry : Span, period : Span \ {0}]
      BY <1>1, <1>2 DEF Counted
    <3> QED
      BY <3>1, SetExpiry DEF p
  <2> HIDE DEF t, p, r, x
  <2>2. timer' = [timer EXCEPT ![t] = [active |-> timer[t].active, expiry |-> r, period |-> p]]
    BY <1>7, <2>1
  <2>3. Counted'
    <3>1. "current" # "overflow"
      OBVIOUS
    <3> QED
      BY <1>1, <1>2, <1>3, <1>4, <1>7, <2>2, <3>1, CountedListed
  <2>4. Received' /\ Locals'
    BY <1>1, <1>7 DEF Received, Locals
  <2> QED
    BY <1>1, <1>5, <1>6, <2>3, <2>4, TimeKept
<1>8. CASE /\ current' = Tail(current) /\ tmr' = [tmr EXCEPT !.at = "reload", !.timer = t]
           /\ UNCHANGED <<timer, overflow>>
  <2>1. current' \in Lists(Timer)
    BY <1>1, <1>8, TailOfList DEF Counted
  <2>2. Counted'
    BY <1>1, <1>4, <1>8, <2>1 DEF Counted
  <2> HIDE DEF t
  <2>3. /\ tmr'.at = "reload" /\ tmr'.timer = t /\ tmr'.then = tmr.then /\ tmr'.msg = tmr.msg
        /\ tmr'.now = tmr.now
    BY <1>1, <1>8
  <2>4. Received' /\ Locals'
    BY <1>1, <1>2, <2>3 DEF Received, Locals
  <2> QED
    BY <1>1, <1>5, <1>6, <2>2, <2>4, TimeKept
<1> QED
  BY <1>4, <1>7, <1>8

LEMMA SwitchReloadTime ==
  ASSUME RunsInv, TimeInv, SwitchReload
  PROVE  TimeInv'
<1> DEFINE m == Message("again", tmr.timer, Expiry[tmr.timer])
<1>1. /\ Runs(TimerTask) /\ tmr.at = "reload" /\ tmr.now \in Span /\ tmr.timer \in Timer
      /\ (tmr.then = "command" => tmr.msg \in Command)
      /\ Counted /\ Queued /\ Timed(k) /\ DOMAIN tmr = {"at", "now", "next", "then", "timer", "msg"}
  BY DEF SwitchReload, At, TimeInv, Locals, Received, RunsInv, Returns
<1>2. /\ Resend(m) /\ tmr' = [tmr EXCEPT !.at = "switch", !.timer = "none"]
      /\ UNCHANGED <<timer, current, overflow, lastTime, user>>
  BY DEF SwitchReload, timerVars
<1>3. m \in Command
  <2>1. Expiry[tmr.timer] \in Span
    BY <1>1 DEF Counted, Expiry
  <2> QED
    BY <1>1, <2>1 DEF Command, Message
<1> HIDE DEF m
<1>4. Timed(k') /\ Queued' /\ (k'.failed => Len(timerQ') = QueueLength)
  BY <1>1, <1>2, <1>3, ResendTime
<1>5. tmr'.at = "switch" /\ tmr'.now = tmr.now /\ tmr'.then = tmr.then /\ tmr'.msg = tmr.msg
  BY <1>1, <1>2
<1>6. Received' /\ Locals'
  BY <1>1, <1>5 DEF Received, Locals
<1>7. Counted' /\ Prepared'
  BY <1>2 DEF TimeInv, Counted, Prepared
<1> QED
  BY <1>4, <1>5, <1>6, <1>7 DEF TimeInv, AssertOnlyWhenFull

LEMMA SwitchedTime ==
  ASSUME RunsInv, TimeInv, Switched
  PROVE  TimeInv'
<1>1. /\ tmr.at = "switch" /\ ~k.failed /\ tmr.now \in Span /\ tmr.then \in {"resume", "command"}
      /\ (tmr.then = "command" => tmr.msg \in Command) /\ Steady(k', k)
      /\ Counted /\ Queued /\ Prepared /\ DOMAIN tmr = {"at", "now", "next", "then", "timer", "msg"}
  BY UnchangedKept DEF Switched, At, Runs, TimeInv, Locals, Received, RunsInv, Returns
<1>2. /\ current' = overflow /\ overflow' = <<>> /\ lastTime' = tmr.now
      /\ UNCHANGED <<timer, timerQ, user>> /\ tmr' = [tmr EXCEPT !.at = tmr.then, !.then = "none"]
  BY DEF Switched
<1>3. tmr'.at = tmr.then /\ tmr'.now = tmr.now /\ tmr'.msg = tmr.msg
  BY <1>1, <1>2
<1>4. Received' /\ Locals'
  BY <1>1, <1>2, <1>3 DEF Received, Locals
<1>5. Counted'
  <2>1. <<>> \in Lists(Timer)
    BY DEF Lists, Once
  <2> QED
    BY <1>1, <1>2, <2>1 DEF Counted
<1>6. Queued' /\ Prepared'
  BY <1>1, <1>2 DEF Queued, Prepared
<1> QED
  BY <1>1, <1>4, <1>5, <1>6, TimeKept

\* A task that starts and stops timers: its commands are sound.
LEMMA UserTime ==
  ASSUME RunsInv, TimeInv, Users
  PROVE  TimeInv'
<1>1. /\ Steady(k', k) /\ UNCHANGED tmr /\ Counted /\ Queued /\ Prepared /\ Received /\ Locals
      /\ k.tick \in Span
  BY UserKept DEF TimeInv, Timed, Ordered
<1>2. ~k.failed /\ UNCHANGED <<timer, current, overflow, lastTime>>
  BY Zenon DEF Users, Start, Stop, StartPeriod, StartAfterPeriod, Send, WaitForNotify, Awake, IdleYields,
     UserAt, Runs, TimersUnchanged, timerVars
<1>3. Counted' /\ Received' /\ Locals'
  BY <1>1, <1>2 DEF Counted, Received, Locals
<1>4. ASSUME NEW m \in Command, xTimerGenericCommand(m)
      PROVE  Queued'
  BY <1>1, <1>4, QueueGrows DEF xTimerGenericCommand
<1>5. ASSUME NEW s \in Senders, NEW t \in Timer, Start(s, t) \/ Stop(s, t) \/ StartPeriod(s, t)
      PROVE  Queued' /\ Prepared'
  <2>1. s \in {Routing, Console} /\ Routing # Console
    BY TaskType
  <2>2. \A v \in Span : Message("start", t, v) \in Command /\ Message("stop", t, v) \in Command
    BY DEF Message, Command
  <2>3. Message("period", t, NewPeriod[t]) \in Command
    BY PeriodType DEF Message, Command
  <2>4. \A v : Message("start", t, v).cmd = "start"
    BY DEF Message
  <2>5. ASSUME NEW a \in {"send", "start"}, NEW v \in Span,
               user' = [user EXCEPT ![s] = [at |-> a, msg |-> Message("start", t, v)]]
        PROVE  Prepared'
    <3> DEFINE m == Message("start", t, v)
    <3>1. m \in Command /\ m.cmd = "start"
      BY <2>2, <2>4
    <3> HIDE DEF m
    <3>2. user' = [user EXCEPT ![s] = [at |-> a, msg |-> m]]
      BY <2>5 DEF m
    <3> QED
      BY <1>1, <2>1, <3>1, <3>2 DEF Prepared
  <2>6. CASE Start(s, t)
    <3>1. /\ user' = [user EXCEPT ![s] = [at |-> "send", msg |-> Message("start", t, k.tick)]]
          /\ timerQ' = timerQ
      BY <2>6 DEF Start
    <3> QED
      BY <1>1, <2>5, <3>1 DEF Queued
  <2>7. CASE Stop(s, t)
    <3>1. xTimerGenericCommand(Message("stop", t, 0)) /\ user' = user /\ 0 \in Span
      BY <2>7, SpanType DEF Stop
    <3> QED
      BY <1>1, <1>4, <2>2, <3>1 DEF Prepared
  <2>8. CASE StartPeriod(s, t)
    <3>1. /\ xTimerGenericCommand(Message("period", t, NewPeriod[t])) /\ 0 \in Span
          /\ user' = [user EXCEPT ![s] = [at |-> "start", msg |-> Message("start", t, 0)]]
      BY <2>8, SpanType DEF StartPeriod
    <3> QED
      BY <1>4, <2>3, <2>5, <3>1
  <2> QED
    BY <1>5, <2>6, <2>7, <2>8
<1>6. ASSUME NEW s \in Senders, StartAfterPeriod(s) \/ Send(s)
      PROVE  Queued' /\ Prepared'
  <2>1. s \in {Routing, Console} /\ Routing # Console
    BY TaskType
  <2>2. CASE StartAfterPeriod(s)
    <3> DEFINE m == [user[s].msg EXCEPT !.value = k.tick]
    <3>1. /\ user[s].at = "start" /\ timerQ' = timerQ
          /\ user' = [user EXCEPT ![s].at = "send", ![s].msg.value = k.tick]
      BY <2>2 DEF StartAfterPeriod, UserAt
    <3>2. user[s].msg \in Command /\ user[s].msg.cmd = "start" /\ DOMAIN user[s] = {"at", "msg"}
      BY <1>1, <2>1, <3>1 DEF Prepared
    <3>3. m \in Command /\ m.cmd = "start"
      BY <1>1, <3>2 DEF Command
    <3>4. /\ DOMAIN user' = {Routing, Console} /\ DOMAIN user'[s] = {"at", "msg"} /\ user'[s].msg = m
          /\ \A x \in {Routing, Console} \ {s} : user'[x] = user[x]
      BY <1>1, <2>1, <3>1, <3>2 DEF Prepared
    <3> HIDE DEF m
    <3>5. Prepared'
      BY <1>1, <2>1, <3>3, <3>4 DEF Prepared
    <3> QED
      BY <1>1, <3>1, <3>5 DEF Queued
  <2>3. CASE Send(s)
    <3>1. /\ user[s].at = "send" /\ xTimerGenericCommand(user[s].msg)
          /\ user' = [user EXCEPT ![s] = [at |-> "loop", msg |-> NoMessage]]
      BY <2>3 DEF Send, UserAt
    <3>2. user[s].msg \in Command
      BY <1>1, <2>1, <3>1 DEF Prepared
    <3>3. Prepared'
      BY <1>1, <2>1, <3>1 DEF Prepared
    <3> QED
      BY <1>4, <3>1, <3>2, <3>3
  <2> QED
    BY <1>6, <2>2, <2>3
<1>7. ASSUME WaitForNotify \/ Awake \/ IdleYields
      PROVE  Queued' /\ Prepared'
  <2>1. timerQ' = timerQ
    BY <1>7 DEF WaitForNotify, Awake, IdleYields
  <2>2. \/ user' = user
        \/ user' = [user EXCEPT ![Routing].at = "wait"]
        \/ user' = [user EXCEPT ![Routing].at = "loop"]
    BY <1>7 DEF WaitForNotify, Awake, IdleYields, UserGo
  <2>3. Prepared'
    BY <1>1, <2>2 DEF Prepared
  <2> QED
    BY <1>1, <2>1, <2>3 DEF Queued
<1>8. Queued' /\ Prepared'
  BY <1>5, <1>6, <1>7 DEF Users
<1> QED
  BY <1>1, <1>2, <1>3, <1>8, TimeKept

LEMMA ExceptionTime ==
  ASSUME RunsInv, TimeInv, PendSV \/ SysTick \/ BusIsr
  PROVE  TimeInv'
<1>1. ~k.failed /\ UNCHANGED <<timer, current, overflow, lastTime, timerQ, tmr, user>>
  BY Zenon DEF PendSV, SysTick, BusIsr, timerVars
<1>2. Steady(k', k)
  BY ExceptionKept DEF TimeInv
<1>3. Counted' /\ Queued' /\ Received' /\ Prepared' /\ Locals'
  BY <1>1 DEF TimeInv, Counted, Queued, Received, Prepared, Locals
<1> QED
  BY <1>1, <1>2, <1>3, TimeKept

LEMMA TimeStep == RunsInv /\ TimeInv /\ [Next]_vars => TimeInv'
<1> SUFFICES ASSUME RunsInv, TimeInv, [Next]_vars PROVE TimeInv'
  OBVIOUS
<1>1. CASE prvTimerTask
  BY <1>1, SuspendTime, ResumeTime, ExpiredTime, CallbackTime, ReceiveTime, SampleTime, StartTime,
     RestartTime, StopTime, PeriodTime, SwitchExpiredTime, SwitchReloadTime, SwitchedTime DEF prvTimerTask
<1>2. CASE Users \/ PendSV \/ SysTick \/ BusIsr
  BY <1>2, UserTime, ExceptionTime
<1>3. CASE UNCHANGED vars
  BY <1>3 DEF vars, timerVars, TimeInv, Counted, Queued, Received, Prepared, Locals, AssertOnlyWhenFull
<1> QED
  BY <1>1, <1>2, <1>3 DEF Next

LEMMA TimeAlways == Spec => [](RunsInv /\ TimeInv)
<1>1. Init => RunsInv /\ TimeInv
  BY InitRuns, InitTime
<1>2. RunsInv /\ TimeInv /\ [Next]_vars => RunsInv' /\ TimeInv'
  BY RunsStep, TimeStep
<1> QED
  BY <1>1, <1>2, PTL DEF Spec


-----------------------------------------------------------------------------
(***************************************************************************)
(* The theorems.                                                           *)
(***************************************************************************)
\* While the scheduler is not suspended and no switch is pending, the task that
\* runs is ready and no ready one outranks it: whatever a tick, a bus or a timer
\* made ready meanwhile, xTaskResumeAll() and the callers of the kernel see to it
\* that vTaskSwitchContext() is called.
THEOREM TheHighestRuns == Spec => []HighestRuns
<1>1. RunsInv => HighestRuns
  <2> SUFFICES ASSUME RunsInv, k.suspended = 0, ~k.pendSV
               PROVE  /\ k.pxCurrentTCB \in ReadyTasks(k)
                      /\ \A t \in ReadyTasks(k) : k.prio[t] <= k.prio[k.pxCurrentTCB]
    BY DEF HighestRuns
  <2>1. Free(k)
    BY DEF RunsInv, Stopped
  <2> QED
    BY <2>1 DEF Free, Chosen, Topped
<1> QED
  BY <1>1, RunsAlways, PTL

\* A notification of the RoutingTask that comes between its look at the queues and
\* its wait, while it waits, or while the scheduler is suspended, is not lost: until
\* it takes the notification it is ready, or in xPendingReadyList.
THEOREM ANotifiedTaskWakes == Spec => []NotifiedIsAwake
<1>1. RunsInv => NotifiedIsAwake
  BY DEF RunsInv, Known, NotifiedIsAwake
<1> QED
  BY <1>1, RunsAlways, PTL

\* Whatever delays xTaskIncrementTick(), the ticks that came while the scheduler was
\* suspended included, no task is left in a delayed list once its time has come: all
\* times in pxDelayedTaskList lie ahead, none before xNextTaskUnblockTime, and those
\* in pxOverflowDelayedTaskList lie beyond the next return of the tick count to zero.
THEOREM EachWakesInItsTick == Spec => []WokenInItsTick
<1>1. RunsInv /\ TimeInv => WokenInItsTick
  <2> SUFFICES ASSUME RunsInv, TimeInv, k.suspended = 0 PROVE WokenInItsTick
    BY DEF WokenInItsTick
  <2>1. Free(k)
    BY DEF RunsInv, Stopped
  <2> QED
    BY <2>1 DEF Free, TimeInv, Timed, WokenInItsTick
<1> QED
  BY <1>1, TimeAlways, PTL

\* The one assertion of the timer task that may fail is that of a command that it
\* sends to itself, and only with a full queue: no list of the kernel or of the
\* timers, no delay and no command of any task makes another one fail.
THEOREM FailsOnlyWhenFull == Spec => []AssertOnlyWhenFull
<1>1. TimeInv => AssertOnlyWhenFull
  BY DEF TimeInv
<1> QED
  BY <1>1, TimeAlways, PTL
=============================================================================
