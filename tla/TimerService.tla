---------------------------- MODULE TimerService ----------------------------
(***************************************************************************)
(* The software timers of FreeRTOS as the firmware uses them: auto-reload  *)
(* timers, commands that never wait for room in the queue, and the tasks   *)
(* of four priorities on one processor.                                    *)
(*                                                                         *)
(* The RoutingTask waits for its notification and then starts and stops    *)
(* timers as it likes; the ConsoleTask starts and stops them too, between  *)
(* two time slices of the idle task; the callbacks run in the timer task   *)
(* and notify the RoutingTask, as the receive handlers of the buses do.    *)
(* An interrupt may come between any two steps.  A step of a task is one   *)
(* critical section, with the private computations that go before it.      *)
(***************************************************************************)
EXTENDS Kernel

CONSTANTS
  Timer,         \* the timers
  InitPeriod,    \* xTimerPeriodInTicks of a timer when it is created
  NewPeriod,     \* the periods that Start(period) sets
  Notifying,     \* the timers whose callback notifies the RoutingTask
  QueueLength,   \* configTIMER_QUEUE_LENGTH
  Senders,       \* the tasks that start and stop timers
  MaxLate,       \* bound: ticks that the timer task may be kept waiting for
  MaxOps         \* bound: how often a timer is started or stopped

Routing   == "RoutingTask"
TimerTask == "Tmr Svc"
Console   == "ConsoleTask"
Idle      == "IDLE"
TimerQueue == "xTimerQueue"

\* A delay and what may be added to it stay below the range of the tick count.  "none"
\* is what tmr and the messages hold when they hold no timer.
ASSUME TimerAssumption ==
  /\ Task = {Routing, TimerTask, Console, Idle}
  /\ BasePriority[Routing] > BasePriority[TimerTask]
  /\ BasePriority[TimerTask] > BasePriority[Console]
  /\ BasePriority[Console] = BasePriority[Idle] /\ BasePriority[Idle] = 0
  /\ TimerQueue \in Object
  /\ Timer # {} /\ "none" \notin Timer
  /\ InitPeriod \in [Timer -> Nat \ {0}] /\ NewPeriod \in [Timer -> Nat \ {0}]
  /\ Notifying \subseteq Timer /\ Senders \subseteq {Routing, Console}
  /\ QueueLength \in Nat \ {0} /\ MaxLate \in Nat
ASSUME TickRangeAssumption ==
  \A t \in Timer : InitPeriod[t] + MaxLate < Ticks /\ NewPeriod[t] + MaxLate < Ticks

VARIABLES
  k,         \* the kernel
  timer,     \* of each timer: ucStatus, the item value of its list, its period
  current,   \* pxCurrentTimerList
  overflow,  \* pxOverflowTimerList
  lastTime,  \* xLastTime
  timerQ,    \* xTimerQueue
  tmr,       \* where the timer task is, and its local variables
  user,      \* the same of the tasks that start and stop timers
  ops,       \* how often they have done it
  rung       \* history: the number of calls of each callback, modulo 2

timerVars == <<timer, current, overflow, lastTime>>
vars == <<k, timerVars, timerQ, tmr, user, ops, rung>>

-----------------------------------------------------------------------------
Runs(t) == k.pxCurrentTCB = t /\ ~k.pendSV /\ ~k.failed

Expiry == [t \in Timer |-> timer[t].expiry]
HeadExpiry == Expiry[Head(current)]

Message(cmd, t, value) == [cmd |-> cmd, timer |-> t, value |-> value]
NoMessage == [cmd |-> "none", timer |-> "none", value |-> 0]

\* xTimerGenericCommand() without a wait: xQueueGenericSend().
Fits == Len(timerQ) < QueueLength
AfterSend(j) ==
  IF j.waiting[TimerQueue] = <<>> THEN j
  ELSE IF Outranks(j, Head(j.waiting[TimerQueue]))
       THEN portYIELD(xTaskRemoveFromEventList(j, TimerQueue))
       ELSE xTaskRemoveFromEventList(j, TimerQueue)

\* Mutant: a task that waits for the queue is not woken.
xTimerGenericCommandNoWake(m) ==
  /\ timerQ' = IF Fits THEN Append(timerQ, m) ELSE timerQ
  /\ UNCHANGED k

xTimerGenericCommand(m) ==
  /\ timerQ' = IF Fits THEN Append(timerQ, m) ELSE timerQ
  /\ k' = IF Fits THEN AfterSend(k) ELSE k

\* The timer task sends to itself, and asserts that there is room.
Resend(m) ==
  /\ timerQ' = IF Fits THEN Append(timerQ, m) ELSE timerQ
  /\ k' = IF Fits THEN AfterSend(k) ELSE configASSERT(k, FALSE)

-----------------------------------------------------------------------------
(***************************************************************************)
(* The timer task.  What it computes for itself is part of the step that   *)
(* goes before the next access to the kernel.                              *)
(***************************************************************************)
At(p) == Runs(TimerTask) /\ tmr.at = p

\* A local variable that is not read again has no value.
Local == [at |-> "next", now |-> 0, next |-> 0, then |-> "none", timer |-> "none", msg |-> NoMessage]
Go(at)     == tmr' = [Local EXCEPT !.at = at]
KeepGo(at) == tmr' = [tmr EXCEPT !.at = at]

\* prvInsertTimerInActiveList(): the list that the timer goes to, or that its
\* time is over already.
Inserts(t, expiry, now, commandTime) ==
  IF expiry <= now
  THEN IF (now - commandTime) % Ticks >= timer[t].period THEN "over" ELSE "overflow"
  ELSE IF now < commandTime /\ expiry >= commandTime THEN "over" ELSE "current"

\* The timer t goes to a list, from whatever list it was in.
Listed(where, t, expiry) ==
  LET e   == [Expiry EXCEPT ![t] = expiry]
      cur == uxListRemove(current, t)
      ovf == uxListRemove(overflow, t)
  IN  /\ current'  = IF where = "current"  THEN vListInsert(cur, t, e) ELSE cur
      /\ overflow' = IF where = "overflow" THEN vListInsert(ovf, t, e) ELSE ovf

\* pxCallbackFunction()
Calls(t) ==
  /\ k' = IF t \in Notifying THEN xTaskGenericNotify(k, Routing) ELSE k
  /\ rung' = [rung EXCEPT ![t] = ~@]

\* prvGetNextExpireTime() and prvProcessTimerOrBlockTask() up to the call of
\* xTaskResumeAll(): the scheduler is suspended meanwhile.
prvProcessTimerOrBlockTask ==
  /\ At("next")
  /\ LET s     == vTaskSuspendAll(k)
         empty == current = <<>>
         next  == IF empty THEN 0 ELSE HeadExpiry
         now   == s.tick
     IN  \/ /\ now < lastTime
            /\ k' = s
            /\ tmr' = [Local EXCEPT !.at = "switch", !.now = now, !.then = "resume"]
            /\ UNCHANGED lastTime
         \/ /\ now >= lastTime /\ ~empty /\ next <= now
            /\ k' = s
            /\ tmr' = [Local EXCEPT !.at = "expired", !.now = now, !.next = next]
            /\ lastTime' = now
         \/ /\ now >= lastTime /\ (empty \/ next > now)
            /\ k' = IF timerQ # <<>> THEN s
                    ELSE vTaskPlaceOnEventListRestricted(s, TimerQueue, (next - now) % Ticks,
                                                         empty /\ overflow = <<>>)
            /\ Go("blocked")
            /\ lastTime' = now
  /\ UNCHANGED <<timer, current, overflow, timerQ, user, ops, rung>>

\* Its three ends: only the one that waits yields.
Blocked ==
  /\ At("blocked")
  /\ k' = ResumeAndYield(k)
  /\ Go("receive")
  /\ UNCHANGED <<timerVars, timerQ, user, ops, rung>>

Resume ==
  /\ At("resume")
  /\ k' = xTaskResumeAll(k)
  /\ Go("receive")
  /\ UNCHANGED <<timerVars, timerQ, user, ops, rung>>

ResumeExpired ==
  /\ At("expired")
  /\ k' = xTaskResumeAll(k)
  /\ KeepGo("process")
  /\ UNCHANGED <<timerVars, timerQ, user, ops, rung>>

\* Mutant: the next period starts when the timer is looked at.
prvProcessExpiredTimerDrifts ==
  /\ At("process")
  /\ LET t == Head(current)
         e == Later(tmr.now, timer[t].period)
     IN  /\ timer' = [timer EXCEPT ![t].expiry = e]
         /\ Listed(Inserts(t, e, tmr.now, tmr.now), t, e)
         /\ Calls(t)
         /\ Go("receive")
  /\ UNCHANGED <<timerQ, lastTime, user, ops>>

\* prvProcessExpiredTimer(): late by a whole period it sends itself a command
\* before it calls the callback.
prvProcessExpiredTimer ==
  /\ At("process")
  /\ LET t == Head(current)
         e == Later(tmr.next, timer[t].period)
         w == Inserts(t, e, tmr.now, tmr.next)
     IN  /\ timer' = [timer EXCEPT ![t].expiry = e]
         /\ Listed(w, t, e)
         /\ IF w = "over"
            THEN /\ Resend(Message("again", t, tmr.next))
                 /\ tmr' = [Local EXCEPT !.at = "callback", !.timer = t, !.then = "receive"]
                 /\ UNCHANGED rung
            ELSE /\ Calls(t)
                 /\ Go("receive")
                 /\ UNCHANGED timerQ
  /\ UNCHANGED <<lastTime, user, ops>>

Callback ==
  /\ At("callback")
  /\ Calls(tmr.timer)
  /\ tmr' = [tmr EXCEPT !.at = tmr.then, !.then = "none", !.timer = "none"]
  /\ UNCHANGED <<timerVars, timerQ, user, ops>>

-----------------------------------------------------------------------------
\* prvProcessReceivedCommands(): the next command, and its timer leaves its list.
Receive ==
  /\ At("receive")
  /\ IF timerQ = <<>>
     THEN Go("next") /\ UNCHANGED <<timerQ, current, overflow>>
     ELSE /\ timerQ' = Tail(timerQ)
          /\ tmr' = [Local EXCEPT !.at = "time", !.msg = Head(timerQ)]
          /\ current' = uxListRemove(current, Head(timerQ).timer)
          /\ overflow' = uxListRemove(overflow, Head(timerQ).timer)
  /\ UNCHANGED <<k, timer, lastTime, user, ops, rung>>

\* prvSampleTimeNow(): the lists are switched before the command is obeyed.
SampleTimeNow ==
  /\ At("time")
  /\ IF k.tick < lastTime
     THEN /\ tmr' = [tmr EXCEPT !.at = "switch", !.now = k.tick, !.then = "command"]
          /\ UNCHANGED lastTime
     ELSE /\ tmr' = [tmr EXCEPT !.at = "command", !.now = k.tick]
          /\ lastTime' = k.tick
  /\ UNCHANGED <<k, timer, current, overflow, timerQ, user, ops, rung>>

\* tmrCOMMAND_START, tmrCOMMAND_START_DONT_TRACE
StartTimer ==
  /\ At("command") /\ tmr.msg.cmd \in {"start", "again"}
  /\ LET t == tmr.msg.timer
         e == Later(tmr.msg.value, timer[t].period)
         w == Inserts(t, e, tmr.now, tmr.msg.value)
     IN  /\ timer' = [timer EXCEPT ![t].active = TRUE, ![t].expiry = e]
         /\ Listed(w, t, e)
         /\ IF w = "over" THEN KeepGo("restart") /\ Calls(t)
                          ELSE Go("receive") /\ UNCHANGED <<k, rung>>
  /\ UNCHANGED <<timerQ, lastTime, user, ops>>

\* The command to go on after a callback that was late.
Restart ==
  /\ At("restart")
  /\ LET t == tmr.msg.timer
     IN  Resend(Message("again", t, Later(tmr.msg.value, timer[t].period)))
  /\ Go("receive")
  /\ UNCHANGED <<timerVars, user, ops, rung>>

\* tmrCOMMAND_STOP
StopTimer ==
  /\ At("command") /\ tmr.msg.cmd = "stop"
  /\ timer' = [timer EXCEPT ![tmr.msg.timer].active = FALSE]
  /\ Go("receive")
  /\ UNCHANGED <<k, current, overflow, timerQ, lastTime, user, ops, rung>>

\* tmrCOMMAND_CHANGE_PERIOD: from now on, not from the time of the command.
ChangePeriod ==
  /\ At("command") /\ tmr.msg.cmd = "period"
  /\ LET t == tmr.msg.timer
         e == Later(tmr.now, tmr.msg.value)
     IN  /\ timer' = [timer EXCEPT ![t] = [active |-> TRUE, expiry |-> e, period |-> tmr.msg.value]]
         /\ Listed(IF e <= tmr.now THEN "overflow" ELSE "current", t, e)
  /\ Go("receive")
  /\ UNCHANGED <<k, timerQ, lastTime, user, ops, rung>>

-----------------------------------------------------------------------------
(***************************************************************************)
(* prvSwitchTimerLists(): the tick count has come round.  What is left in  *)
(* the current list has expired, and is served first.                      *)
(***************************************************************************)
SwitchExpired ==
  /\ At("switch") /\ current # <<>>
  /\ LET t == Head(current)
         r == Later(Expiry[t], timer[t].period)
     IN  /\ Calls(t)
         /\ IF r > Expiry[t]
            THEN /\ timer' = [timer EXCEPT ![t].expiry = r]
                 /\ Listed("current", t, r)
                 /\ UNCHANGED tmr
            ELSE /\ current' = Tail(current)
                 /\ tmr' = [tmr EXCEPT !.at = "reload", !.timer = t]
                 /\ UNCHANGED <<timer, overflow>>
  /\ UNCHANGED <<lastTime, timerQ, user, ops>>

SwitchReload ==
  /\ At("reload")
  /\ Resend(Message("again", tmr.timer, Expiry[tmr.timer]))
  /\ tmr' = [tmr EXCEPT !.at = "switch", !.timer = "none"]
  /\ UNCHANGED <<timerVars, user, ops, rung>>

Switched ==
  /\ At("switch") /\ current = <<>>
  /\ current' = overflow
  /\ overflow' = current
  /\ lastTime' = tmr.now
  /\ tmr' = [tmr EXCEPT !.at = tmr.then, !.then = "none"]
  /\ UNCHANGED <<k, timer, timerQ, user, ops, rung>>

prvTimerTask ==
  \/ prvProcessTimerOrBlockTask \/ Blocked \/ Resume \/ ResumeExpired
  \/ prvProcessExpiredTimer \/ Callback
  \/ Receive \/ SampleTimeNow \/ StartTimer \/ Restart \/ StopTimer \/ ChangePeriod
  \/ SwitchExpired \/ SwitchReload \/ Switched

-----------------------------------------------------------------------------
(***************************************************************************)
(* The tasks that start and stop timers.                                   *)
(***************************************************************************)
UserAt(s, p) == Runs(s) /\ user[s].at = p
UserGo(s, p) == user' = [user EXCEPT ![s].at = p]
TimersUnchanged == UNCHANGED <<timerVars, tmr, rung>>

\* OsTimer::Start(): the time of the command is read first, and sent with it.
Start(s, t) ==
  /\ s \in Senders
  /\ UserAt(s, "loop") /\ ops < MaxOps /\ ops' = ops + 1
  /\ user' = [user EXCEPT ![s] = [at |-> "send", msg |-> Message("start", t, k.tick)]]
  /\ UNCHANGED <<k, timerQ>> /\ TimersUnchanged

\* OsTimer::Stop()
Stop(s, t) ==
  /\ s \in Senders
  /\ UserAt(s, "loop") /\ ops < MaxOps /\ ops' = ops + 1
  /\ xTimerGenericCommand(Message("stop", t, 0))
  /\ UNCHANGED user /\ TimersUnchanged

\* OsTimer::Start(period), which goes on with Start().
StartPeriod(s, t) ==
  /\ s \in Senders
  /\ UserAt(s, "loop") /\ ops < MaxOps /\ ops' = ops + 1
  /\ xTimerGenericCommand(Message("period", t, NewPeriod[t]))
  /\ user' = [user EXCEPT ![s] = [at |-> "start", msg |-> Message("start", t, 0)]]
  /\ TimersUnchanged

StartAfterPeriod(s) ==
  /\ UserAt(s, "start")
  /\ user' = [user EXCEPT ![s].at = "send", ![s].msg.value = k.tick]
  /\ UNCHANGED <<k, timerQ, ops>> /\ TimersUnchanged

Send(s) ==
  /\ UserAt(s, "send")
  /\ xTimerGenericCommand(user[s].msg)
  /\ user' = [user EXCEPT ![s] = [at |-> "loop", msg |-> NoMessage]]
  /\ UNCHANGED ops /\ TimersUnchanged

\* OsTask::waitForNotify() at the end of the loop, and when it comes back.
WaitForNotify ==
  /\ UserAt(Routing, "loop")
  /\ k' = NotifyTake(k, MaxDelay)
  /\ UserGo(Routing, "wait")
  /\ UNCHANGED <<timerQ, ops>> /\ TimersUnchanged

Awake ==
  /\ UserAt(Routing, "wait")
  /\ k' = NotifyTaken(k)
  /\ UserGo(Routing, "loop")
  /\ UNCHANGED <<timerQ, ops>> /\ TimersUnchanged

\* prvIdleTask(): it yields while another task of its priority is ready.
IdleYields ==
  /\ Runs(Idle)
  /\ Cardinality(ReadyAt(k, 0)) > 1
  /\ k' = portYIELD(k)
  /\ UNCHANGED <<timerQ, user, ops, rung>> /\ TimersUnchanged

Users ==
  \/ \E s \in Senders, t \in Timer : Start(s, t) \/ Stop(s, t) \/ StartPeriod(s, t)
  \/ \E s \in Senders : StartAfterPeriod(s) \/ Send(s)
  \/ WaitForNotify \/ Awake \/ IdleYields

-----------------------------------------------------------------------------
(***************************************************************************)
(* Exceptions.                                                             *)
(***************************************************************************)
\* xPortPendSVHandler()
PendSV ==
  /\ k.pendSV /\ ~k.failed
  /\ k' = vTaskSwitchContext(k)
  /\ UNCHANGED <<timerVars, timerQ, tmr, user, ops, rung>>

\* The distance from now to a time, negative when it is over.
Now == Later(k.tick, k.pendedTicks)
Left(time) ==
  LET d == (time - Now) % Ticks IN IF d < Ticks - MaxLate THEN d ELSE d - Ticks

\* The command that a timer is to go on with, if one is on its way.
Ours == IF tmr.msg.cmd = "none" THEN timerQ ELSE <<tmr.msg>> \o timerQ
Again(t) == {i \in DOMAIN Ours : Ours[i].timer = t /\ Ours[i].cmd = "again"}

\* Bound: a tick does not come while a timer, a command or the tick count itself
\* is MaxLate late.
InTime ==
  /\ k.pendedTicks < MaxLate
  /\ \A t \in Members(current) \cup Members(overflow) : Left(timer[t].expiry) > 0 - MaxLate
  /\ \A i \in DOMAIN Ours : Ours[i].cmd = "start" => Left(Ours[i].value) > 0 - MaxLate
  /\ \A t \in Timer : \A i \in Again(t) :
       Left(Later(Ours[i].value, timer[t].period)) > 0 - MaxLate
  /\ \A i \in DOMAIN Ours : Ours[i].cmd = "again" => (Now - Ours[i].value) % Ticks < MaxDelay
  /\ \A s \in Senders : user[s].at = "send" => Left(user[s].msg.value) > 0 - MaxLate
  /\ tmr.at = "reload" => Left(Expiry[tmr.timer]) > 0 - MaxLate
  /\ tmr.at \in {"command", "process", "switch", "reload"} => Left(tmr.now) > 0 - MaxLate

\* xPortSysTickHandler()
SysTick ==
  /\ ~k.failed /\ InTime
  /\ k' = xPortSysTickHandler(k)
  /\ UNCHANGED <<timerVars, timerQ, tmr, user, ops, rung>>

\* The receive handler of a bus, where it changes anything.
BusIsr ==
  /\ ~k.failed
  /\ \E uninitialised \in (IF WokenByIsr(k, Routing) THEN {TRUE} ELSE BOOLEAN) :
       k' = notifyFromISRWithWake(k, Routing, uninitialised)
  /\ k' # k
  /\ UNCHANGED <<timerVars, timerQ, tmr, user, ops, rung>>

-----------------------------------------------------------------------------
\* vTaskStartScheduler(): the RoutingTask is the first to run.
InitKernel ==
  [pxCurrentTCB |-> Routing,
   ready |-> [p \in Priority |-> CASE p = BasePriority[Routing]   -> <<Routing, EndMark>>
                                   [] p = BasePriority[TimerTask] -> <<TimerTask, EndMark>>
                                   [] OTHER                       -> <<Console, Idle, EndMark>>],
   delayed |-> <<>>, overflow |-> <<>>, wake |-> [t \in Task |-> 0],
   waiting |-> [o \in Object |-> <<>>], pending |-> <<>>,
   tick |-> 0, nextUnblock |-> MaxDelay, pendedTicks |-> 0, suspended |-> 0,
   yieldPending |-> FALSE, pendSV |-> FALSE,
   notify |-> [t \in Task |-> "none"], value |-> [t \in Task |-> FALSE],
   prio |-> BasePriority, held |-> [t \in Task |-> 0], failed |-> FALSE]

Init ==
  /\ k = InitKernel
  /\ timer = [t \in Timer |-> [active |-> FALSE, expiry |-> 0, period |-> InitPeriod[t]]]
  /\ current = <<>> /\ overflow = <<>> /\ lastTime = 0
  /\ timerQ = <<>>
  /\ tmr = Local
  /\ ops = 0
  /\ rung = [t \in Timer |-> FALSE]
  /\ user = [s \in {Routing, Console} |-> [at |-> "loop", msg |-> NoMessage]]

Next == prvTimerTask \/ Users \/ PendSV \/ SysTick \/ BusIsr

Spec == Init /\ [][Next]_vars

-----------------------------------------------------------------------------
(***************************************************************************)
(* The abstract timers.  A callback that a step calls before or after it   *)
(* sends the command to go on counts at the time of the command.           *)
(***************************************************************************)
Since(time) == (Now - time) % Ticks

AbstractCommand(m) ==
  CASE m.cmd \in {"start", "again"} -> [cmd |-> m.cmd, timer |-> m.timer, age |-> Since(m.value)]
    [] m.cmd = "stop"               -> [cmd |-> m.cmd, timer |-> m.timer]
    [] m.cmd = "period"             -> [cmd |-> m.cmd, timer |-> m.timer, period |-> m.value]

\* The timer whose callback and whose command to go on are not both done.
Between ==
  CASE tmr.at \in {"callback", "reload"} -> tmr.timer
    [] tmr.at = "restart"                -> tmr.msg.timer
    [] OTHER                             -> "none"

Running(t) ==
  t \in Members(current) \cup Members(overflow) \/ (tmr.at = "reload" /\ tmr.timer = t)

Promised == INSTANCE Timers WITH
  Period <- {InitPeriod[t] : t \in Timer} \cup {NewPeriod[t] : t \in Timer},
  MaxAge <- Ticks - 1,
  cmds   <- [i \in DOMAIN Ours |-> AbstractCommand(Ours[i])],
  due    <- [t \in {u \in Timer : Running(u)} |-> Left(Expiry[t])],
  period <- [t \in Timer |-> timer[t].period],
  rung   <- [t \in Timer |-> IF t = Between THEN ~rung[t] ELSE rung[t]],
  halted <- k.failed

-----------------------------------------------------------------------------
(***************************************************************************)
(* Properties.                                                             *)
(***************************************************************************)
\* The lists of the timers, their switch when the tick count comes round, and
\* the commands that the timer task sends to itself keep what Timers promises:
\* commands take effect in their order, each period ends with one callback, and
\* a late callback moves none of those that follow.
KeepsPromise == Promised!Spec

\* prvProcessExpiredTimer() and the two others that send a command to go on
\* assert that it fits into the queue.  No other assertion fails, and this one
\* only with a full queue and a timer that is late.
AssertOnlyWhenFull ==
  k.failed =>
    /\ Len(timerQ) = QueueLength
    /\ tmr.at \in {"callback", "switch", "receive"}

\* The task with the highest priority of those that are ready runs, except
\* while the scheduler is suspended or a switch is pending: no wake-up that an
\* interrupt noted while the scheduler was suspended is left undone.
HighestRuns ==
  k.suspended = 0 /\ ~k.pendSV =>
    /\ k.pxCurrentTCB \in ReadyTasks(k)
    /\ \A t \in ReadyTasks(k) : k.prio[t] <= k.prio[k.pxCurrentTCB]

\* While the timer task sleeps in prvProcessTimerOrBlockTask() no command waits
\* for it, and it wakes up no later than the first timer is due or the tick
\* count comes round, whatever was sent while it made up its mind.
SleepsNoLonger ==
  TimerTask \in Members(k.waiting[TimerQueue]) =>
    /\ timerQ = <<>>
    /\ \A t \in Members(current) \cup Members(overflow) :
         Left(k.wake[TimerTask]) <= Left(Expiry[t])

\* A delayed task is woken in its tick: when the scheduler is not suspended, all
\* times in pxDelayedTaskList lie ahead, the next one is at xNextTaskUnblockTime
\* or later, and what waits in the other list waits for the tick count to come
\* round.
WokenInItsTick ==
  k.suspended = 0 /\ ~k.failed =>
    /\ k.pendedTicks = 0
    /\ \A t \in Members(k.delayed) : k.wake[t] > k.tick /\ k.wake[t] >= k.nextUnblock
    /\ \A t \in Members(k.overflow) : k.wake[t] < k.tick

\* A notification that the task has not taken yet keeps it from sleeping: it is
\* ready, or about to be made ready when the scheduler is resumed.
NotifiedIsAwake ==
  k.notify[Routing] = "received" =>
    /\ k.value[Routing]
    /\ Routing \in ReadyTasks(k) \cup Members(k.pending)
=============================================================================
