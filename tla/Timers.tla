------------------------------- MODULE Timers -------------------------------
(***************************************************************************)
(* What the timer service promises: one queue of commands, obeyed in their *)
(* order, and for each timer the number of ticks until its callback is     *)
(* due.  There is no range of a tick count here, no lists and no kernel.   *)
(*                                                                         *)
(* An auto-reload timer is due again one period after it was due, however  *)
(* late its callback is called.  A callback may be late, but none is left  *)
(* out and none is called twice, unless a command comes in between.  A     *)
(* timer that is late may go on through a command of its own, "again",     *)
(* which waits behind the commands that are in the queue already.          *)
(***************************************************************************)
EXTENDS Integers, Sequences

CONSTANTS
  Timer,      \* the timers
  Period,     \* the periods that a timer may have
  MaxAge      \* bound: ticks from a command, or the look at the time, to its effect

VARIABLES
  cmds,       \* the commands that are not obeyed yet
  due,        \* ticks until the callback is due, negative when it is late, of
              \* the timers that run
  period,     \* the period of each timer
  rung,       \* the number of calls of the callback, modulo 2
  halted      \* an assertion has stopped the firmware

vars == <<cmds, due, period, rung, halted>>

Age == 0..MaxAge
Runs(t) == t \in DOMAIN due

\* The age of a command counts from the time it starts the timer at.
Command ==
  [cmd : {"start", "again"}, timer : Timer, age : Age]
    \cup [cmd : {"stop"}, timer : Timer]
    \cup [cmd : {"period"}, timer : Timer, period : Period]

Init ==
  /\ cmds = <<>>
  /\ due = [t \in {} |-> 0]
  /\ period \in [Timer -> Period]
  /\ rung = [t \in Timer |-> FALSE]
  /\ halted = FALSE

AgainAfter(t, age) == [cmd |-> "again", timer |-> t, age |-> age]
DueIn(t, ticks) == due' = [u \in DOMAIN due \cup {t} |-> IF u = t THEN ticks ELSE due[u]]
Stops(t) == due' = [u \in DOMAIN due \ {t} |-> due[u]]
Rings(t) == rung' = [rung EXCEPT ![t] = ~@]

-----------------------------------------------------------------------------
\* A task sends a command.  Only the timer itself sends "again".
Submit ==
  /\ UNCHANGED <<due, period, rung, halted>>
  /\ cmds' # cmds
  /\ \E c \in Command : c.cmd # "again" /\ cmds' = Append(cmds, c)

\* A tick: everything comes nearer, and every command gets older.
Tick ==
  /\ due' = [t \in DOMAIN due |-> due[t] - 1]
  /\ cmds' = [i \in DOMAIN cmds |-> IF cmds[i].cmd \in {"start", "again"}
                                    THEN [cmds[i] EXCEPT !.age = @ + 1] ELSE cmds[i]]
  /\ UNCHANGED <<period, rung, halted>>

\* The callback is called, and is due again one period after it was due.
Expire(t) ==
  /\ Runs(t) /\ due[t] <= 0
  /\ Rings(t)
  /\ \/ /\ DueIn(t, due[t] + period[t])
        /\ UNCHANGED cmds
     \/ /\ Stops(t)
        /\ cmds' = Append(cmds, AgainAfter(t, 0 - due[t]))
  /\ UNCHANGED <<period, halted>>

\* The timer of the next command is stopped before the command is looked at.
Take ==
  /\ cmds # <<>>
  /\ Stops(Head(cmds).timer)
  /\ UNCHANGED <<cmds, period, rung, halted>>

\* The next command is obeyed.
ObeyStart ==
  /\ cmds # <<>> /\ Head(cmds).cmd \in {"start", "again"}
  /\ LET t    == Head(cmds).timer
         left == period[t] - Head(cmds).age
     IN  /\ ~Runs(t)
         /\ \/ /\ DueIn(t, left)
               /\ cmds' = Tail(cmds)
               /\ UNCHANGED rung
            \/ /\ left <= 0
               /\ Rings(t)
               /\ cmds' = Append(Tail(cmds), AgainAfter(t, 0 - left))
               /\ UNCHANGED due
  /\ UNCHANGED <<period, halted>>

ObeyStop ==
  /\ cmds # <<>> /\ Head(cmds).cmd = "stop"
  /\ ~Runs(Head(cmds).timer)
  /\ cmds' = Tail(cmds)
  /\ UNCHANGED <<due, period, rung, halted>>

\* The new period begins when the timer task looks at the time.
ObeyPeriod ==
  /\ cmds # <<>> /\ Head(cmds).cmd = "period"
  /\ LET t == Head(cmds).timer
         p == Head(cmds).period
     IN  /\ ~Runs(t)
         /\ \E late \in Age : DueIn(t, p - late)
         /\ period' = [period EXCEPT ![t] = p]
  /\ cmds' = Tail(cmds)
  /\ UNCHANGED <<rung, halted>>

\* After a failed assertion nothing more is promised.
Halt == halted' = TRUE

Next ==
  \/ Submit \/ Tick \/ Take \/ ObeyStart \/ ObeyStop \/ ObeyPeriod \/ Halt
  \/ \E t \in Timer : Expire(t)

Spec == Init /\ [][Next]_vars
=============================================================================
