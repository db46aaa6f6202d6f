--------------------------- MODULE MCTimerService ---------------------------
(***************************************************************************)
(* Instance of TimerService: the priorities of the firmware and one timer.  *)
(* Several timers multiply the states; for them the theorems stand.         *)
(***************************************************************************)
EXTENDS TimerService, TLC

Tasks      == {Routing, TimerTask, Console, Idle}
Priorities == (Routing :> 4) @@ (TimerTask :> 3) @@ (Console :> 0) @@ (Idle :> 0)
Objects    == {TimerQueue}
Periods      == [t \in Timer |-> 2]
OtherPeriods == [t \in Timer |-> 1]
=============================================================================
