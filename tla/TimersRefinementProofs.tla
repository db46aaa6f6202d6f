------------------------ MODULE TimersRefinementProofs ------------------------
(***************************************************************************)
(* Proof that TimerService implements Timers: two lists that are switched  *)
(* when the tick count comes round, a time that was read some time ago and *)
(* commands of the timer task to itself come to the same as a count of the *)
(* ticks that are left for each timer.  The invariant says more: the timer *)
(* task never sleeps past the time of one.                                 *)
(***************************************************************************)
EXTENDS TimerServiceProofs

-----------------------------------------------------------------------------
(***************************************************************************)
(* The clock: gaps between times, and how far a time is from now.          *)
(***************************************************************************)
\* The distance from now to a time that is not later than MaxLate.
From(now, time) == LET d == Gap(time, now) IN IF d < Ticks - MaxLate THEN d ELSE d - Ticks

LEMMA LateType == MaxLate \in Nat /\ MaxLate < Ticks
<1>1. PICK t \in Timer : TRUE
  BY TimerAssumption
<1>2. InitPeriod[t] \in Nat \ {0} /\ MaxLate \in Nat /\ InitPeriod[t] + MaxLate < Ticks
  BY <1>1, TimerAssumption, TickRangeAssumption
<1> QED
  BY <1>2, SpanType

\* The distance from now to a time is the one number that leads there and is not
\* later than MaxLate.
LEMMA FromIs ==
  ASSUME NEW now \in Span, NEW x \in Span, NEW n \in Int,
         0 - MaxLate <= n, n < Ticks - MaxLate,
         x = now + n \/ x = (now + n) - Ticks \/ x = (now + n) + Ticks
  PROVE  From(now, x) = n
<1> DEFINE d == Gap(x, now)
<1>1. d = IF x >= now THEN x - now ELSE (x - now) + Ticks
  BY GapValue
<1>2. now \in Int /\ x \in Int /\ 0 <= now /\ 0 <= x /\ now < Ticks /\ x < Ticks
  BY SpanMember, Zenon
<1>3. From(now, x) = IF d < Ticks - MaxLate THEN d ELSE d - Ticks
  BY DEF From
<1> HIDE DEF d
<1> QED
  BY <1>1, <1>2, <1>3, LateType, SpanType

LEMMA FromValue ==
  ASSUME NEW now \in Span, NEW x \in Span
  PROVE  LET n == From(now, x)
         IN  /\ n \in Int /\ 0 - MaxLate <= n /\ n < Ticks - MaxLate
             /\ x = now + n \/ x = (now + n) - Ticks \/ x = (now + n) + Ticks
<1> DEFINE d == Gap(x, now)
<1>1. d = IF x >= now THEN x - now ELSE (x - now) + Ticks
  BY GapValue
<1>2. now \in Int /\ x \in Int /\ 0 <= now /\ 0 <= x /\ now < Ticks /\ x < Ticks
  BY SpanMember, Zenon
<1>3. From(now, x) = IF d < Ticks - MaxLate THEN d ELSE d - Ticks
  BY DEF From
<1> HIDE DEF d
<1> QED
  BY <1>1, <1>2, <1>3, LateType, SpanType

\* A tick goes by.
LEMMA FromTick ==
  ASSUME NEW now \in Span, NEW x \in Span, From(now, x) > 0 - MaxLate
  PROVE  From(Later(now, 1), x) = From(now, x) - 1
<1> DEFINE n == From(now, x)
           w == Later(now, 1)
<1>1. /\ n \in Int /\ 0 - MaxLate <= n /\ n < Ticks - MaxLate
      /\ x = now + n \/ x = (now + n) - Ticks \/ x = (now + n) + Ticks
  BY FromValue
<1>2. 1 \in Span
  BY SpanType DEF Span
<1>3. w = (IF now + 1 < Ticks THEN now + 1 ELSE (now + 1) - Ticks) /\ w \in Span
  BY <1>2, LaterValue, LaterType, SpanType
<1>4. /\ now \in Int /\ x \in Int /\ 0 <= now /\ 0 <= x /\ now < Ticks /\ x < Ticks
      /\ w \in Int /\ 0 <= w /\ w < Ticks
  BY <1>3, SpanMember, Zenon
<1> HIDE DEF n, w
<1>5. n - 1 \in Int /\ 0 - MaxLate <= n - 1 /\ n - 1 < Ticks - MaxLate
  BY <1>1, LateType, SpanType DEF n
<1>6. x = w + (n - 1) \/ x = (w + (n - 1)) - Ticks \/ x = (w + (n - 1)) + Ticks
  BY <1>1, <1>3, <1>4, <1>5, LateType, SpanType
<1>7. From(w, x) = n - 1
  BY <1>3, <1>5, <1>6, FromIs
<1> QED
  BY <1>7 DEF n, w

LEMMA GapTick ==
  ASSUME NEW now \in Span, NEW x \in Span, Gap(now, x) # Ticks - 1
  PROVE  Gap(Later(now, 1), x) = Gap(now, x) + 1
<1> DEFINE w == Later(now, 1)
<1>2. 1 \in Span
  BY SpanType DEF Span
<1>3. w = (IF now + 1 < Ticks THEN now + 1 ELSE (now + 1) - Ticks) /\ w \in Span
  BY <1>2, LaterValue, LaterType, SpanType
<1>4. /\ now \in Int /\ x \in Int /\ 0 <= now /\ 0 <= x /\ now < Ticks /\ x < Ticks
      /\ w \in Int /\ 0 <= w /\ w < Ticks
  BY <1>3, SpanMember, Zenon
<1> HIDE DEF w
<1>5. Gap(now, x) = IF now >= x THEN now - x ELSE (now - x) + Ticks
  BY GapValue
<1>6. Gap(w, x) = IF w >= x THEN w - x ELSE (w - x) + Ticks
  BY <1>3, GapValue
<1>7. Gap(w, x) = Gap(now, x) + 1
  BY <1>3, <1>4, <1>5, <1>6, SpanType
<1> QED
  BY <1>7 DEF w

\* A time that is not more than MaxLate ago is this much ago.
LEMMA FromGap ==
  ASSUME NEW now \in Span, NEW x \in Span, Gap(now, x) <= MaxLate
  PROVE  From(now, x) = 0 - Gap(now, x)
<1> DEFINE n == 0 - Gap(now, x)
<1>1. Gap(now, x) = (IF now >= x THEN now - x ELSE (now - x) + Ticks) /\ Gap(now, x) \in Span
  BY GapValue
<1>2. now \in Int /\ x \in Int /\ 0 <= now /\ 0 <= x /\ now < Ticks /\ x < Ticks
  BY SpanMember, Zenon
<1>3. n \in Int /\ 0 - MaxLate <= n /\ n < Ticks - MaxLate
  BY <1>1, <1>2, LateType, SpanType
<1>4. x = now + n \/ x = (now + n) - Ticks \/ x = (now + n) + Ticks
  BY <1>1, <1>2, SpanType
<1> HIDE DEF n
<1>5. From(now, x) = n
  BY <1>3, <1>4, FromIs
<1> QED
  BY <1>5 DEF n

LEMMA GapFrom ==
  ASSUME NEW now \in Span, NEW x \in Span, From(now, x) <= 0
  PROVE  Gap(now, x) = 0 - From(now, x)
<1> DEFINE n == From(now, x)
<1>1. /\ n \in Int /\ 0 - MaxLate <= n /\ n < Ticks - MaxLate
      /\ x = now + n \/ x = (now + n) - Ticks \/ x = (now + n) + Ticks
  BY FromValue
<1>2. Gap(now, x) = IF now >= x THEN now - x ELSE (now - x) + Ticks
  BY GapValue
<1>3. now \in Int /\ x \in Int /\ 0 <= now /\ 0 <= x /\ now < Ticks /\ x < Ticks
  BY SpanMember, Zenon
<1> HIDE DEF n
<1>4. Gap(now, x) = 0 - n
  BY <1>1, <1>2, <1>3, LateType, SpanType DEF n
<1> QED
  BY <1>4 DEF n

\* One period later.
LEMMA FromLater ==
  ASSUME NEW now \in Span, NEW x \in Span, NEW p \in Span,
         From(now, x) + p < Ticks - MaxLate
  PROVE  From(now, Later(x, p)) = From(now, x) + p
<1> DEFINE n == From(now, x)
           e == Later(x, p)
<1>1. /\ n \in Int /\ 0 - MaxLate <= n /\ n < Ticks - MaxLate
      /\ x = now + n \/ x = (now + n) - Ticks \/ x = (now + n) + Ticks
  BY FromValue
<1>2. e = IF x + p < Ticks THEN x + p ELSE (x + p) - Ticks
  BY LaterValue
<1>3. /\ now \in Int /\ x \in Int /\ 0 <= now /\ 0 <= x /\ now < Ticks /\ x < Ticks
      /\ p \in Int /\ 0 <= p /\ p < Ticks
  BY SpanMember, Zenon
<1>4. e \in Span
  BY <1>3, LaterType
<1>5. e \in Int /\ 0 <= e /\ e < Ticks
  BY <1>4, SpanMember, Zenon
<1>6. n + p < Ticks - MaxLate
  OBVIOUS
<1> HIDE DEF n, e
<1>7. n + p \in Int /\ 0 - MaxLate <= n + p
  BY <1>1, <1>3, LateType
<1>8. e = now + (n + p) \/ e = (now + (n + p)) - Ticks \/ e = (now + (n + p)) + Ticks
  BY <1>1, <1>2, <1>3, <1>5, <1>6, <1>7, LateType, SpanType
<1>9. From(now, e) = n + p
  BY <1>4, <1>6, <1>7, <1>8, FromIs
<1> QED
  BY <1>9 DEF n, e

LEMMA FromStart ==
  ASSUME NEW now \in Span, NEW v \in Span, NEW p \in Span,
         p - Gap(now, v) < Ticks - MaxLate, 0 - MaxLate <= p - Gap(now, v)
  PROVE  From(now, Later(v, p)) = p - Gap(now, v)
<1> DEFINE g == Gap(now, v)
           e == Later(v, p)
           n == p - g
<1>1. g = (IF now >= v THEN now - v ELSE (now - v) + Ticks) /\ g \in Span
  BY GapValue
<1>2. e = IF v + p < Ticks THEN v + p ELSE (v + p) - Ticks
  BY LaterValue
<1>3. /\ now \in Int /\ v \in Int /\ 0 <= now /\ 0 <= v /\ now < Ticks /\ v < Ticks
      /\ p \in Int /\ 0 <= p /\ p < Ticks
  BY SpanMember, Zenon
<1>4. e \in Span
  BY <1>3, LaterType
<1>5. e \in Int /\ 0 <= e /\ e < Ticks /\ g \in Int /\ 0 <= g /\ g < Ticks
  BY <1>1, <1>4, SpanMember, Zenon
<1>6. n < Ticks - MaxLate /\ 0 - MaxLate <= n
  OBVIOUS
<1> HIDE DEF g, e
<1>7. n \in Int
  BY <1>3, <1>5
<1>8. e = now + n \/ e = (now + n) - Ticks \/ e = (now + n) + Ticks
  BY <1>1, <1>2, <1>3, <1>5, <1>6, LateType, SpanType
<1> HIDE DEF n
<1>9. From(now, e) = n
  BY <1>4, <1>6, <1>7, <1>8, FromIs
<1> QED
  BY <1>9 DEF g, e, n

LEMMA GapLater ==
  ASSUME NEW now \in Span, NEW v \in Span, NEW p \in Span, Gap(now, v) >= p
  PROVE  Gap(now, Later(v, p)) = Gap(now, v) - p
<1> DEFINE g == Gap(now, v)
           e == Later(v, p)
<1>1. g = (IF now >= v THEN now - v ELSE (now - v) + Ticks) /\ g \in Span
  BY GapValue
<1>2. e = IF v + p < Ticks THEN v + p ELSE (v + p) - Ticks
  BY LaterValue
<1>3. /\ now \in Int /\ v \in Int /\ 0 <= now /\ 0 <= v /\ now < Ticks /\ v < Ticks
      /\ p \in Int /\ 0 <= p /\ p < Ticks
  BY SpanMember, Zenon
<1>4. e \in Span
  BY <1>3, LaterType
<1>5. Gap(now, e) = IF now >= e THEN now - e ELSE (now - e) + Ticks
  BY <1>4, GapValue
<1>6. e \in Int /\ 0 <= e /\ e < Ticks /\ g \in Int /\ 0 <= g /\ g < Ticks /\ g >= p
  BY <1>1, <1>4, SpanMember, Zenon
<1> HIDE DEF g, e
<1>7. Gap(now, e) = g - p
  BY <1>1, <1>2, <1>3, <1>5, <1>6, SpanType
<1> QED
  BY <1>7 DEF g, e

\* A timer that is started at a time v goes to the list that its time belongs to, or
\* is late already.
LEMMA InsertsWhere ==
  ASSUME NEW t, NEW now \in Span, NEW v \in Span, timer[t].period \in Span
  PROVE  LET p == timer[t].period
             e == Later(v, p)
             w == Inserts(t, e, now, v)
         IN  /\ w \in {"over", "current", "overflow"}
             /\ w = "over" <=> Gap(now, v) >= p
             /\ w = "current" => e = (now + p) - Gap(now, v)
             /\ w = "overflow" => e + Ticks = (now + p) - Gap(now, v)
<1> DEFINE p == timer[t].period
           e == Later(v, p)
           g == Gap(now, v)
           w == Inserts(t, e, now, v)
<1>1. g = IF now >= v THEN now - v ELSE (now - v) + Ticks
  BY GapValue
<1>2. e = IF v + p < Ticks THEN v + p ELSE (v + p) - Ticks
  BY LaterValue
<1>3. /\ now \in Int /\ v \in Int /\ 0 <= now /\ 0 <= v /\ now < Ticks /\ v < Ticks
      /\ p \in Int /\ 0 <= p /\ p < Ticks
  BY SpanMember, Zenon
<1>4. w = IF e <= now THEN IF g >= p THEN "over" ELSE "overflow"
          ELSE IF now < v /\ e >= v THEN "over" ELSE "current"
  BY Zenon DEF Inserts, Gap
<1> HIDE DEF p, g, w, e
<1>5. /\ w \in {"over", "current", "overflow"}
      /\ w = "over" <=> g >= p
      /\ w = "current" => e = (now + p) - g
      /\ w = "overflow" => e + Ticks = (now + p) - g
  <2>1. CASE e <= now
    BY <1>1, <1>2, <1>3, <1>4, <2>1, SpanType
  <2>2. CASE ~(e <= now)
    BY <1>1, <1>2, <1>3, <1>4, <2>2, SpanType
  <2> QED
    BY <2>1, <2>2
<1> QED
  BY <1>5 DEF p, g, w, e

-----------------------------------------------------------------------------
(***************************************************************************)
(* The commands, as the abstract timers are told them.                     *)
(***************************************************************************)
\* A command, with its age at a time.
Told(m, now) ==
  CASE m.cmd \in {"start", "again"} -> [cmd |-> m.cmd, timer |-> m.timer, age |-> Gap(now, m.value)]
    [] m.cmd = "stop"               -> [cmd |-> m.cmd, timer |-> m.timer]
    [] m.cmd = "period"             -> [cmd |-> m.cmd, timer |-> m.timer, period |-> m.value]
ToldAll(list, now) == [i \in DOMAIN list |-> Told(list[i], now)]

LEMMA ToldStart ==
  ASSUME NEW m, NEW now, m.cmd \in {"start", "again"}
  PROVE  Told(m, now) = [cmd |-> m.cmd, timer |-> m.timer, age |-> Gap(now, m.value)]
BY DEF Told

LEMMA ToldOther ==
  ASSUME NEW m, NEW now
  PROVE  /\ m.cmd = "stop" => Told(m, now) = [cmd |-> m.cmd, timer |-> m.timer]
         /\ m.cmd = "period" => Told(m, now) = [cmd |-> m.cmd, timer |-> m.timer, period |-> m.value]
BY DEF Told

LEMMA ToldNames ==
  ASSUME NEW m \in Command, NEW now
  PROVE  Told(m, now).cmd = m.cmd /\ Told(m, now).timer = m.timer
<1>1. m.cmd \in {"start", "again", "stop", "period"}
  BY DEF Command
<1> QED
  BY <1>1, ToldStart, ToldOther

LEMMA ToldAllType ==
  ASSUME NEW list \in Seq(Command), NEW now
  PROVE  /\ ToldAll(list, now) \in Seq({Told(m, now) : m \in Command})
         /\ Len(ToldAll(list, now)) = Len(list)
         /\ \A i \in 1..Len(list) : ToldAll(list, now)[i] = Told(list[i], now)
<1>1. Len(list) \in Nat /\ DOMAIN list = 1..Len(list) /\ \A i \in 1..Len(list) : list[i] \in Command
  OBVIOUS
<1> DEFINE S == {Told(m, now) : m \in Command}
           r == [i \in 1..Len(list) |-> Told(list[i], now)]
<1>2. \A i \in 1..Len(list) : Told(list[i], now) \in S
  BY <1>1
<1>3. ToldAll(list, now) = r
  BY <1>1 DEF ToldAll
<1> HIDE DEF S
<1>4. r \in Seq(S) /\ Len(r) = Len(list)
  BY <1>1, <1>2
<1> QED
  BY <1>1, <1>3, <1>4 DEF S

LEMMA ToldAppend ==
  ASSUME NEW list \in Seq(Command), NEW m \in Command, NEW now
  PROVE  ToldAll(Append(list, m), now) = Append(ToldAll(list, now), Told(m, now))
<1> DEFINE a == ToldAll(Append(list, m), now)
           b == ToldAll(list, now)
           c == Append(b, Told(m, now))
           S == {Told(x, now) : x \in Command}
<1>1. Append(list, m) \in Seq(Command) /\ Len(Append(list, m)) = Len(list) + 1
  OBVIOUS
<1>2. /\ a \in Seq(S) /\ Len(a) = Len(list) + 1
      /\ \A i \in 1..(Len(list) + 1) : a[i] = Told(Append(list, m)[i], now)
  BY <1>1, ToldAllType
<1>3. b \in Seq(S) /\ Len(b) = Len(list) /\ \A i \in 1..Len(list) : b[i] = Told(list[i], now)
  BY ToldAllType
<1>4. Told(m, now) \in S
  OBVIOUS
<1> HIDE DEF a, b, S
<1>5. c \in Seq(S) /\ Len(c) = Len(list) + 1
  BY <1>3, <1>4
<1>6. ASSUME NEW i \in 1..(Len(list) + 1) PROVE a[i] = c[i]
  <2>1. CASE i \in 1..Len(list)
    <3>1. Append(list, m)[i] = list[i] /\ c[i] = b[i]
      BY <1>3, <2>1
    <3> QED
      BY <1>2, <1>3, <2>1, <3>1
  <2>2. CASE i = Len(list) + 1
    <3>1. Append(list, m)[i] = m /\ c[i] = Told(m, now)
      BY <1>3, <2>2
    <3> QED
      BY <1>2, <3>1
  <2>3. i \in 1..Len(list) \/ i = Len(list) + 1
    OBVIOUS
  <2> QED
    BY <2>1, <2>2, <2>3
<1> HIDE DEF c
<1>7. a = c
  BY <1>2, <1>5, <1>6
<1> QED
  BY <1>7 DEF a, b, c

LEMMA ToldFirst ==
  ASSUME NEW list \in Seq(Command), list # <<>>, NEW now
  PROVE  /\ ToldAll(list, now) # <<>>
         /\ Head(ToldAll(list, now)) = Told(Head(list), now)
         /\ Tail(ToldAll(list, now)) = ToldAll(Tail(list), now)
<1> DEFINE a == ToldAll(list, now)
           b == ToldAll(Tail(list), now)
           c == Tail(a)
           S == {Told(x, now) : x \in Command}
<1>1. Tail(list) \in Seq(Command) /\ Len(Tail(list)) = Len(list) - 1 /\ Len(list) \in Nat /\ Len(list) >= 1
  OBVIOUS
<1>2. a \in Seq(S) /\ Len(a) = Len(list) /\ \A i \in 1..Len(list) : a[i] = Told(list[i], now)
  BY ToldAllType
<1>3. /\ b \in Seq(S) /\ Len(b) = Len(list) - 1
      /\ \A i \in 1..(Len(list) - 1) : b[i] = Told(Tail(list)[i], now)
  BY <1>1, ToldAllType
<1> HIDE DEF a, b, S
<1>4. a # <<>> /\ Head(a) = a[1] /\ Head(list) = list[1]
  BY <1>1, <1>2
<1>5. c \in Seq(S) /\ Len(c) = Len(list) - 1
  BY <1>1, <1>2, <1>4
<1>6. ASSUME NEW i \in 1..(Len(list) - 1) PROVE b[i] = c[i]
  <2>1. c[i] = a[i + 1] /\ Tail(list)[i] = list[i + 1] /\ i + 1 \in 1..Len(list)
    BY <1>1, <1>2, <1>4
  <2> QED
    BY <1>2, <1>3, <2>1
<1> HIDE DEF c
<1>7. b = c
  BY <1>3, <1>5, <1>6
<1>8. 1 \in 1..Len(list)
  BY <1>1
<1> QED
  BY <1>2, <1>4, <1>7, <1>8 DEF a, b, c

-----------------------------------------------------------------------------
(***************************************************************************)
(* The steps of the abstract timers, in the terms of the refinement mapping.*)
(***************************************************************************)
LEMMA ConsIs ==
  ASSUME NEW list \in Seq(Command), NEW m \in Command
  PROVE  /\ <<m>> \o list \in Seq(Command) /\ <<m>> \o list # <<>>
         /\ Head(<<m>> \o list) = m /\ Tail(<<m>> \o list) = list
         /\ \A x \in Command : Append(<<m>> \o list, x) = <<m>> \o Append(list, x)
<1> DEFINE c == <<m>> \o list
<1>1. c \in Seq(Command) /\ Len(c) = Len(list) + 1 /\ Len(list) \in Nat
  OBVIOUS
<1>2. c[1] = m /\ \A i \in 1..Len(list) : c[i + 1] = list[i]
  OBVIOUS
<1>3. ASSUME NEW x \in Command
      PROVE  Append(c, x) = <<m>> \o Append(list, x)
  <2> DEFINE a == Append(c, x)
             b == <<m>> \o Append(list, x)
  <2>1. a \in Seq(Command) /\ Len(a) = Len(list) + 2 /\ b \in Seq(Command) /\ Len(b) = Len(list) + 2
    BY <1>1
  <2>2. ASSUME NEW i \in 1..(Len(list) + 2) PROVE a[i] = b[i]
    OBVIOUS
  <2> HIDE DEF a, b
  <2>3. a = b
    BY <2>1, <2>2
  <2> QED
    BY <2>3 DEF a, b
<1>4. c # <<>> /\ Head(c) = m
  BY <1>1, <1>2
<1>5. Tail(c) = list
  <2>1. Tail(c) \in Seq(Command) /\ Len(Tail(c)) = Len(list) /\ \A i \in 1..Len(list) : Tail(c)[i] = c[i + 1]
    BY <1>1, <1>4
  <2> HIDE DEF c
  <2> QED
    BY <1>2, <2>1
<1> QED
  BY <1>1, <1>3, <1>4, <1>5

\* What the abstract timers see: the values that the refinement mapping gives to
\* their variables.
AllPeriods == {InitPeriod[t] : t \in Timer} \cup {NewPeriod[t] : t \in Timer}
Cmds == [i \in DOMAIN Ours |-> AbstractCommand(Ours[i])]
DueOf == [t \in {u \in Timer : Running(u)} |-> Left(Expiry[t])]
PeriodOf == [t \in Timer |-> timer[t].period]
RungOf == [t \in Timer |-> IF t = Between THEN ~rung[t] ELSE rung[t]]

LEMMA CmdsIs ==
  Cmds = ToldAll(Ours, Now) /\ Cmds' = ToldAll(Ours', Now')
BY DEF Cmds, ToldAll, Told, AbstractCommand, Since, Gap

LEMMA LeftIs == \A x : Left(x) = From(Now, x)
BY DEF Left, From, Gap

LEMMA DueIs ==
  /\ DueOf = [t \in {u \in Timer : Running(u)} |-> From(Now, Expiry[t])]
  /\ DueOf' = [t \in {u \in Timer : Running(u)'} |-> From(Now', Expiry'[t])]
BY DEF DueOf, Left, From, Gap

LEMMA StutterPromise ==
  ASSUME UNCHANGED <<Cmds, DueOf, PeriodOf, RungOf, k.failed>>
  PROVE  UNCHANGED Promised!vars
BY Zenon DEF Promised!vars, DueOf, Cmds, PeriodOf, RungOf

LEMMA HaltPromise ==
  ASSUME k'.failed = TRUE
  PROVE  Promised!Next
BY DEF Promised!Next, Promised!Halt

LEMMA TickPromise ==
  ASSUME DueOf' = [t \in DOMAIN DueOf |-> DueOf[t] - 1],
         Cmds' = [i \in DOMAIN Cmds |-> IF Cmds[i].cmd \in {"start", "again"}
                                    THEN [Cmds[i] EXCEPT !.age = @ + 1] ELSE Cmds[i]],
         UNCHANGED <<PeriodOf, RungOf, k.failed>>
  PROVE  Promised!Next
<1>1. Promised!Tick
  BY DEF Promised!Tick, DueOf, Cmds, PeriodOf, RungOf
<1> QED
  BY <1>1, Zenon DEF Promised!Next

LEMMA SubmitPromise ==
  ASSUME NEW m \in Command, m.cmd # "again", m.cmd = "period" => m.value \in AllPeriods,
         Now \in Span, Cmds' # Cmds, Cmds' = Append(Cmds, Told(m, Now)),
         UNCHANGED <<DueOf, PeriodOf, RungOf, k.failed>>
  PROVE  Promised!Next
<1>1. Told(m, Now) \in Promised!Command /\ Told(m, Now).cmd # "again"
  <2>1. m.cmd \in {"start", "stop", "period"} /\ m.timer \in Timer /\ m.value \in Span
    BY DEF Command
  <2>2. CASE m.cmd = "start"
    <3>1. Told(m, Now) = [cmd |-> m.cmd, timer |-> m.timer, age |-> Gap(Now, m.value)]
      BY <2>2, ToldStart
    <3>2. Gap(Now, m.value) \in 0..(Ticks - 1)
      BY <2>1, GapValue DEF Span
    <3> QED
      BY <2>1, <2>2, <3>1, <3>2 DEF Promised!Command, Promised!Age
  <2>3. CASE m.cmd = "stop"
    BY <2>1, <2>3, ToldOther DEF Promised!Command
  <2>4. CASE m.cmd = "period"
    BY <2>1, <2>4, ToldOther DEF Promised!Command, AllPeriods
  <2> QED
    BY <2>1, <2>2, <2>3, <2>4
<1> DEFINE c == Told(m, Now)
<1> HIDE DEF c
<1>2. c \in Promised!Command /\ c.cmd # "again" /\ Cmds' = Append(Cmds, c)
  BY <1>1 DEF c
<1>3. Promised!Submit
  BY <1>2, Zenon DEF Promised!Submit, DueOf, Cmds, PeriodOf, RungOf
<1> QED
  BY <1>3, Zenon DEF Promised!Next

LEMMA TakePromise ==
  ASSUME Cmds # <<>>,
         DueOf' = [u \in DOMAIN DueOf \ {Head(Cmds).timer} |-> DueOf[u]],
         UNCHANGED <<Cmds, PeriodOf, RungOf, k.failed>>
  PROVE  Promised!Next
<1>1. Promised!Take
  BY Zenon DEF Promised!Take, Promised!Stops, DueOf, Cmds, PeriodOf, RungOf
<1> QED
  BY <1>1, Zenon DEF Promised!Next

LEMMA ExpirePromise ==
  ASSUME NEW t \in Timer, t \in DOMAIN DueOf, DueOf[t] <= 0,
         RungOf' = [RungOf EXCEPT ![t] = ~@],
         \/ /\ DueOf' = [u \in DOMAIN DueOf \cup {t} |-> IF u = t THEN DueOf[t] + PeriodOf[t] ELSE DueOf[u]]
            /\ Cmds' = Cmds
         \/ /\ DueOf' = [u \in DOMAIN DueOf \ {t} |-> DueOf[u]]
            /\ Cmds' = Append(Cmds, [cmd |-> "again", timer |-> t, age |-> 0 - DueOf[t]]),
         UNCHANGED <<PeriodOf, k.failed>>
  PROVE  Promised!Next
<1>1. Promised!Expire(t)
  BY Zenon DEF Promised!Expire, Promised!Stops, Promised!DueIn, Promised!Runs, Promised!Rings, Promised!AgainAfter,
     DueOf, Cmds, PeriodOf, RungOf
<1> QED
  BY <1>1, Zenon DEF Promised!Next

LEMMA StartPromise ==
  ASSUME NEW c, Cmds # <<>>, c = Head(Cmds), c.cmd \in {"start", "again"}, c.timer \notin DOMAIN DueOf,
         \/ /\ DueOf' = [u \in DOMAIN DueOf \cup {c.timer} |-> IF u = c.timer THEN PeriodOf[c.timer] - c.age ELSE DueOf[u]]
            /\ Cmds' = Tail(Cmds)
            /\ UNCHANGED RungOf
         \/ /\ PeriodOf[c.timer] - c.age <= 0
            /\ RungOf' = [RungOf EXCEPT ![c.timer] = ~@]
            /\ Cmds' = Append(Tail(Cmds), [cmd |-> "again", timer |-> c.timer, age |-> 0 - (PeriodOf[c.timer] - c.age)])
            /\ UNCHANGED DueOf,
         UNCHANGED <<PeriodOf, k.failed>>
  PROVE  Promised!Next
<1>1. Promised!ObeyStart
  BY Zenon DEF Promised!ObeyStart, Promised!DueIn, Promised!Runs, Promised!Rings, Promised!AgainAfter,
     DueOf, Cmds, PeriodOf, RungOf
<1> QED
  BY <1>1, Zenon DEF Promised!Next

LEMMA StopPromise ==
  ASSUME NEW c, Cmds # <<>>, c = Head(Cmds), c.cmd = "stop", c.timer \notin DOMAIN DueOf,
         Cmds' = Tail(Cmds), UNCHANGED <<DueOf, PeriodOf, RungOf, k.failed>>
  PROVE  Promised!Next
<1>1. Promised!ObeyStop
  BY Zenon DEF Promised!ObeyStop, Promised!Runs, DueOf, Cmds, PeriodOf, RungOf
<1> QED
  BY <1>1, Zenon DEF Promised!Next

LEMMA PeriodPromise ==
  ASSUME Cmds # <<>>, Head(Cmds).cmd = "period", Head(Cmds).timer \notin DOMAIN DueOf,
         \E late \in Promised!Age :
            DueOf' = [u \in DOMAIN DueOf \cup {Head(Cmds).timer} |->
                        IF u = Head(Cmds).timer THEN Head(Cmds).period - late ELSE DueOf[u]],
         PeriodOf' = [PeriodOf EXCEPT ![Head(Cmds).timer] = Head(Cmds).period],
         Cmds' = Tail(Cmds), UNCHANGED <<RungOf, k.failed>>
  PROVE  Promised!Next
<1>2. Promised!ObeyPeriod
  BY Zenon DEF Promised!ObeyPeriod, Promised!DueIn, Promised!Runs, DueOf, Cmds, PeriodOf, RungOf
<1> QED
  BY <1>2, Zenon DEF Promised!Next

-----------------------------------------------------------------------------
(***************************************************************************)
(* The kernel's record while the time stands still.                        *)
(***************************************************************************)
\* The time does not go on, and who sleeps on sleeps as long as before.
Calm(i, j) == i.tick = j.tick /\ i.pendedTicks = j.pendedTicks /\ Dozes(i, j)

\* What may change of the kernel's record without the time or a sleeper in it.
Lively == Fields \ {"tick", "pendedTicks", "waiting", "wake", "delayed", "overflow"}

LEMMA CalmAside ==
  ASSUME NEW i, NEW j, Keeps(i, j, Lively)
  PROVE  Calm(i, j)
<1>1. /\ i.tick = j.tick /\ i.pendedTicks = j.pendedTicks /\ i.waiting = j.waiting /\ i.wake = j.wake
      /\ i.delayed = j.delayed /\ i.overflow = j.overflow
  BY DEF Keeps, Fields, Lively
<1>2. Delays(i) = Delays(j)
  BY <1>1 DEF Delays
<1> QED
  BY <1>1, <1>2, DozesSame DEF Calm

LEMMA CalmMore ==
  ASSUME NEW h, NEW i, NEW j, Calm(h, i), Calm(i, j)
  PROVE  Calm(h, j)
BY DozesMore DEF Calm

LEMMA CalmYield ==
  ASSUME NEW j, Kern(j)
  PROVE  Calm(portYIELD(j), j)
<1>1. Keeps(portYIELD(j), j, Lively)
  BY DEF Kern, Keeps, Fields, Lively, portYIELD
<1> QED
  BY <1>1, CalmAside

LEMMA CalmFail ==
  ASSUME NEW j, Kern(j), NEW c
  PROVE  Calm(configASSERT(j, c), j)
<1>1. CASE c
  <2>1. Keeps(configASSERT(j, c), j, Lively)
    BY <1>1 DEF Kern, Keeps, Fields, Lively, configASSERT
  <2> QED
    BY <2>1, CalmAside
<1>2. CASE ~c
  <2>1. Keeps(configASSERT(j, c), j, Lively)
    BY <1>2 DEF Kern, Keeps, Fields, Lively, configASSERT
  <2> QED
    BY <2>1, CalmAside
<1> QED
  BY <1>1, <1>2

\* A task that waits for nothing is made ready.
LEMMA CalmReadied ==
  ASSUME NEW j, Kern(j), NEW t \in Task, \A o \in Object : t \notin Members(j.waiting[o])
  PROVE  Calm(Readied(j, t), j)
<1> DEFINE i == Readied(j, t)
<1>1. /\ Kern(i) /\ Keeps(i, j, StateLists)
      /\ Members(i.delayed) = Members(j.delayed) \ {t}
      /\ Members(i.overflow) = Members(j.overflow) \ {t}
  BY TaskType, ReadiedKernel
<1>2. \A x \in Task \ {t} : i.wake[x] = j.wake[x]
  BY ReadiedWake
<1> HIDE DEF i
<1>3. i.tick = j.tick /\ i.pendedTicks = j.pendedTicks /\ i.waiting = j.waiting
  BY <1>1 DEF Keeps, Fields, StateLists
<1>4. \A o \in Object : Members(j.waiting[o]) \subseteq Task
  BY DEF Kern, Lists, Members
<1>5. Dozes(i, j)
  BY <1>1, <1>2, <1>3, <1>4 DEF Dozes, Delays
<1> QED
  BY <1>3, <1>5 DEF Calm, i

\* The running task goes to sleep; it wakes when its time has come.
LEMMA DelayWake ==
  ASSUME NEW j, Kern(j), NEW x
  PROVE  LET i == prvAddCurrentTaskToDelayedList(j, x)
             t == j.pxCurrentTCB
         IN  /\ i.wake[t] = Later(j.tick, x) /\ t \in Delays(i)
             /\ \A y \in Task \ {t} : i.wake[y] = j.wake[y] /\ (y \in Delays(j) => y \in Delays(i))
             /\ i.tick = j.tick /\ i.pendedTicks = j.pendedTicks /\ i.waiting = j.waiting
<1> DEFINE t == j.pxCurrentTCB
           w == Later(j.tick, x)
           v == Unlisted(j, t)
           u == [v EXCEPT !.wake[t] = w]
           d == vListInsert(u.delayed, t, u.wake)
           o == vListInsert(u.overflow, t, u.wake)
           b == IF w < u.nextUnblock THEN w ELSE u.nextUnblock
           i == prvAddCurrentTaskToDelayedList(j, x)
<1>1. t \in Task
  BY DEF Kern
<1>2. /\ Kern(v) /\ Keeps(v, j, StateLists)
      /\ Members(v.delayed) = Members(j.delayed) \ {t} /\ Members(v.overflow) = Members(j.overflow) \ {t}
      /\ v.wake = [j.wake EXCEPT ![t] = 0]
  <2>1. v.wake = [j.wake EXCEPT ![t] = 0]
    BY DEF Unlisted, Kern, Fields
  <2> HIDE DEF t
  <2>2. Kern(v) /\ Keeps(v, j, StateLists)
    BY <1>1, TaskType, UnlistedKernel
  <2>3. Members(v.delayed) = Members(j.delayed) \ {t} /\ Members(v.overflow) = Members(j.overflow) \ {t}
    BY <1>1, TaskType, UnlistedKernel
  <2> QED
    BY <2>1, <2>2, <2>3
<1>3. i = IF w < j.tick THEN [u EXCEPT !.overflow = o] ELSE [u EXCEPT !.delayed = d, !.nextUnblock = b]
  BY DEF prvAddCurrentTaskToDelayedList
<1> HIDE DEF t, w, v
<1>4. /\ Kern(u) /\ u.delayed = v.delayed /\ u.overflow = v.overflow /\ u.wake = [v.wake EXCEPT ![t] = w]
      /\ Keeps(u, v, {"wake"})
  BY <1>1, <1>2 DEF Kern, Keeps, Fields
<1> HIDE DEF u
<1>5. Members(d) = Members(v.delayed) \cup {t} /\ Members(o) = Members(v.overflow) \cup {t}
  BY <1>1, <1>2, <1>4, InsertSorted DEF Kern
<1> HIDE DEF d, o, b, i
<1>6. /\ i.wake = u.wake /\ i.tick = u.tick /\ i.pendedTicks = u.pendedTicks /\ i.waiting = u.waiting
      /\ Delays(i) = Delays(v) \cup {t}
  <2>1. CASE i = [u EXCEPT !.overflow = o]
    BY <1>4, <1>5, <2>1 DEF Kern, Fields, Delays
  <2>2. CASE i = [u EXCEPT !.delayed = d, !.nextUnblock = b]
    BY <1>4, <1>5, <2>2 DEF Kern, Fields, Delays
  <2> QED
    BY <1>3, <2>1, <2>2
<1>7. i.tick = j.tick /\ i.pendedTicks = j.pendedTicks /\ i.waiting = j.waiting
  BY <1>2, <1>4, <1>6 DEF Keeps, Fields, StateLists
<1>8. DOMAIN j.wake = Task
  BY DEF Kern
<1>9. i.wake[t] = w /\ \A y \in Task \ {t} : i.wake[y] = j.wake[y]
  BY <1>1, <1>2, <1>4, <1>6, <1>8
<1>10. t \in Delays(i) /\ \A y \in Task \ {t} : y \in Delays(j) => y \in Delays(i)
  BY <1>2, <1>6 DEF Delays
<1> QED
  BY <1>7, <1>9, <1>10 DEF i, t, w

-----------------------------------------------------------------------------
(***************************************************************************)
(* Where the kernel puts tasks: who is delayed, and for how long.          *)
(***************************************************************************)
LEMMA RoutingNotWaiting ==
  ASSUME NEW j, Known(j)
  PROVE  \A o \in Object : Routing \notin Members(j.waiting[o])
BY TaskType DEF Known

LEMMA CalmSwitch ==
  ASSUME NEW j, Known(j), Free(j) \/ Stopped(j)
  PROVE  Calm(vTaskSwitchContext(j), j)
<1> DEFINE i == vTaskSwitchContext(j)
<1>1. CASE Free(j)
  <2>1. Kern(j) /\ j.suspended = 0 /\ EndMark \notin Task /\ ReadyTasks(j) # {}
    BY <1>1, TaskType DEF Known, Free
  <2>2. Keeps(i, j, {"pendSV", "yieldPending", "ready", "pxCurrentTCB"})
    BY <2>1, SwitchKernel, Zenon
  <2> HIDE DEF i
  <2>3. Keeps(i, j, Lively)
    BY <2>2 DEF Keeps, Fields, Lively
  <2> QED
    BY <2>3, CalmAside DEF i
<1>2. CASE Stopped(j)
  <2>1. i = [j EXCEPT !.pendSV = FALSE, !.yieldPending = TRUE]
    BY <1>2 DEF vTaskSwitchContext, Stopped
  <2> HIDE DEF i
  <2>2. Keeps(i, j, Lively)
    BY <2>1 DEF Known, Kern, Keeps, Fields, Lively
  <2> QED
    BY <2>2, CalmAside DEF i
<1> QED
  BY <1>1, <1>2

\* A command is sent: nobody waits for it any more.
LEMMA CalmSend ==
  ASSUME NEW j, Known(j), Free(j)
  PROVE  Calm(AfterSend(j), j) /\ Members(AfterSend(j).waiting[TimerQueue]) = {}
<1> DEFINE t == Head(j.waiting[TimerQueue])
           i == xTaskRemoveFromEventList(j, TimerQueue)
<1>1. CASE j.waiting[TimerQueue] = <<>>
  BY <1>1 DEF AfterSend, Calm, Dozes, Members
<1>2. CASE j.waiting[TimerQueue] # <<>>
  <2>1. AfterSend(j) = IF Outranks(j, t) THEN portYIELD(i) ELSE i
    BY <1>2 DEF AfterSend
  <2> DEFINE y == j.yieldPending \/ Outranks(j, t)
             l == Tail(j.waiting[TimerQueue])
             u == [j EXCEPT !.waiting[TimerQueue] = l, !.yieldPending = y]
  <2>2. j.waiting[TimerQueue] \in Lists(Task) /\ Members(j.waiting[TimerQueue]) \subseteq {TimerTask}
    BY TaskType DEF Known, Kern
  <2>3. l \in Lists(Task) /\ Members(l) = Members(j.waiting[TimerQueue]) \ {t} /\ t \in Members(j.waiting[TimerQueue])
    BY <1>2, <2>2, TailOfList
  <2>4. i = Readied(u, t)
    BY DEF xTaskRemoveFromEventList, Free
  <2> HIDE DEF i, t, y, l
  <2>5. t = TimerTask /\ Members(l) = {}
    BY <2>2, <2>3
  <2>6. /\ Kern(u) /\ Keeps(u, j, {"waiting", "yieldPending"}) /\ u.waiting = [j.waiting EXCEPT ![TimerQueue] = l]
    BY <2>3, TaskType DEF Known, Kern, Keeps, Fields
  <2> HIDE DEF u
  <2>7. \A o \in Object : Members(u.waiting[o]) = {}
    BY <2>5, <2>6, TaskType DEF Known, Kern
  <2>8. Kern(i) /\ Keeps(i, u, StateLists)
    BY <2>4, <2>5, <2>6, TaskType, ReadiedKernel
  <2>9. i.waiting = u.waiting /\ i.tick = j.tick /\ i.pendedTicks = j.pendedTicks
    BY <2>6, <2>8 DEF Keeps, Fields, StateLists
  <2>10. Calm(i, j) /\ Members(i.waiting[TimerQueue]) = {}
    BY <2>7, <2>9, TaskType DEF Calm, Dozes
  <2>11. Calm(portYIELD(i), i) /\ portYIELD(i).waiting = i.waiting
    BY <2>8, CalmYield DEF portYIELD, Kern, Fields
  <2>12. Calm(portYIELD(i), j) /\ Members(portYIELD(i).waiting[TimerQueue]) = {}
    BY <2>10, <2>11, CalmMore
  <2> QED
    BY <2>1, <2>10, <2>12
<1> QED
  BY <1>1, <1>2

LEMMA CalmNotify ==
  ASSUME NEW j, Known(j)
  PROVE  Calm(xTaskGenericNotify(j, Routing), j)
<1> DEFINE n == Notified(j, Routing)
           c == configASSERT(n, \A o \in Object : Routing \notin Members(j.waiting[o]))
           r == Readied(c, Routing)
           i == xTaskGenericNotify(j, Routing)
<1>1. i = IF j.notify[Routing] # "waiting" THEN n
          ELSE IF Outranks(j, Routing) THEN portYIELD(r) ELSE r
  BY DEF xTaskGenericNotify
<1>2. c = n
  BY RoutingNotWaiting DEF configASSERT
<1> HIDE DEF c
<1>3. Kern(n) /\ Keeps(n, j, {"notify", "value"})
  BY NotifiedKernel
<1> HIDE DEF n
<1>4. Calm(n, j) /\ n.waiting = j.waiting
  <2>1. Keeps(n, j, Lively) /\ n.waiting = j.waiting
    BY <1>3 DEF Keeps, Fields, Lively
  <2> QED
    BY <2>1, CalmAside
<1>5. Kern(r) /\ Calm(r, n)
  <2>1. \A o \in Object : Routing \notin Members(n.waiting[o])
    BY <1>4, RoutingNotWaiting
  <2> QED
    BY <1>2, <1>3, <2>1, TaskType, ReadiedKernel, CalmReadied
<1> HIDE DEF r
<1>6. Calm(r, j)
  BY <1>4, <1>5, CalmMore
<1>7. Calm(portYIELD(r), j)
  BY <1>5, <1>6, CalmYield, CalmMore
<1> QED
  BY <1>1, <1>4, <1>6, <1>7

LEMMA CalmNotifyIsr ==
  ASSUME NEW j, Known(j), NEW b
  PROVE  Calm(notifyFromISRWithWake(j, Routing, b), j)
<1> DEFINE n == Notified(j, Routing)
           l == Append(n.pending, Routing)
           r == IF j.suspended = 0 THEN Readied(n, Routing) ELSE [n EXCEPT !.pending = l]
           y == r.yieldPending \/ Outranks(j, Routing)
           u == [r EXCEPT !.yieldPending = y]
           m == xTaskGenericNotifyFromISR(j, Routing)
           i == notifyFromISRWithWake(j, Routing, b)
<1>1. Kern(n) /\ Keeps(n, j, {"notify", "value"})
  BY NotifiedKernel
<1>2. m = IF j.notify[Routing] # "waiting" THEN n ELSE u
  BY DEF xTaskGenericNotifyFromISR
<1>3. i = IF WokenByIsr(j, Routing) \/ b THEN portYIELD(m) ELSE m
  BY DEF notifyFromISRWithWake
<1> HIDE DEF n, m, i, l
<1>4. Calm(n, j) /\ n.waiting = j.waiting /\ n.pending = j.pending
  <2>1. Keeps(n, j, Lively) /\ n.waiting = j.waiting /\ n.pending = j.pending
    BY <1>1 DEF Keeps, Fields, Lively
  <2> QED
    BY <2>1, CalmAside
<1>5. CASE j.notify[Routing] # "waiting"
  <2>1. Kern(m) /\ Calm(m, j)
    BY <1>1, <1>2, <1>4, <1>5
  <2> QED
    BY <1>3, <2>1, CalmYield, CalmMore DEF i
<1>6. CASE j.notify[Routing] = "waiting"
  <2>1. m = u
    BY <1>2, <1>6
  <2>2. Kern(r) /\ Calm(r, n)
    <3>1. CASE j.suspended = 0
      <4>1. \A o \in Object : Routing \notin Members(n.waiting[o])
        BY <1>4, RoutingNotWaiting
      <4>2. r = Readied(n, Routing)
        BY <3>1
      <4> HIDE DEF r
      <4> QED
        BY <1>1, <4>1, <4>2, TaskType, ReadiedKernel, CalmReadied
    <3>2. CASE j.suspended # 0
      <4>1. l \in Lists(Task)
        <5>1. n.pending \in Lists(Task) /\ Routing \notin Members(n.pending)
          BY <1>4, <1>6 DEF Known, Kern
        <5> QED
          BY <5>1, TaskType, AppendToList DEF l
      <4>2. r = [n EXCEPT !.pending = l]
        BY <3>2
      <4> HIDE DEF r
      <4>3. Kern(r) /\ Keeps(r, n, Lively)
        BY <1>1, <4>1, <4>2 DEF Kern, Keeps, Fields, Lively
      <4> QED
        BY <4>3, CalmAside
    <3> QED
      BY <3>1, <3>2
  <2> HIDE DEF r, y
  <2>3. Kern(u) /\ Keeps(u, r, Lively)
    BY <2>2 DEF Kern, Keeps, Fields, Lively
  <2> HIDE DEF u
  <2>4. Kern(m) /\ Calm(m, j)
    BY <1>4, <2>1, <2>2, <2>3, CalmAside, CalmMore
  <2> QED
    BY <1>3, <2>4, CalmYield, CalmMore DEF i
<1> QED
  BY <1>5, <1>6

LEMMA CalmTake ==
  ASSUME NEW j, Known(j), j.pxCurrentTCB = Routing, NEW x
  PROVE  Calm(NotifyTake(j, x), j)
<1> DEFINE u == [j EXCEPT !.notify[Routing] = "waiting"]
           r == prvAddCurrentTaskToDelayedList(u, x)
<1>1. NotifyTake(j, x) = IF j.value[Routing] THEN j ELSE portYIELD(r)
  BY DEF NotifyTake
<1>2. Kern(u) /\ Keeps(u, j, {"notify"})
  BY TaskType DEF Known, Kern, Keeps, Fields
<1> HIDE DEF u
<1>3. Calm(u, j) /\ u.waiting = j.waiting /\ u.pxCurrentTCB = Routing
  <2>1. Keeps(u, j, Lively) /\ u.waiting = j.waiting /\ u.pxCurrentTCB = Routing
    BY <1>2 DEF Keeps, Fields, Lively
  <2> QED
    BY <2>1, CalmAside
<1>4. Kern(r)
  BY <1>2, TaskType, DelayKernel
<1>5. /\ \A y \in Task \ {Routing} : r.wake[y] = u.wake[y] /\ (y \in Delays(u) => y \in Delays(r))
      /\ r.tick = u.tick /\ r.pendedTicks = u.pendedTicks /\ r.waiting = u.waiting
  BY <1>2, <1>3, DelayWake
<1> HIDE DEF r
<1>6. \A o \in Object : Members(u.waiting[o]) \subseteq Task \ {Routing}
  BY <1>3, TaskType DEF Known
<1>7. Calm(r, u)
  BY <1>5, <1>6 DEF Calm, Dozes
<1>8. Calm(portYIELD(r), j)
  BY <1>3, <1>4, <1>7, CalmYield, CalmMore
<1>9. Calm(j, j)
  BY DEF Calm, Dozes
<1> QED
  BY <1>1, <1>8, <1>9

LEMMA CalmTaken ==
  ASSUME NEW j, Known(j), j.pxCurrentTCB = Routing
  PROVE  Calm(NotifyTaken(j), j)
<1> DEFINE i == NotifyTaken(j)
<1>1. i = [j EXCEPT !.value[Routing] = FALSE, !.notify[Routing] = "none"]
  BY DEF NotifyTaken
<1> HIDE DEF i
<1>2. Keeps(i, j, Lively)
  BY <1>1 DEF Known, Kern, Keeps, Fields, Lively
<1> QED
  BY <1>2, CalmAside DEF i

LEMMA CalmSuspend ==
  ASSUME NEW j, Known(j)
  PROVE  Calm(vTaskSuspendAll(j), j)
<1> DEFINE i == vTaskSuspendAll(j)
<1>1. i = [j EXCEPT !.suspended = @ + 1]
  BY DEF vTaskSuspendAll
<1> HIDE DEF i
<1>2. Keeps(i, j, Lively)
  BY <1>1 DEF Known, Kern, Keeps, Fields, Lively
<1> QED
  BY <1>2, CalmAside DEF i

\* The timer task waits, for as long as it says.
LEMMA CalmPlace ==
  ASSUME NEW j, Known(j), Stopped(j), TimerTask \in ReadyTasks(j), NEW x, NEW b
  PROVE  LET i == vTaskPlaceOnEventListRestricted(j, TimerQueue, x, b)
         IN  /\ i.tick = j.tick /\ i.pendedTicks = j.pendedTicks
             /\ TimerTask \in Delays(i) /\ i.wake[TimerTask] = Later(j.tick, IF b THEN MaxDelay ELSE x)
<1> DEFINE l == Append(j.waiting[TimerQueue], TimerTask)
           y == IF b THEN MaxDelay ELSE x
           u == [j EXCEPT !.waiting[TimerQueue] = l]
           i == vTaskPlaceOnEventListRestricted(j, TimerQueue, x, b)
<1>1. i = prvAddCurrentTaskToDelayedList(u, y)
  BY DEF vTaskPlaceOnEventListRestricted, Stopped
<1>2. l \in Lists(Task)
  <2>1. j.waiting[TimerQueue] \in Lists(Task) /\ TimerTask \notin Members(j.waiting[TimerQueue])
    BY TaskType DEF Known, Kern
  <2> QED
    BY <2>1, TaskType, AppendToList
<1> HIDE DEF l, i
<1>3. Kern(u) /\ u.tick = j.tick /\ u.pendedTicks = j.pendedTicks /\ u.pxCurrentTCB = TimerTask
  BY <1>2, TaskType DEF Known, Kern, Fields, Stopped
<1> HIDE DEF u
<1>4. /\ i.wake[TimerTask] = Later(u.tick, y) /\ TimerTask \in Delays(i)
      /\ i.tick = u.tick /\ i.pendedTicks = u.pendedTicks
  BY <1>1, <1>3, DelayWake
<1> QED
  BY <1>3, <1>4 DEF i

\* The calls of the timer task, of the other tasks and of the exceptions.
LEMMA CalmCalls ==
  ASSUME RunsInv, NEW t, Calls(t)
  PROVE  Calm(k', k)
<1>1. Known(k) /\ Calm(k, k)
  BY DEF RunsInv, Calm, Dozes
<1> QED
  BY <1>1, CalmNotify DEF Calls

LEMMA CalmResend ==
  ASSUME RunsInv, NEW m, Resend(m), TimerTask \in ReadyTasks(k)
  PROVE  Calm(k', k) /\ (k'.failed = k.failed \/ k'.failed = TRUE) /\ (Fits => k' = k)
<1>1. Known(k) /\ Calm(k, k)
  BY DEF RunsInv, Calm, Dozes
<1>2. k' = k \/ (k' = configASSERT(k, FALSE) /\ ~Fits)
  BY <1>1, NobodyWaits DEF Resend
<1>3. CASE k' = k
  BY <1>1, <1>3
<1>4. CASE k' = configASSERT(k, FALSE) /\ ~Fits
  <2>1. k'.failed = TRUE
    BY <1>1, <1>4 DEF configASSERT, Known, Kern, Fields
  <2> QED
    BY <1>1, <1>4, <2>1, CalmFail DEF Known
<1> QED
  BY <1>2, <1>3, <1>4

LEMMA CalmCommand ==
  ASSUME RunsInv, NEW s \in {Routing, Console}, Runs(s), NEW m, xTimerGenericCommand(m)
  PROVE  Calm(k', k) /\ (Fits => Members(k'.waiting[TimerQueue]) = {})
<1>1. Free(k) /\ Known(k) /\ Calm(k, k)
  BY OtherRuns, TaskType DEF Calm, Dozes
<1>2. k' = IF Fits THEN AfterSend(k) ELSE k
  BY DEF xTimerGenericCommand
<1> QED
  BY <1>1, <1>2, CalmSend

LEMMA CalmUsers ==
  ASSUME RunsInv, Users
  PROVE  Calm(k', k)
<1>0. Calm(k, k) /\ Known(k)
  BY DEF Calm, Dozes, RunsInv
<1>1. ASSUME NEW s \in Senders, NEW t \in Timer, Start(s, t) \/ Stop(s, t) \/ StartPeriod(s, t)
      PROVE  Calm(k', k)
  <2>1. s \in {Routing, Console} /\ Runs(s)
    BY <1>1, TaskType DEF Start, Stop, StartPeriod, UserAt
  <2>2. (UNCHANGED k) \/ \E m : xTimerGenericCommand(m)
    BY <1>1 DEF Start, Stop, StartPeriod
  <2> QED
    BY <1>0, <2>1, <2>2, CalmCommand
<1>2. ASSUME NEW s \in Senders, StartAfterPeriod(s) \/ Send(s)
      PROVE  Calm(k', k)
  <2>1. s \in {Routing, Console} /\ Runs(s)
    BY <1>2, TaskType DEF StartAfterPeriod, Send, UserAt
  <2>2. (UNCHANGED k) \/ \E m : xTimerGenericCommand(m)
    BY <1>2 DEF StartAfterPeriod, Send
  <2> QED
    BY <1>0, <2>1, <2>2, CalmCommand
<1>3. CASE WaitForNotify
  <2>1. Runs(Routing) /\ k' = NotifyTake(k, MaxDelay)
    BY <1>3 DEF WaitForNotify, UserAt
  <2> QED
    BY <1>0, <2>1, CalmTake DEF Runs
<1>4. CASE Awake
  <2>1. Runs(Routing) /\ k' = NotifyTaken(k)
    BY <1>4 DEF Awake, UserAt
  <2> QED
    BY <1>0, <2>1, CalmTaken DEF Runs
<1>5. CASE IdleYields
  BY <1>0, <1>5, CalmYield DEF IdleYields, Known
<1> QED
  BY <1>1, <1>2, <1>3, <1>4, <1>5 DEF Users

LEMMA CalmException ==
  ASSUME RunsInv, PendSV \/ BusIsr
  PROVE  Calm(k', k)
<1>0. Known(k) /\ (Free(k) \/ Stopped(k))
  BY DEF RunsInv
<1>1. CASE PendSV
  BY <1>0, <1>1, CalmSwitch DEF PendSV
<1>2. CASE BusIsr
  <2>1. \E b : k' = notifyFromISRWithWake(k, Routing, b)
    BY <1>2, Zenon DEF BusIsr
  <2> QED
    BY <1>0, <2>1, CalmNotifyIsr
<1> QED
  BY <1>1, <1>2

-----------------------------------------------------------------------------
(***************************************************************************)
(* What the refinement needs to know.                                      *)
(***************************************************************************)
\* The timer task is in prvSwitchTimerLists(); it has taken a command out of the
\* queue that is not obeyed yet.
Switching == tmr.at \in {"switch", "reload"}
Working ==
  \/ tmr.at \in {"time", "command", "restart"}
  \/ Switching /\ tmr.then = "command"
\* The time that the two lists count from, and what a time in the overflow list is
\* ahead of its list: while the lists are switched, the tick count has come round.
Ref  == IF Switching THEN tmr.now ELSE lastTime
Turn == IF Switching THEN Ticks ELSE 0
\* How far the time of a timer lies from Ref, told from the list that it is in.
Ahead(t) == ((IF t \in Members(overflow) THEN Expiry[t] + Ticks ELSE Expiry[t]) - Turn) - Ref
\* The list says rightly when a timer is due.
DueAhead(t) ==
  /\ From(Now, Expiry[t]) = Ahead(t) - Gap(Now, Ref)
  /\ Ahead(t) < Ticks - MaxLate

\* A timer is in one list at most, and in none while a command about it, or its
\* reload, is under way.
Apart ==
  /\ Members(current) \cap Members(overflow) = {}
  /\ (tmr.msg.cmd # "none") <=> Working
  /\ Working => ~Running(tmr.msg.timer)
  /\ tmr.at = "reload" => tmr.timer \notin Members(current) \cup Members(overflow)
  /\ tmr.at = "restart" => tmr.msg.cmd \in {"start", "again"}
  /\ rung \in [Timer -> BOOLEAN]

\* No period is as long as the clock, and no start is sent that is too old to tell.
Sound ==
  /\ \A t \in Timer : timer[t].period + MaxLate < Ticks
  /\ \A m \in Members(Ours) :
       /\ m.cmd = "period" => m.value + MaxLate < Ticks
       /\ m.cmd = "start" => Gap(Now, m.value) <= MaxLate
  /\ \A s \in Senders : user[s].at = "send" => Gap(Now, user[s].msg.value) <= MaxLate

\* The time that the timer task has read is not much older than the present, and
\* what it found in the lists is still there.
Lag ==
  /\ k.pendedTicks \in Nat /\ k.pendedTicks <= MaxLate
  /\ tmr.at \in {"expired", "command", "process", "switch", "reload"} => Gap(Now, tmr.now) <= MaxLate
  /\ tmr.at = "expired" => tmr.now = k.tick
  /\ tmr.at \in {"expired", "process"} => tmr.next = HeadExpiry /\ tmr.next <= tmr.now

\* A timer that is started again at once was due already, and the time that the
\* timer task reads after it has taken a command is not before the command.
Ages ==
  /\ tmr.at = "restart" => Gap(Now, tmr.msg.value) >= timer[tmr.msg.timer].period
  /\ (tmr.at = "command" \/ (Switching /\ tmr.then = "command")) /\ tmr.msg.cmd \in {"start", "again"} =>
       Gap(Now, tmr.now) <= Gap(Now, tmr.msg.value)

\* Every timer that runs is due when its list says so.
Dues == \A t \in Timer : Running(t) => DueAhead(t)

\* All of it: the inductive invariant, on top of RunsInv and TimeInv.
PromiseInv == Apart /\ Sound /\ Lag /\ Ages /\ Dues

LEMMA NowType ==
  ASSUME RunsInv, TimeInv
  PROVE  Now \in Span /\ k.tick \in Span /\ (~Held => Now = k.tick)
<1>1. k.tick \in Span
  BY DEF TimeInv, Timed, Ordered
<1>2. k.pendedTicks \in Nat
  BY DEF RunsInv, Free, Stopped
<1>3. Now \in Span
  <2> DEFINE n == k.tick
             d == k.pendedTicks
  <2>1. n \in Int /\ d \in Int
    <3>1. n \in Span /\ d \in Nat
      BY <1>1, <1>2
    <3> HIDE DEF n, d
    <3>2. n \in Int
      BY <3>1, SpanMember, Zenon
    <3> QED
      BY <3>1, <3>2
  <2> HIDE DEF n, d
  <2>2. Later(n, d) \in Span
    BY <2>1, LaterType
  <2> QED
    BY <2>2 DEF Now, n, d
<1>4. ~Held => k.pendedTicks = 0
  BY DEF RunsInv, Free
<1> QED
  BY <1>1, <1>3, <1>4, LaterNone DEF Now

LEMMA MembersAppend ==
  ASSUME NEW S, NEW list \in Seq(S), NEW m \in S
  PROVE  Members(Append(list, m)) = Members(list) \cup {m}
<1>1. /\ DOMAIN list = 1..Len(list) /\ Len(list) \in Nat
      /\ DOMAIN Append(list, m) = 1..(Len(list) + 1)
      /\ \A i \in 1..Len(list) : Append(list, m)[i] = list[i]
      /\ Append(list, m)[Len(list) + 1] = m
  OBVIOUS
<1>2. 1..(Len(list) + 1) = (1..Len(list)) \cup {Len(list) + 1}
  BY <1>1
<1> QED
  BY <1>1, <1>2 DEF Members

LEMMA MembersTail ==
  ASSUME NEW S, NEW list \in Seq(S), list # <<>>
  PROVE  /\ Members(Tail(list)) \subseteq Members(list) /\ Head(list) \in Members(list)
         /\ Members(list) = Members(Tail(list)) \cup {Head(list)}
<1>1. /\ DOMAIN list = 1..Len(list) /\ Len(list) \in Nat /\ Len(list) >= 1
      /\ DOMAIN Tail(list) = 1..(Len(list) - 1)
      /\ \A i \in 1..(Len(list) - 1) : Tail(list)[i] = list[i + 1]
      /\ Head(list) = list[1]
  OBVIOUS
<1>2. ASSUME NEW i \in 1..(Len(list) - 1) PROVE i + 1 \in 1..Len(list)
  BY <1>1
<1>3. ASSUME NEW i \in 1..Len(list) PROVE i = 1 \/ (i - 1 \in 1..(Len(list) - 1) /\ Tail(list)[i - 1] = list[i])
  BY <1>1
<1>4. Members(Tail(list)) \subseteq Members(list) /\ Head(list) \in Members(list)
  BY <1>1, <1>2 DEF Members
<1>5. Members(list) \subseteq Members(Tail(list)) \cup {Head(list)}
  <2> SUFFICES ASSUME NEW i \in 1..Len(list) PROVE list[i] \in Members(Tail(list)) \cup {Head(list)}
    BY <1>1 DEF Members
  <2> QED
    BY <1>1, <1>3 DEF Members
<1> QED
  BY <1>4, <1>5

\* The commands that are not obeyed yet.
LEMMA OursType ==
  ASSUME RunsInv, TimeInv, Apart
  PROVE  /\ Ours \in Seq(Command) /\ timerQ \in Seq(Command)
         /\ ~Working => Ours = timerQ
         /\ Working => /\ tmr.msg \in Command /\ Ours = <<tmr.msg>> \o timerQ
                       /\ Ours # <<>> /\ Head(Ours) = tmr.msg /\ Tail(Ours) = timerQ
<1>1. timerQ \in Seq(Command)
  BY DEF TimeInv, Queued
<1>2. ~Working => Ours = timerQ
  BY DEF Ours, Apart
<1>3. Working => tmr.msg \in Command /\ Ours = <<tmr.msg>> \o timerQ
  BY DEF Ours, Apart, Working, TimeInv, Received, Switching
<1> QED
  BY <1>1, <1>2, <1>3, ConsIs

LEMMA GapSplit ==
  ASSUME NEW n \in Span, NEW x \in Span, NEW y \in Span, Gap(n, x) <= Gap(n, y)
  PROVE  Gap(x, y) = Gap(n, y) - Gap(n, x)
<1>1. /\ Gap(n, x) = IF n >= x THEN n - x ELSE (n - x) + Ticks
      /\ Gap(n, y) = IF n >= y THEN n - y ELSE (n - y) + Ticks
      /\ Gap(x, y) = IF x >= y THEN x - y ELSE (x - y) + Ticks
  BY GapValue
<1>2. n \in Int /\ 0 <= n /\ n < Ticks /\ x \in Int /\ 0 <= x /\ x < Ticks /\ y \in Int /\ 0 <= y /\ y < Ticks
  BY SpanMember, Zenon
<1> QED
  BY <1>1, <1>2, SpanType

\* The time at which each timer is due, before and after a step.
LEMMA DueOfSame ==
  ASSUME Now' = Now,
         \A t \in Timer : Running(t)' <=> Running(t),
         \A t \in Timer : Running(t) => Expiry'[t] = Expiry[t]
  PROVE  DueOf' = DueOf
<1>1. {u \in Timer : Running(u)'} = {u \in Timer : Running(u)}
  OBVIOUS
<1> QED
  BY <1>1, DueIs

LEMMA DuesSame ==
  ASSUME Dues, Now' = Now, Gap(Now, Ref') = Gap(Now, Ref),
         \A t \in Timer : Running(t)' => Running(t) /\ Expiry'[t] = Expiry[t] /\ Ahead(t)' = Ahead(t)
  PROVE  Dues'
<1> SUFFICES ASSUME NEW t \in Timer, Running(t)' PROVE DueAhead(t)'
  BY DEF Dues
<1>1. DueAhead(t) /\ Expiry'[t] = Expiry[t] /\ Ahead(t)' = Ahead(t)
  BY DEF Dues
<1> QED
  BY <1>1 DEF DueAhead, From, Gap

LEMMA PlaceSame ==
  ASSUME UNCHANGED <<timer, overflow>>, Turn' = Turn, Ref' = Ref
  PROVE  \A t \in Timer : Ahead(t)' = Ahead(t) /\ Expiry'[t] = Expiry[t]
<1>1. Expiry' = Expiry
  BY DEF Expiry
<1> QED
  BY <1>1 DEF Ahead

-----------------------------------------------------------------------------
(***************************************************************************)
(* Steps that the abstract timers do not see.                              *)
(***************************************************************************)
\* A step of the abstract timers, or none.
Goes == Promised!Next \/ UNCHANGED Promised!vars

LEMMA NowCalm ==
  ASSUME Calm(k', k)
  PROVE  Now' = Now /\ k'.tick = k.tick /\ k'.pendedTicks = k.pendedTicks
BY DEF Calm, Now

LEMMA SoundSame ==
  ASSUME Sound, Now' = Now, PeriodOf' = PeriodOf,
         \A m \in Members(Ours') : m \in Members(Ours) \/ m.cmd = "again"
                    \/ (m.cmd = "period" /\ m.value + MaxLate < Ticks)
                    \/ (m.cmd = "start" /\ Gap(Now, m.value) <= MaxLate)
                    \/ m.cmd = "stop",
         \A s \in Senders : user'[s].at = "send" => Gap(Now, user'[s].msg.value) <= MaxLate
  PROVE  Sound'
<1>1. \A t \in Timer : timer'[t].period = timer[t].period
  BY DEF PeriodOf
<1>2. \A t \in Timer : timer'[t].period + MaxLate < Ticks
  BY <1>1 DEF Sound
<1>3. ASSUME NEW m \in Members(Ours')
      PROVE  /\ m.cmd = "period" => m.value + MaxLate < Ticks
             /\ m.cmd = "start" => Gap(Now', m.value) <= MaxLate
  BY <1>3 DEF Sound
<1>4. \A s \in Senders : user'[s].at = "send" => Gap(Now', user'[s].msg.value) <= MaxLate
  OBVIOUS
<1> QED
  BY <1>2, <1>3, <1>4 DEF Sound, Members, Gap

\* A step that the abstract timers do not see.
LEMMA Idles ==
  ASSUME PromiseInv, Now' = Now, Ours' = Ours, PeriodOf' = PeriodOf, RungOf' = RungOf, k'.failed = k.failed,
         Apart', Lag', Ages',
         \A s \in Senders : user'[s].at = "send" => Gap(Now, user'[s].msg.value) <= MaxLate,
         \A t \in Timer : Running(t)' <=> Running(t),
         \A t \in Timer : Running(t) => /\ Expiry'[t] = Expiry[t]
                                        /\ Ahead(t)' - Gap(Now, Ref') = Ahead(t) - Gap(Now, Ref)
                                        /\ Ahead(t)' < Ticks - MaxLate
  PROVE  PromiseInv' /\ UNCHANGED Promised!vars
<1>1. Sound'
  BY SoundSame DEF PromiseInv
<1>2. Dues'
  <2> SUFFICES ASSUME NEW t \in Timer, Running(t)' PROVE DueAhead(t)'
    BY DEF Dues
  <2>1. DueAhead(t)
    BY DEF PromiseInv, Dues
  <2>2. From(Now', Expiry'[t]) = Ahead(t)' - Gap(Now', Ref') /\ Ahead(t)' < Ticks - MaxLate
    BY <2>1 DEF DueAhead
  <2> QED
    BY <2>2 DEF DueAhead, From, Gap
<1>3. DueOf' = DueOf
  BY DueOfSame
<1>4. Cmds' = Cmds
  BY CmdsIs
<1> QED
  BY <1>1, <1>2, <1>3, <1>4, StutterPromise DEF PromiseInv

LEMMA AheadSame ==
  ASSUME UNCHANGED <<timer, overflow>>, Turn' = Turn, Ref' = Ref, PromiseInv
  PROVE  \A t \in Timer : Running(t) => /\ Expiry'[t] = Expiry[t]
                                        /\ Ahead(t)' - Gap(Now, Ref') = Ahead(t) - Gap(Now, Ref)
                                        /\ Ahead(t)' < Ticks - MaxLate
<1>1. \A t \in Timer : Ahead(t)' = Ahead(t) /\ Expiry'[t] = Expiry[t]
  BY PlaceSame
<1> QED
  BY <1>1 DEF PromiseInv, Dues, DueAhead

\* Neither the lists nor the timer task change.
LEMMA ApartSame ==
  ASSUME Apart, UNCHANGED <<current, overflow, tmr, rung>>
  PROVE  Apart'
<1>1. (Working' <=> Working) /\ Members(current)' = Members(current) /\ Members(overflow)' = Members(overflow)
  BY DEF Working, Switching, Members
<1>3. /\ tmr'.msg = tmr.msg /\ tmr'.at = tmr.at /\ tmr'.timer = tmr.timer
  OBVIOUS
<1>4. Members(current') \cap Members(overflow') = {} /\ rung' \in [Timer -> BOOLEAN]
  BY DEF Apart
<1>5. (tmr'.msg.cmd # "none") <=> Working'
  BY <1>1, <1>3 DEF Apart
<1>6. (Working => ~Running(tmr.msg.timer))'
  BY <1>1, <1>3 DEF Apart, Running, Members
<1>7. /\ tmr'.at = "reload" => tmr'.timer \notin Members(current') \cup Members(overflow')
      /\ tmr'.at = "restart" => tmr'.msg.cmd \in {"start", "again"}
  BY <1>3 DEF Apart
<1> QED
  BY <1>4, <1>5, <1>6, <1>7 DEF Apart, Members

\* A step of another task or of an exception.
LEMMA AsideSame ==
  ASSUME RunsInv, PromiseInv, UNCHANGED <<timer, current, overflow, lastTime, timerQ, tmr, rung>>,
         Calm(k', k), k'.failed = k.failed,
         \A s \in Senders : user'[s].at = "send" => Gap(Now, user'[s].msg.value) <= MaxLate
  PROVE  PromiseInv' /\ UNCHANGED Promised!vars
<1>1. Now' = Now /\ k'.tick = k.tick /\ k'.pendedTicks = k.pendedTicks
  BY NowCalm
<1>2. Ours' = Ours /\ PeriodOf' = PeriodOf /\ RungOf' = RungOf /\ Turn' = Turn /\ Ref' = Ref
  BY DEF Ours, PeriodOf, RungOf, Between, Turn, Ref, Switching
<1>3. \A t \in Timer : Running(t)' <=> Running(t)
  BY DEF Running, Members
<1>4. Apart'
  BY ApartSame DEF PromiseInv
<1>5. Lag'
  BY <1>1 DEF PromiseInv, Lag, HeadExpiry, Expiry, Gap
<1>6. Ages'
  BY <1>1 DEF PromiseInv, Ages, Switching, Gap
<1> QED
  BY <1>1, <1>2, <1>3, <1>4, <1>5, <1>6, AheadSame, Idles

LEMMA OursGrows ==
  ASSUME RunsInv, TimeInv, Apart, NEW m \in Command, timerQ' = Append(timerQ, m),
         tmr'.msg = tmr.msg \/ (~Working /\ tmr'.msg.cmd = "none")
  PROVE  Ours' = Append(Ours, m) /\ Members(Ours') = Members(Ours) \cup {m} /\ Ours' # Ours
<1>1. Ours \in Seq(Command) /\ timerQ \in Seq(Command)
  BY OursType
<1>2. Ours' = Append(Ours, m)
  <2>1. CASE Working
    <3>1. tmr.msg \in Command /\ tmr.msg.cmd # "none"
      BY <2>1, OursType DEF Apart
    <3>2. Ours = <<tmr.msg>> \o timerQ /\ Ours' = <<tmr.msg>> \o Append(timerQ, m)
      BY <2>1, <3>1 DEF Ours
    <3> QED
      BY <1>1, <3>1, <3>2, ConsIs
  <2>2. CASE ~Working
    <3>1. tmr.msg.cmd = "none"
      BY <2>2 DEF Apart
    <3> QED
      BY <3>1 DEF Ours
  <2> QED
    BY <2>1, <2>2
<1>3. Members(Append(Ours, m)) = Members(Ours) \cup {m}
  BY <1>1, MembersAppend
<1>4. Append(Ours, m) # Ours
  <2>1. Len(Append(Ours, m)) = Len(Ours) + 1 /\ Len(Ours) \in Nat
    BY <1>1
  <2> QED
    BY <2>1
<1> QED
  BY <1>2, <1>3, <1>4

\* A command is sent.
LEMMA CommandSame ==
  ASSUME RunsInv, TimeInv, PromiseInv, UNCHANGED <<timer, current, overflow, lastTime, tmr, rung>>,
         Calm(k', k), k'.failed = k.failed,
         \A s \in Senders : user'[s].at = "send" => Gap(Now, user'[s].msg.value) <= MaxLate,
         NEW m \in Command, m.cmd # "again",
         m.cmd = "period" => m.value \in AllPeriods /\ m.value + MaxLate < Ticks,
         m.cmd = "start" => Gap(Now, m.value) <= MaxLate,
         timerQ' = IF Fits THEN Append(timerQ, m) ELSE timerQ
  PROVE  PromiseInv' /\ Goes
<1>0. CASE ~Fits
  BY <1>0, AsideSame DEF Goes
<1>a. CASE Fits
  <2>1. Now' = Now /\ k'.tick = k.tick /\ k'.pendedTicks = k.pendedTicks
    BY NowCalm
  <2>2. PeriodOf' = PeriodOf /\ RungOf' = RungOf /\ Turn' = Turn /\ Ref' = Ref
    BY DEF PeriodOf, RungOf, Between, Turn, Ref, Switching
  <2>3. \A t \in Timer : Running(t)' <=> Running(t)
    BY DEF Running, Members
  <2>4. Apart'
    BY ApartSame DEF PromiseInv
  <2>5. Lag'
    BY <2>1 DEF PromiseInv, Lag, HeadExpiry, Expiry, Gap
  <2>6. Ages'
    BY <2>1 DEF PromiseInv, Ages, Switching, Gap
  <2>7. Ours' = Append(Ours, m) /\ Members(Ours') = Members(Ours) \cup {m} /\ Ours \in Seq(Command)
    BY <1>a, OursGrows, OursType DEF PromiseInv
  <2>8. m.cmd \in {"start", "stop", "period"}
    BY DEF Command
  <2>9. Sound'
    BY <2>1, <2>2, <2>7, <2>8, SoundSame DEF PromiseInv
  <2>10. \A t \in Timer : Ahead(t)' = Ahead(t) /\ Expiry'[t] = Expiry[t]
    BY <2>2, PlaceSame
  <2>11. Dues'
    BY <2>1, <2>2, <2>3, <2>10, DuesSame DEF PromiseInv
  <2>12. DueOf' = DueOf
    BY <2>1, <2>3, <2>10, DueOfSame
  <2>13. Cmds' = Append(Cmds, Told(m, Now))
    BY <2>1, <2>7, CmdsIs, ToldAppend
  <2>14. Cmds' # Cmds
    <3>1. Cmds = ToldAll(Ours, Now) /\ Cmds \in Seq({Told(x, Now) : x \in Command})
      BY <2>7, CmdsIs, ToldAllType
    <3>2. Len(Cmds') = Len(Cmds) + 1 /\ Len(Cmds) \in Nat
      BY <2>13, <3>1
    <3> QED
      BY <3>2
  <2>15. Now \in Span
    BY NowType
  <2>16. Promised!Next
    BY <2>2, <2>12, <2>13, <2>14, <2>15, SubmitPromise
  <2> QED
    BY <2>4, <2>5, <2>6, <2>9, <2>11, <2>16 DEF PromiseInv, Goes
<1> QED
  BY <1>0, <1>a

-----------------------------------------------------------------------------
(***************************************************************************)
(* The other tasks, the exceptions, and the wait of the timer task.        *)
(***************************************************************************)
LEMMA PendSVPromise ==
  ASSUME RunsInv, PromiseInv, PendSV \/ BusIsr, k'.failed = k.failed
  PROVE  PromiseInv' /\ Goes
<1>1. UNCHANGED <<timer, current, overflow, lastTime, timerQ, tmr, rung, user>>
  BY Zenon DEF PendSV, BusIsr, timerVars
<1>2. Calm(k', k)
  BY CalmException
<1>3. \A s \in Senders : user'[s].at = "send" => Gap(Now, user'[s].msg.value) <= MaxLate
  BY <1>1 DEF PromiseInv, Sound
<1> QED
  BY <1>1, <1>2, <1>3, AsideSame DEF Goes

LEMMA UserPromise ==
  ASSUME RunsInv, TimeInv, PromiseInv, Users
  PROVE  PromiseInv' /\ Goes
<1>1. UNCHANGED <<timer, current, overflow, lastTime, tmr, rung>>
  BY Zenon DEF Users, Start, Stop, StartPeriod, StartAfterPeriod, Send, WaitForNotify, Awake, IdleYields,
     TimersUnchanged, timerVars
<1>2. Calm(k', k) /\ k'.failed = k.failed
  BY CalmUsers, UserKept DEF Steady
<1>3. DOMAIN user = {Routing, Console} /\ Senders \subseteq {Routing, Console} /\ Routing # Console
  BY TaskType DEF TimeInv, Prepared
<1>4. \A s \in Senders : user[s].at = "send" => Gap(Now, user[s].msg.value) <= MaxLate
  BY DEF PromiseInv, Sound
<1>5. Now \in Span /\ MaxLate \in Nat /\ k.tick \in Span
  BY NowType, LateType
<1>6. ASSUME NEW s \in Senders, Runs(s)
      PROVE  Gap(Now, k.tick) <= MaxLate
  <2>1. ~Held
    BY <1>3, <1>6, OtherRuns, TaskType
  <2>2. Now = k.tick
    BY <2>1, NowType
  <2>3. Gap(Now, k.tick) = 0
    BY <1>5, <2>2, GapSelf
  <2> QED
    BY <1>5, <2>3
<1>7. ASSUME NEW s \in Senders, NEW t \in Timer, Start(s, t)
      PROVE  PromiseInv' /\ Goes
  <2>1. /\ Runs(s) /\ timerQ' = timerQ
        /\ user' = [user EXCEPT ![s] = [at |-> "send", msg |-> Message("start", t, k.tick)]]
    BY <1>7 DEF Start, UserAt
  <2>2. Message("start", t, k.tick).value = k.tick
    BY DEF Message
  <2>3. \A x \in Senders : user'[x].at = "send" => Gap(Now, user'[x].msg.value) <= MaxLate
    BY <1>3, <1>4, <1>6, <2>1, <2>2
  <2> QED
    BY <1>1, <1>2, <2>1, <2>3, AsideSame DEF Goes
<1>8. ASSUME NEW s \in Senders, NEW t \in Timer, Stop(s, t)
      PROVE  PromiseInv' /\ Goes
  <2> DEFINE m == Message("stop", t, 0)
  <2>1. /\ timerQ' = IF Fits THEN Append(timerQ, m) ELSE timerQ
        /\ user' = user
    BY <1>8 DEF Stop, xTimerGenericCommand
  <2>2. m \in Command /\ m.cmd = "stop"
    BY SpanType DEF Message, Command
  <2> HIDE DEF m
  <2> QED
    BY <1>1, <1>2, <1>4, <2>1, <2>2, CommandSame
<1>9. ASSUME NEW s \in Senders, NEW t \in Timer, StartPeriod(s, t)
      PROVE  PromiseInv' /\ Goes
  <2> DEFINE m == Message("period", t, NewPeriod[t])
  <2>1. /\ timerQ' = IF Fits THEN Append(timerQ, m) ELSE timerQ
        /\ user' = [user EXCEPT ![s] = [at |-> "start", msg |-> Message("start", t, 0)]]
    BY <1>9 DEF StartPeriod, xTimerGenericCommand
  <2>2. m \in Command /\ m.cmd = "period" /\ m.value = NewPeriod[t]
    BY PeriodType DEF Message, Command
  <2>3. NewPeriod[t] \in AllPeriods /\ NewPeriod[t] + MaxLate < Ticks
    BY TickRangeAssumption DEF AllPeriods
  <2>4. \A x \in Senders : user'[x].at = "send" => Gap(Now, user'[x].msg.value) <= MaxLate
    BY <1>3, <1>4, <2>1
  <2> HIDE DEF m
  <2> QED
    BY <1>1, <1>2, <2>1, <2>2, <2>3, <2>4, CommandSame
<1>10. ASSUME NEW s \in Senders, StartAfterPeriod(s)
       PROVE  PromiseInv' /\ Goes
  <2>1. /\ Runs(s) /\ timerQ' = timerQ /\ user[s].at = "start"
        /\ user' = [user EXCEPT ![s].at = "send", ![s].msg.value = k.tick]
    BY <1>10 DEF StartAfterPeriod, UserAt
  <2>2. user[s].msg \in Command /\ DOMAIN user[s] = {"at", "msg"}
    BY <1>3, <2>1 DEF TimeInv, Prepared
  <2>3. user'[s].msg.value = k.tick /\ \A x \in Senders \ {s} : user'[x] = user[x]
    BY <1>3, <2>1, <2>2 DEF Command
  <2>4. \A x \in Senders : user'[x].at = "send" => Gap(Now, user'[x].msg.value) <= MaxLate
    BY <1>4, <1>6, <2>1, <2>3
  <2> QED
    BY <1>1, <1>2, <2>1, <2>4, AsideSame DEF Goes
<1>11. ASSUME NEW s \in Senders, Send(s)
       PROVE  PromiseInv' /\ Goes
  <2> DEFINE m == user[s].msg
  <2>1. /\ user[s].at = "send" /\ timerQ' = IF Fits THEN Append(timerQ, m) ELSE timerQ
        /\ user' = [user EXCEPT ![s] = [at |-> "loop", msg |-> NoMessage]]
    BY <1>11 DEF Send, UserAt, xTimerGenericCommand
  <2>2. m \in Command /\ m.cmd = "start"
    BY <1>3, <2>1 DEF TimeInv, Prepared
  <2>3. Gap(Now, m.value) <= MaxLate
    BY <1>4, <2>1
  <2>4. \A x \in Senders : user'[x].at = "send" => Gap(Now, user'[x].msg.value) <= MaxLate
    BY <1>3, <1>4, <2>1
  <2> HIDE DEF m
  <2> QED
    BY <1>1, <1>2, <2>1, <2>2, <2>3, <2>4, CommandSame
<1>12. ASSUME WaitForNotify \/ Awake \/ IdleYields
       PROVE  PromiseInv' /\ Goes
  <2>1. timerQ' = timerQ
    BY <1>12 DEF WaitForNotify, Awake, IdleYields
  <2>2. \/ user' = user
        \/ user' = [user EXCEPT ![Routing].at = "wait"]
        \/ user' = [user EXCEPT ![Routing].at = "loop"]
    BY <1>12 DEF WaitForNotify, Awake, IdleYields, UserGo
  <2>3. DOMAIN user[Routing] = {"at", "msg"}
    BY DEF TimeInv, Prepared
  <2>4. \A x \in Senders : user'[x].at = "send" => user'[x] = user[x]
    BY <1>3, <2>2, <2>3
  <2>5. \A x \in Senders : user'[x].at = "send" => Gap(Now, user'[x].msg.value) <= MaxLate
    BY <1>4, <2>4
  <2> QED
    BY <1>1, <1>2, <2>1, <2>5, AsideSame DEF Goes
<1> QED
  BY <1>7, <1>8, <1>9, <1>10, <1>11, <1>12 DEF Users

\* The scheduler is resumed: the ticks that were kept are made up for.
LEMMA NowResumed ==
  ASSUME RunsInv, TimeInv, PromiseInv, Blocked \/ Resume \/ ResumeExpired
  PROVE  Now' = Now /\ k'.pendedTicks = 0 /\ k'.failed = k.failed
<1> DEFINE i == xTaskResumeAll(k)
           n == k.tick
           d == k.pendedTicks
<1>1. Kern(k) /\ EndMark \notin Task /\ k.suspended = 1 /\ d \in Nat /\ (k.pendSV \/ Level(k)) /\ Timed(k)
  BY TaskType DEF Blocked, Resume, ResumeExpired, At, RunsInv, Held, Known, Stopped, TimeInv
<1>2. n \in Span /\ d \in Span
  <2>1. n \in Span
    BY NowType
  <2>2. d \in Nat /\ d <= MaxLate
    BY DEF PromiseInv, Lag
  <2> HIDE DEF n, d
  <2>3. d \in Span
    BY <2>2, LateType, SpanType DEF Span
  <2> QED
    BY <2>1, <2>3
<1>3. i.tick = Later(n, d) /\ i.pendedTicks = 0 /\ i.failed = k.failed /\ Kern(i)
  BY <1>1, <1>2, ResumeAllKernel
<1>4. k' = i \/ k' = portYIELD(i)
  BY DEF Blocked, Resume, ResumeExpired, ResumeAndYield
<1> HIDE DEF i
<1>5. k'.tick = i.tick /\ k'.pendedTicks = i.pendedTicks /\ k'.failed = i.failed
  BY <1>3, <1>4 DEF portYIELD, Kern, Fields
<1>6. Later(n, d) \in Span
  <2> HIDE DEF n, d
  <2> QED
    BY <1>2, LaterType, SpanType
<1>7. Now' = Later(k'.tick, k'.pendedTicks) /\ Now = Later(n, d)
  BY DEF Now
<1>8. Now' = Now
  <2> HIDE DEF n, d
  <2> QED
    BY <1>3, <1>5, <1>6, <1>7, LaterNone
<1> QED
  BY <1>3, <1>5, <1>8

\* The timer task goes on to another place, with nothing to do there.
LEMMA Arrives ==
  ASSUME PromiseInv, UNCHANGED <<timer, current, overflow, timerQ, user>>,
         Now' = Now, k'.failed = k.failed, RungOf' = RungOf, rung' \in [Timer -> BOOLEAN],
         ~Working, ~Working', tmr.at # "reload", tmr'.at # "reload", tmr'.msg.cmd = "none", Lag',
         \A t \in Timer : Running(t) => /\ Expiry'[t] = Expiry[t]
                                        /\ Ahead(t)' - Gap(Now, Ref') = Ahead(t) - Gap(Now, Ref)
                                        /\ Ahead(t)' < Ticks - MaxLate
  PROVE  PromiseInv' /\ Goes
<1>1. Ours' = Ours /\ PeriodOf' = PeriodOf
  BY DEF Ours, PeriodOf, PromiseInv, Apart
<1>2. \A t \in Timer : Running(t)' <=> Running(t)
  BY DEF Running, Members
<1>3. Apart'
  BY DEF PromiseInv, Apart, Working, Members
<1>4. Ages'
  BY DEF PromiseInv, Ages, Apart, Working
<1>5. \A s \in Senders : user'[s].at = "send" => Gap(Now, user'[s].msg.value) <= MaxLate
  BY DEF PromiseInv, Sound
<1> QED
  BY <1>1, <1>2, <1>3, <1>4, <1>5, Idles DEF Goes

\* The timer task looks at the time.
LEMMA AheadLater ==
  ASSUME RunsInv, TimeInv, PromiseInv, UNCHANGED <<timer, overflow>>, NEW n \in Span, Now = n,
         Turn = 0, Ref = lastTime, Ref' = n,
         Turn' = IF n < lastTime THEN Ticks ELSE 0
  PROVE  \A t \in Timer : Running(t) => /\ Expiry'[t] = Expiry[t]
                                        /\ Ahead(t)' - Gap(Now, Ref') = Ahead(t) - Gap(Now, Ref)
                                        /\ Ahead(t)' < Ticks - MaxLate
<1> SUFFICES ASSUME NEW t \in Timer, Running(t)
             PROVE  /\ Expiry'[t] = Expiry[t]
                    /\ Ahead(t)' - Gap(Now, Ref') = Ahead(t) - Gap(Now, Ref)
                    /\ Ahead(t)' < Ticks - MaxLate
  OBVIOUS
<1> DEFINE a == IF t \in Members(overflow) THEN Expiry[t] + Ticks ELSE Expiry[t]
           g == Gap(Now, Ref)
           h == Gap(Now, Ref')
           b == Turn'
<1>1. Expiry' = Expiry
  BY DEF Expiry
<1>2. Ahead(t) = (a - 0) - lastTime /\ Ahead(t)' = (a - b) - n
  BY <1>1 DEF Ahead, Members
<1>3. Ahead(t) < Ticks - MaxLate
  BY DEF PromiseInv, Dues, DueAhead
<1>4. Expiry[t] \in Int
  <2>1. Expiry[t] \in Span
    BY DEF TimeInv, Counted, Expiry
  <2> QED
    BY <2>1, SpanType
<1>5. lastTime \in Span
  BY DEF TimeInv, Counted
<1>6. a \in Int /\ n \in Int /\ lastTime \in Int /\ n >= 0 /\ n < Ticks /\ lastTime >= 0 /\ lastTime < Ticks
  BY <1>4, <1>5, SpanType
<1>7. b = IF n < lastTime THEN Ticks ELSE 0
  OBVIOUS
<1>8. g = (IF n >= lastTime THEN n - lastTime ELSE (n - lastTime) + Ticks) /\ h = 0
  BY <1>5, GapValue, GapSelf
<1> HIDE DEF a, b, g, h
<1>9. ((a - b) - n) - h = ((a - 0) - lastTime) - g
  BY <1>6, <1>7, <1>8, SpanType
<1>10. (a - b) - n < Ticks - MaxLate
  BY <1>2, <1>3, <1>6, <1>7, LateType, SpanType
<1> QED
  BY <1>1, <1>2, <1>9, <1>10 DEF g, h

LEMMA ResumePromise ==
  ASSUME RunsInv, TimeInv, TimeInv', PromiseInv, Blocked \/ Resume \/ ResumeExpired
  PROVE  PromiseInv' /\ Goes
<1>1. UNCHANGED <<timer, current, overflow, lastTime, timerQ, user, rung>>
  BY DEF Blocked, Resume, ResumeExpired, timerVars
<1>2. Now' = Now /\ k'.pendedTicks = 0 /\ k'.failed = k.failed
  BY NowResumed
<1>3. DOMAIN tmr = {"at", "now", "next", "then", "timer", "msg"} /\ tmr.at \in {"blocked", "resume", "expired"}
  BY DEF RunsInv, Returns, Blocked, Resume, ResumeExpired, At
<1>4. /\ tmr'.at \in {"receive", "process"}
      /\ tmr'.at = "process" => tmr.at = "expired" /\ tmr'.now = tmr.now /\ tmr'.next = tmr.next
      /\ tmr'.at = "receive" => tmr'.msg.cmd = "none"
      /\ tmr'.at = "process" => tmr'.msg = tmr.msg
  BY <1>3 DEF Blocked, Resume, ResumeExpired, At, Go, KeepGo, Local, NoMessage
<1>5. ~Working /\ ~Working' /\ ~Switching /\ ~Switching'
  BY <1>3, <1>4 DEF Working, Switching
<1>6. Turn' = Turn /\ Ref' = Ref
  BY <1>1, <1>5 DEF Turn, Ref
<1>7. RungOf' = RungOf
  BY <1>1, <1>3, <1>4 DEF RungOf, Between
<1>8. tmr'.msg.cmd = "none" /\ rung' \in [Timer -> BOOLEAN]
  BY <1>1, <1>4, <1>5 DEF PromiseInv, Apart
<1>9. Lag'
  <2>1. k'.pendedTicks \in Nat /\ k'.pendedTicks <= MaxLate
    BY <1>2, LateType
  <2>2. tmr'.at = "process" => Gap(Now', tmr'.now) <= MaxLate /\ tmr'.next = HeadExpiry' /\ tmr'.next <= tmr'.now
    BY <1>1, <1>2, <1>4 DEF PromiseInv, Lag, HeadExpiry, Expiry
  <2> QED
    BY <1>4, <2>1, <2>2 DEF Lag, Gap
<1>10. \A t \in Timer : Running(t) => /\ Expiry'[t] = Expiry[t]
                                      /\ Ahead(t)' - Gap(Now, Ref') = Ahead(t) - Gap(Now, Ref)
                                      /\ Ahead(t)' < Ticks - MaxLate
  BY <1>1, <1>6, AheadSame
<1>11. tmr.at # "reload" /\ tmr'.at # "reload"
  BY <1>3, <1>4
<1> QED
  BY <1>1, <1>2, <1>5, <1>7, <1>8, <1>9, <1>10, <1>11, Arrives

LEMMA NowSuspended ==
  ASSUME RunsInv, TimeInv, TimeInv', prvProcessTimerOrBlockTask
  PROVE  /\ Now' = Now /\ Now = k.tick /\ k'.tick = k.tick /\ k'.pendedTicks = 0 /\ k'.failed = k.failed
         /\ vTaskSuspendAll(k).tick = k.tick
<1> DEFINE s == vTaskSuspendAll(k)
           empty == current = <<>>
           next == IF empty THEN 0 ELSE HeadExpiry
           d == (next - s.tick) % Ticks
           i == vTaskPlaceOnEventListRestricted(s, TimerQueue, d, empty /\ overflow = <<>>)
<1>1. ~Held /\ Known(k) /\ Free(k) /\ ~k.pendSV /\ k.pxCurrentTCB = TimerTask /\ ~k.failed
  BY DEF prvProcessTimerOrBlockTask, At, Runs, RunsInv, Held
<1>2. /\ Known(s) /\ Stopped(s) /\ TimerTask \in ReadyTasks(s) /\ Steady(s, k) /\ Calm(s, k)
  BY <1>1, SuspendKnown, CalmSuspend
<1>3. k' = s \/ k' = i
  BY Zenon DEF prvProcessTimerOrBlockTask
<1>4. Now = k.tick
  BY <1>1, NowType
<1>5. s.tick = k.tick /\ s.pendedTicks = k.pendedTicks /\ k.pendedTicks = 0
  BY <1>1, <1>2 DEF Calm, Free
<1> HIDE DEF s
<1>6. i.tick = s.tick /\ i.pendedTicks = s.pendedTicks
  <2> HIDE DEF d, empty
  <2> QED
    BY <1>2, CalmPlace
<1> HIDE DEF i
<1>7. k'.tick = k.tick /\ k'.pendedTicks = k.pendedTicks
  BY <1>3, <1>5, <1>6
<1>8. k'.failed = k.failed
  BY SuspendTime
<1>9. Now' = Now
  BY <1>7 DEF Now
<1> QED
  BY <1>4, <1>5, <1>7, <1>8, <1>9 DEF s

LEMMA SuspendPromise ==
  ASSUME RunsInv, TimeInv, TimeInv', PromiseInv, prvProcessTimerOrBlockTask
  PROVE  PromiseInv' /\ Goes
<1> DEFINE n == k.tick
           next == IF current = <<>> THEN 0 ELSE HeadExpiry
<1>1. /\ Now' = Now /\ Now = n /\ k'.tick = n /\ k'.pendedTicks = 0 /\ k'.failed = k.failed
  BY NowSuspended
<1>2. /\ UNCHANGED <<timer, current, overflow, timerQ, user, rung>> /\ tmr.at = "next"
      /\ \/ /\ n < lastTime
            /\ tmr' = [Local EXCEPT !.at = "switch", !.now = n, !.then = "resume"]
            /\ lastTime' = lastTime
         \/ /\ n >= lastTime /\ next <= n
            /\ tmr' = [Local EXCEPT !.at = "expired", !.now = n, !.next = next]
            /\ lastTime' = n
         \/ /\ n >= lastTime
            /\ tmr' = [Local EXCEPT !.at = "blocked"]
            /\ lastTime' = n
  BY NowSuspended, Zenon DEF prvProcessTimerOrBlockTask, At, Go
<1>3. /\ tmr'.msg.cmd = "none" /\ tmr'.timer = "none"
      /\ \/ n < lastTime /\ tmr'.at = "switch" /\ tmr'.now = n /\ tmr'.then = "resume" /\ lastTime' = lastTime
         \/ n >= lastTime /\ next <= n /\ tmr'.at = "expired" /\ tmr'.now = n /\ tmr'.next = next /\ lastTime' = n
         \/ n >= lastTime /\ tmr'.at = "blocked" /\ lastTime' = n
  <2>1. CASE n < lastTime /\ tmr' = [Local EXCEPT !.at = "switch", !.now = n, !.then = "resume"] /\ lastTime' = lastTime
    BY <2>1 DEF Local, NoMessage
  <2> HIDE DEF next
  <2>2. CASE /\ n >= lastTime /\ next <= n /\ lastTime' = n
             /\ tmr' = [Local EXCEPT !.at = "expired", !.now = n, !.next = next]
    BY <2>2 DEF Local, NoMessage
  <2>3. CASE n >= lastTime /\ tmr' = [Local EXCEPT !.at = "blocked"] /\ lastTime' = n
    BY <2>3 DEF Local, NoMessage
  <2> QED
    BY <1>2, <2>1, <2>2, <2>3
<1>4. ~Working /\ ~Working' /\ ~Switching /\ tmr.at # "reload" /\ tmr'.at # "reload"
  BY <1>2, <1>3 DEF Working, Switching
<1>5. RungOf' = RungOf /\ rung' \in [Timer -> BOOLEAN]
  BY <1>2, <1>3 DEF RungOf, Between, PromiseInv, Apart
<1>6. n \in Span /\ lastTime \in Span
  BY NowType DEF TimeInv, Counted
<1>7. Turn = 0 /\ Ref = lastTime
  BY <1>4 DEF Turn, Ref
<1>8. \/ n < lastTime /\ Turn' = Ticks /\ Ref' = n
      \/ n >= lastTime /\ Turn' = 0 /\ Ref' = n
  BY <1>3 DEF Turn, Ref, Switching
<1>9. Gap(n, n) = 0
  BY <1>6, GapSelf
<1> HIDE DEF n
<1>10. \A t \in Timer : Running(t) => /\ Expiry'[t] = Expiry[t]
                                      /\ Ahead(t)' - Gap(Now, Ref') = Ahead(t) - Gap(Now, Ref)
                                      /\ Ahead(t)' < Ticks - MaxLate
  <2>1. Ref' = n /\ Turn' = IF n < lastTime THEN Ticks ELSE 0
    <3>1. n \in Int /\ lastTime \in Int
      BY <1>6, SpanType
    <3> QED
      BY <1>8, <3>1
  <2> QED
    BY <1>1, <1>2, <1>6, <1>7, <2>1, AheadLater
<1>12. Lag'
  <2>1. k'.pendedTicks \in Nat /\ k'.pendedTicks <= MaxLate /\ 0 <= MaxLate
    BY <1>1, LateType
  <2>2. tmr'.at \in {"expired", "switch"} => tmr'.now = n
    BY <1>3
  <2>3. tmr'.at = "expired" => tmr'.next = HeadExpiry' /\ tmr'.next <= tmr'.now
    <3>1. (current # <<>> /\ HeadExpiry' = HeadExpiry) \/ tmr'.at # "expired"
      BY <1>2, <1>3 DEF TimeInv, Locals, HeadExpiry, Expiry
    <3> QED
      BY <1>3, <3>1
  <2>4. tmr'.at \in {"expired", "switch", "blocked"}
    BY <1>3
  <2> HIDE DEF next
  <2> QED
    BY <1>1, <1>9, <2>1, <2>2, <2>3, <2>4 DEF Lag, Gap
<1> QED
  BY <1>1, <1>2, <1>3, <1>4, <1>5, <1>10, <1>12, Arrives

-----------------------------------------------------------------------------
(***************************************************************************)
(* The timer task looks at the time, calls back and receives.              *)
(***************************************************************************)
LEMMA UserSame ==
  ASSUME PromiseInv, user' = user
  PROVE  \A s \in Senders : user'[s].at = "send" => Gap(Now, user'[s].msg.value) <= MaxLate
BY DEF PromiseInv, Sound

LEMMA SamplePromise ==
  ASSUME RunsInv, TimeInv, PromiseInv, SampleTimeNow
  PROVE  PromiseInv' /\ Goes
<1> DEFINE n == k.tick
<1>1. /\ UNCHANGED <<k, timer, current, overflow, timerQ, user, rung>> /\ tmr.at = "time"
      /\ \/ /\ n < lastTime
            /\ tmr' = [tmr EXCEPT !.at = "switch", !.now = n, !.then = "command"]
            /\ lastTime' = lastTime
         \/ /\ ~(n < lastTime)
            /\ tmr' = [tmr EXCEPT !.at = "command", !.now = n]
            /\ lastTime' = n
  BY Zenon DEF SampleTimeNow, At
<1>2. Now' = Now /\ Now = n /\ k'.failed = k.failed /\ n \in Span
  <2>1. ~Held
    BY <1>1 DEF Held
  <2> QED
    BY <1>1, <2>1, NowType DEF Now
<1>3. /\ tmr'.msg = tmr.msg /\ tmr'.timer = tmr.timer
      /\ \/ n < lastTime /\ tmr'.at = "switch" /\ tmr'.now = n /\ tmr'.then = "command" /\ lastTime' = lastTime
         \/ ~(n < lastTime) /\ tmr'.at = "command" /\ tmr'.now = n /\ lastTime' = n
  BY <1>1 DEF RunsInv, Returns
<1>4. Working /\ Working' /\ ~Switching
  BY <1>1, <1>3 DEF Working, Switching
<1>5. Gap(n, n) = 0
  BY <1>2, GapSelf
<1>6. Turn = 0 /\ Ref = lastTime /\ Ref' = n /\ Turn' = IF n < lastTime THEN Ticks ELSE 0
  BY <1>3, <1>4 DEF Turn, Ref, Switching
<1> HIDE DEF n
<1>7. Ours' = Ours /\ PeriodOf' = PeriodOf /\ RungOf' = RungOf
  BY <1>1, <1>3 DEF Ours, PeriodOf, RungOf, Between
<1>8. \A t \in Timer : Running(t)' <=> Running(t)
  BY <1>1, <1>3 DEF Running, Members
<1>9. Apart'
  <2>1. tmr.msg \in Command
    BY <1>1 DEF TimeInv, Received
  <2>2. ~Running(tmr.msg.timer)'
    <3>1. tmr.msg.timer \in Timer
      BY <2>1 DEF Command
    <3> QED
      BY <1>3, <1>4, <1>8, <3>1 DEF PromiseInv, Apart
  <2> QED
    BY <1>1, <1>3, <1>4, <2>2 DEF PromiseInv, Apart, Members
<1>10. Lag'
  <2>1. k'.pendedTicks \in Nat /\ k'.pendedTicks <= MaxLate /\ 0 <= MaxLate
    BY <1>1, LateType DEF PromiseInv, Lag
  <2>2. Gap(Now', tmr'.now) = 0 /\ tmr'.at \in {"switch", "command"}
    BY <1>2, <1>3, <1>5
  <2> QED
    BY <2>1, <2>2 DEF Lag, Gap
<1>11. Ages'
  <2>1. Gap(Now', tmr'.now) = 0 /\ tmr'.at \in {"switch", "command"}
    BY <1>2, <1>3, <1>5
  <2>2. Gap(Now', tmr'.msg.value) >= 0
    <3>1. tmr.msg.value \in Span
      BY <1>1 DEF TimeInv, Received, Command
    <3> DEFINE v == tmr.msg.value
    <3> HIDE DEF v
    <3>2. Gap(n, v) \in Span
      BY <1>2, <3>1, GapValue DEF v
    <3>3. Gap(n, v) >= 0
      BY <3>2, SpanMember, Zenon
    <3> QED
      BY <1>2, <1>3, <3>3 DEF v
  <2> QED
    BY <2>1, <2>2 DEF Ages, Gap
<1>12. \A t \in Timer : Running(t) => /\ Expiry'[t] = Expiry[t]
                                      /\ Ahead(t)' - Gap(Now, Ref') = Ahead(t) - Gap(Now, Ref)
                                      /\ Ahead(t)' < Ticks - MaxLate
  BY <1>1, <1>2, <1>6, AheadLater
<1> QED
  BY <1>1, <1>2, <1>7, <1>8, <1>9, <1>10, <1>11, <1>12, UserSame, Idles DEF Goes

LEMMA CallbackPromise ==
  ASSUME RunsInv, PromiseInv, Callback
  PROVE  PromiseInv' /\ Goes
<1> DEFINE t == tmr.timer
<1>1. /\ tmr.at = "callback" /\ UNCHANGED <<timer, current, overflow, lastTime, timerQ, user>>
      /\ tmr' = [tmr EXCEPT !.at = tmr.then, !.then = "none", !.timer = "none"]
      /\ Calls(t) /\ rung' = [rung EXCEPT ![t] = ~@]
  BY DEF Callback, At, timerVars, Calls
<1>2. tmr'.at = "receive" /\ tmr'.msg = tmr.msg
  BY <1>1 DEF RunsInv, Returns
<1>3. Calm(k', k) /\ k'.failed = k.failed
  BY <1>1, CalmCalls, CallsKept DEF Steady
<1>4. Now' = Now /\ k'.pendedTicks = k.pendedTicks
  BY <1>3, NowCalm
<1>5. ~Working /\ ~Working' /\ ~Switching /\ ~Switching'
  BY <1>1, <1>2 DEF Working, Switching
<1>6. tmr'.msg.cmd = "none"
  BY <1>2, <1>5 DEF PromiseInv, Apart
<1>7. rung \in [Timer -> BOOLEAN] /\ rung' \in [Timer -> BOOLEAN]
  <2>1. rung \in [Timer -> BOOLEAN]
    BY DEF PromiseInv, Apart
  <2>2. rung' \in [Timer -> BOOLEAN]
    BY <1>1, <2>1
  <2> QED
    BY <2>1, <2>2
<1>8. Between = t /\ Between' = "none"
  BY <1>1, <1>2 DEF Between
<1> HIDE DEF t
<1>9. \A u \in Timer : rung'[u] = IF u = t THEN ~rung[u] ELSE rung[u]
  BY <1>1, <1>7
<1>10. RungOf' = RungOf
  BY <1>8, <1>9, TimerAssumption DEF RungOf
<1>11. Lag'
  BY <1>2, <1>4 DEF PromiseInv, Lag
<1>12. Turn' = Turn /\ Ref' = Ref
  BY <1>1, <1>5 DEF Turn, Ref
<1>13. \A u \in Timer : Running(u) => /\ Expiry'[u] = Expiry[u]
                                      /\ Ahead(u)' - Gap(Now, Ref') = Ahead(u) - Gap(Now, Ref)
                                      /\ Ahead(u)' < Ticks - MaxLate
  BY <1>1, <1>12, AheadSame
<1>14. tmr.at # "reload" /\ tmr'.at # "reload"
  BY <1>1, <1>2
<1> QED
  BY <1>1, <1>3, <1>4, <1>5, <1>6, <1>7, <1>10, <1>11, <1>13, <1>14, Arrives

LEMMA ReceivePromise ==
  ASSUME RunsInv, TimeInv, PromiseInv, Receive
  PROVE  PromiseInv' /\ Goes
<1> DEFINE m == Head(timerQ)
           t == m.timer
<1>1. tmr.at = "receive" /\ UNCHANGED <<k, timer, lastTime, user, rung>>
  BY DEF Receive, At
<1>2. Now' = Now /\ k'.failed = k.failed /\ Lag' /\ ~Working /\ ~Switching /\ PeriodOf' = PeriodOf
      /\ tmr'.at \in {"next", "time"}
  <2>1. Now' = Now
    BY <1>1 DEF Now
  <2>2. tmr'.at \in {"next", "time"}
    BY DEF Receive, Go, Local
  <2>3. Lag'
    BY <1>1, <2>2 DEF PromiseInv, Lag
  <2> QED
    BY <1>1, <2>1, <2>2, <2>3 DEF Working, Switching, PeriodOf
<1>3. Turn' = Turn /\ Ref' = Ref /\ RungOf' = RungOf /\ rung' \in [Timer -> BOOLEAN]
  BY <1>1, <1>2 DEF Turn, Ref, Switching, RungOf, Between, PromiseInv, Apart
<1>4. CASE timerQ = <<>>
  <2>1. Go("next") /\ UNCHANGED <<timerQ, current, overflow>>
    BY <1>4 DEF Receive
  <2>2. ~Working' /\ tmr'.msg.cmd = "none"
    BY <2>1 DEF Go, Local, NoMessage, Working, Switching
  <2>3. \A u \in Timer : Running(u) => /\ Expiry'[u] = Expiry[u]
                                       /\ Ahead(u)' - Gap(Now, Ref') = Ahead(u) - Gap(Now, Ref)
                                       /\ Ahead(u)' < Ticks - MaxLate
    BY <1>1, <1>3, <2>1, AheadSame
  <2> QED
    BY <1>1, <1>2, <1>3, <2>1, <2>2, <2>3, Arrives
<1>5. CASE timerQ # <<>>
  <2>1. /\ timerQ' = Tail(timerQ) /\ tmr' = [Local EXCEPT !.at = "time", !.msg = m]
        /\ current' = uxListRemove(current, t)
        /\ overflow' = uxListRemove(overflow, t)
    BY <1>5 DEF Receive
  <2>2. timerQ \in Seq(Command) /\ m \in Command /\ timerQ' \in Seq(Command)
    BY <1>5, <2>1 DEF TimeInv, Queued
  <2> HIDE DEF m
  <2>3. tmr'.at = "time" /\ tmr'.msg = m
    BY <2>1 DEF Local
  <2>4. m.cmd # "none" /\ t \in Timer
    BY <2>2 DEF Command
  <2> HIDE DEF t
  <2>5. Ours = timerQ /\ Ours' = timerQ
    <3>1. Ours = timerQ
      BY <1>2, OursType DEF PromiseInv
    <3>2. Ours' = <<m>> \o Tail(timerQ)
      BY <2>1, <2>3, <2>4 DEF Ours
    <3>3. <<m>> \o Tail(timerQ) = timerQ
      <4> DEFINE c == <<m>> \o Tail(timerQ)
      <4>1. Len(timerQ) >= 1 /\ m = timerQ[1] /\ Len(timerQ) \in Nat /\ Tail(timerQ) \in Seq(Command)
            /\ Len(Tail(timerQ)) = Len(timerQ) - 1
        BY <1>5, <2>2 DEF m
      <4>2. c \in Seq(Command) /\ Len(c) = Len(timerQ)
        BY <2>2, <4>1
      <4>3. \A i \in 1..Len(timerQ) : c[i] = timerQ[i]
        <5> SUFFICES ASSUME NEW i \in 1..Len(timerQ) PROVE c[i] = timerQ[i]
          OBVIOUS
        <5>1. CASE i = 1
          BY <2>2, <4>1, <5>1
        <5>2. CASE i # 1
          <6>1. i - 1 \in 1..(Len(timerQ) - 1) /\ c[i] = Tail(timerQ)[i - 1]
            BY <2>2, <4>1, <5>2
          <6>2. Tail(timerQ)[i - 1] = timerQ[(i - 1) + 1] /\ (i - 1) + 1 = i
            BY <1>5, <2>2, <4>1, <6>1
          <6> QED
            BY <6>1, <6>2
        <5> QED
          BY <5>1, <5>2
      <4> HIDE DEF c
      <4>4. c = timerQ
        BY <2>2, <4>2, <4>3
      <4> QED
        BY <4>4 DEF c
    <3> QED
      BY <3>1, <3>2, <3>3
  <2>6. Members(current') = Members(current) \ {t} /\ Members(overflow') = Members(overflow) \ {t}
    BY <2>1, RemoveFromList DEF TimeInv, Counted
  <2>7. \A u : Running(u)' <=> Running(u) /\ u # t
    BY <1>1, <2>3, <2>6 DEF Running, Members
  <2>8. Apart'
    <3>0. tmr'.msg.timer = t
      BY <2>3 DEF t
    <3>1. Working' /\ tmr'.msg.cmd # "none" /\ ~Running(tmr.msg.timer)'
      <4>1. \A u : u = t => ~Running(u)'
        BY <2>7
      <4>2. \A u : u = tmr'.msg.timer => (Running(tmr.msg.timer)' <=> Running(u)')
        BY DEF Running
      <4> QED
        BY <2>3, <2>4, <3>0, <4>1, <4>2 DEF Working
    <3> QED
      BY <1>3, <2>3, <2>6, <3>1 DEF PromiseInv, Apart, Members
  <2>9. Ages'
    BY <2>3 DEF Ages, Switching
  <2>10. Sound'
    BY <1>2, <2>5, UserSame, <1>1, SoundSame DEF PromiseInv
  <2>11. Expiry' = Expiry /\ \A u \in Timer : Running(u)' => Ahead(u)' = Ahead(u)
    <3>1. Expiry' = Expiry
      BY <1>1 DEF Expiry
    <3>2. ASSUME NEW u \in Timer, Running(u)' PROVE u \in Members(overflow') <=> u \in Members(overflow)
      BY <2>6, <2>7, <3>2
    <3> QED
      BY <1>3, <3>1, <3>2 DEF Ahead, Members
  <2>12. Dues'
    BY <1>2, <1>3, <2>7, <2>11, DuesSame DEF PromiseInv
  <2>13. DueOf' = [u \in DOMAIN DueOf \ {t} |-> DueOf[u]]
    <3>1. {u \in Timer : Running(u)'} = {u \in Timer : Running(u)} \ {t}
      BY <2>7
    <3>2. {u \in Timer : Running(u)} \ {t} = (DOMAIN DueOf) \ {t}
      BY DueIs
    <3>3. \A u \in (DOMAIN DueOf) \ {t} : DueOf[u] = From(Now, Expiry[u])
      BY DueIs
    <3>4. DueOf' = [u \in (DOMAIN DueOf) \ {t} |-> From(Now, Expiry[u])]
      BY <1>2, <2>11, <3>1, <3>2, DueIs
    <3> QED
      BY <3>3, <3>4
  <2>14. Cmds' = Cmds /\ Cmds # <<>> /\ Head(Cmds).timer = t
    <3>1. Cmds = ToldAll(timerQ, Now) /\ Cmds' = ToldAll(timerQ, Now)
      BY <1>2, <2>5, CmdsIs
    <3>2. Cmds # <<>> /\ Head(Cmds) = Told(m, Now)
      BY <1>5, <2>2, <3>1, ToldFirst DEF m
    <3> QED
      BY <2>2, <3>1, <3>2, ToldNames DEF t
  <2>15. Promised!Next
    BY <1>2, <1>3, <2>13, <2>14, TakePromise
  <2> QED
    BY <1>2, <2>8, <2>9, <2>10, <2>12, <2>15 DEF PromiseInv, Goes
<1> QED
  BY <1>4, <1>5

LEMMA SwitchedPromise ==
  ASSUME RunsInv, TimeInv, PromiseInv, Switched
  PROVE  PromiseInv' /\ Goes
<1>1. /\ tmr.at = "switch" /\ current = <<>> /\ current' = overflow /\ overflow' = current /\ lastTime' = tmr.now
      /\ tmr' = [tmr EXCEPT !.at = tmr.then, !.then = "none"]
      /\ UNCHANGED <<k, timer, timerQ, user, rung>>
  BY DEF Switched, At
<1>2. tmr'.at = tmr.then /\ tmr'.msg = tmr.msg /\ tmr'.now = tmr.now /\ tmr.then \in {"resume", "command"}
      /\ tmr'.timer = tmr.timer
  BY <1>1 DEF RunsInv, Returns
<1>3. Now' = Now /\ k'.failed = k.failed
  BY <1>1 DEF Now
<1>4. Working' <=> Working
  BY <1>1, <1>2 DEF Working, Switching
<1>5. Ours' = Ours /\ PeriodOf' = PeriodOf /\ RungOf' = RungOf
  BY <1>1, <1>2 DEF Ours, PeriodOf, RungOf, Between
<1>6. Members(current) = {} /\ Members(overflow') = {} /\ Members(current') = Members(overflow)
  BY <1>1 DEF Members
<1>7. \A t : Running(t)' <=> Running(t)
  BY <1>1, <1>2, <1>6 DEF Running, Members
<1>8. Apart'
  BY <1>1, <1>2, <1>4, <1>6, <1>7 DEF PromiseInv, Apart, Members
<1>9. Lag'
  BY <1>1, <1>2, <1>3 DEF PromiseInv, Lag, Gap
<1>10. Ages'
  <2>1. tmr.then = "command" /\ tmr.msg.cmd \in {"start", "again"} => Gap(Now, tmr.now) <= Gap(Now, tmr.msg.value)
    BY <1>1 DEF PromiseInv, Ages, Switching
  <2> QED
    BY <1>2, <1>3, <2>1 DEF Ages, Switching, Gap
<1>11. Turn = Ticks /\ Ref = tmr.now /\ Turn' = 0 /\ Ref' = tmr.now
  BY <1>1, <1>2 DEF Turn, Ref, Switching
<1>12. ASSUME NEW t \in Timer, Running(t)
       PROVE  /\ Expiry'[t] = Expiry[t] /\ Ahead(t)' = Ahead(t)
  <2>1. Expiry' = Expiry
    BY <1>1 DEF Expiry
  <2>2. t \in Members(overflow) /\ t \notin Members(overflow')
    BY <1>1, <1>6, <1>12 DEF Running
  <2> DEFINE e == Expiry[t]
             n == tmr.now
  <2>3. Ahead(t) = ((e + Ticks) - Ticks) - n /\ Ahead(t)' = (e - 0) - n
    BY <1>11, <2>1, <2>2 DEF Ahead, Members
  <2>4. e \in Int
    <3>1. e \in Span
      BY DEF TimeInv, Counted, Expiry
    <3> QED
      BY <3>1, SpanType
  <2> HIDE DEF e, n
  <2>5. (e + Ticks) - Ticks = e - 0
    BY <2>4, SpanType
  <2> QED
    BY <2>1, <2>3, <2>5
<1>13. \A t \in Timer : Running(t) => /\ Expiry'[t] = Expiry[t]
                                      /\ Ahead(t)' - Gap(Now, Ref') = Ahead(t) - Gap(Now, Ref)
                                      /\ Ahead(t)' < Ticks - MaxLate
  BY <1>11, <1>12 DEF PromiseInv, Dues, DueAhead
<1> QED
  BY <1>1, <1>3, <1>5, <1>7, <1>8, <1>9, <1>10, <1>13, UserSame, Idles DEF Goes

-----------------------------------------------------------------------------
(***************************************************************************)
(* A timer goes to its list.                                               *)
(***************************************************************************)
\* Where a timer that goes to a list lies from the first time of the lists.
Place(w, e) == IF w = "overflow" THEN e + Ticks ELSE e

\* A function without and with a value at t.
Without(f, t) == [u \in (DOMAIN f) \ {t} |-> f[u]]
With(f, t, d) == [u \in (DOMAIN f) \cup {t} |-> IF u = t THEN d ELSE f[u]]

LEMMA Relisted ==
  ASSUME TimeInv, PromiseInv, NEW t \in Timer, NEW w \in {"over", "current", "overflow"},
         NEW e, Listed(w, t, e), Expiry' = [Expiry EXCEPT ![t] = e],
         Now' = Now, Turn' = Turn, Ref' = Ref, tmr.at # "reload", tmr'.at # "reload",
         w # "over" => /\ From(Now, e) = ((Place(w, e) - Turn) - Ref) - Gap(Now, Ref)
                       /\ (Place(w, e) - Turn) - Ref < Ticks - MaxLate
  PROVE  /\ Members(current') \cap Members(overflow') = {}
         /\ \A u : Running(u)' <=> (u # t /\ Running(u)) \/ (u = t /\ w # "over")
         /\ Dues'
         /\ w = "over" => DueOf' = Without(DueOf, t)
         /\ w # "over" => DueOf' = With(DueOf, t, From(Now, e))
<1> DEFINE v == [Expiry EXCEPT ![t] = e]
           c == uxListRemove(current, t)
           o == uxListRemove(overflow, t)
<1>1. /\ c \in Lists(Timer) /\ o \in Lists(Timer)
      /\ Members(c) = Members(current) \ {t} /\ Members(o) = Members(overflow) \ {t}
  BY RemoveFromList DEF TimeInv, Counted
<1>2. /\ current' = IF w = "current" THEN vListInsert(c, t, v) ELSE c
      /\ overflow' = IF w = "overflow" THEN vListInsert(o, t, v) ELSE o
  BY DEF Listed
<1> HIDE DEF c, o, v
<1>3. Members(vListInsert(c, t, v)) = Members(c) \cup {t}
  BY <1>1, InsertSorted
<1>4. Members(vListInsert(o, t, v)) = Members(o) \cup {t}
  BY <1>1, InsertSorted
<1>5. /\ Members(current') = IF w = "current" THEN Members(current) \cup {t} ELSE Members(current) \ {t}
      /\ Members(overflow') = IF w = "overflow" THEN Members(overflow) \cup {t} ELSE Members(overflow) \ {t}
  BY <1>1, <1>2, <1>3, <1>4
<1>6. Members(current') \cap Members(overflow') = {}
  <2>1. Members(current) \cap Members(overflow) = {}
    BY DEF PromiseInv, Apart
  <2>2. CASE w = "current"
    BY <1>5, <2>1, <2>2
  <2>3. CASE w = "overflow"
    BY <1>5, <2>1, <2>3
  <2>4. CASE w = "over"
    BY <1>5, <2>1, <2>4
  <2> QED
    BY <2>2, <2>3, <2>4
<1>7. \A u : Running(u)' <=> (u # t /\ Running(u)) \/ (u = t /\ w # "over")
  <2>1. \A u : Running(u) <=> u \in Members(current) \cup Members(overflow)
    BY DEF Running
  <2>2. \A u : Running(u)' <=> u \in Members(current') \cup Members(overflow')
    BY DEF Running, Members
  <2> QED
    BY <1>5, <2>1, <2>2
<1>8. Expiry \in [Timer -> Span] /\ Expiry'[t] = e /\ \A u \in Timer \ {t} : Expiry'[u] = Expiry[u]
  BY DEF TimeInv, Counted, Expiry
<1>9. ASSUME NEW u \in Timer, Running(u)', u # t
      PROVE  DueAhead(u)'
  <2>1. Running(u) /\ Expiry'[u] = Expiry[u]
    BY <1>7, <1>8, <1>9
  <2>2. u \in Members(overflow') <=> u \in Members(overflow)
    BY <1>5, <1>9
  <2>3. Ahead(u)' = Ahead(u)
    BY <2>1, <2>2 DEF Ahead, Members
  <2>4. DueAhead(u)
    BY <2>1 DEF PromiseInv, Dues
  <2> QED
    BY <2>1, <2>3, <2>4 DEF DueAhead, From, Gap
<1>10. ASSUME w # "over"
       PROVE  DueAhead(t)'
  <2>1. t \in Members(overflow') <=> w = "overflow"
    BY <1>5, <1>10
  <2>2. Ahead(t)' = (Place(w, e) - Turn) - Ref
    BY <1>8, <2>1 DEF Ahead, Place, Members
  <2> QED
    BY <1>8, <1>10, <2>2 DEF DueAhead, From, Gap
<1>11. Dues'
  BY <1>7, <1>9, <1>10 DEF Dues
<1>12. /\ DOMAIN DueOf = {u \in Timer : Running(u)}
       /\ \A u \in DOMAIN DueOf : DueOf[u] = From(Now, Expiry[u])
       /\ DueOf' = [u \in {x \in Timer : Running(x)'} |-> From(Now, Expiry'[u])]
  BY DueIs
<1>13. ASSUME w = "over"
       PROVE  DueOf' = [u \in (DOMAIN DueOf) \ {t} |-> DueOf[u]]
  <2>1. {x \in Timer : Running(x)'} = (DOMAIN DueOf) \ {t}
    BY <1>7, <1>12, <1>13
  <2>2. \A u \in (DOMAIN DueOf) \ {t} : DueOf[u] = From(Now, Expiry'[u])
    BY <1>8, <1>12
  <2> QED
    BY <1>12, <2>1, <2>2
<1>14. ASSUME w # "over"
       PROVE  DueOf' = [u \in (DOMAIN DueOf) \cup {t} |-> IF u = t THEN From(Now, e) ELSE DueOf[u]]
  <2>1. {x \in Timer : Running(x)'} = (DOMAIN DueOf) \cup {t}
    BY <1>7, <1>12, <1>14
  <2>2. \A u \in (DOMAIN DueOf) \cup {t} : From(Now, Expiry'[u]) = IF u = t THEN From(Now, e) ELSE DueOf[u]
    BY <1>8, <1>12
  <2> QED
    BY <1>12, <2>1, <2>2
<1> QED
  BY <1>6, <1>7, <1>11, <1>13, <1>14 DEF With, Without

\* The timer at the head of the list, and how late it is.
LEMMA ExpiryOf ==
  ASSUME TimeInv
  PROVE  /\ Expiry \in [Timer -> Span]
         /\ \A t \in Timer : Expiry[t] = timer[t].expiry /\ timer[t].period \in Span
BY DEF TimeInv, Counted, Expiry

LEMMA ExpirySet ==
  ASSUME TimeInv, NEW t \in Timer, NEW e, NEW r,
         timer' = [timer EXCEPT ![t] = r], r.expiry = e
  PROVE  Expiry' = [Expiry EXCEPT ![t] = e]
<1>1. DOMAIN timer = Timer
  BY DEF TimeInv, Counted
<1>2. Expiry' = [u \in Timer |-> timer'[u].expiry]
  BY DEF Expiry
<1>3. [Expiry EXCEPT ![t] = e] = [u \in Timer |-> IF u = t THEN e ELSE Expiry[u]]
  BY DEF Expiry
<1>4. \A u \in Timer : timer'[u].expiry = IF u = t THEN e ELSE Expiry[u]
  BY <1>1 DEF Expiry
<1> QED
  BY <1>2, <1>3, <1>4

LEMMA RungFlips ==
  ASSUME rung \in [Timer -> BOOLEAN], NEW t \in Timer, rung' = [rung EXCEPT ![t] = ~@], Between = "none", Between' = "none"
  PROVE  RungOf' = [RungOf EXCEPT ![t] = ~@] /\ rung' \in [Timer -> BOOLEAN]
<1>1. \A u \in Timer : rung'[u] = IF u = t THEN ~rung[u] ELSE rung[u]
  OBVIOUS
<1>2. rung' \in [Timer -> BOOLEAN]
  OBVIOUS
<1>3. RungOf = [u \in Timer |-> rung[u]] /\ RungOf' = [u \in Timer |-> rung'[u]]
  BY TimerAssumption DEF RungOf
<1>4. [RungOf EXCEPT ![t] = ~@] = [u \in Timer |-> IF u = t THEN ~rung[u] ELSE rung[u]]
  BY <1>3
<1> QED
  BY <1>1, <1>2, <1>3, <1>4

LEMMA RungHalf ==
  ASSUME rung \in [Timer -> BOOLEAN], NEW t \in Timer, rung' = rung,
         \/ Between = "none" /\ Between' = t
         \/ Between = t /\ Between' = "none"
  PROVE  RungOf' = [RungOf EXCEPT ![t] = ~@]
<1> DEFINE a == [u \in Timer |-> rung[u]]
           b == [u \in Timer |-> IF u = t THEN ~rung[u] ELSE rung[u]]
<1>1. \A u \in Timer : rung[u] \in BOOLEAN
  OBVIOUS
<1>2. CASE Between = "none" /\ Between' = t
  <2>1. RungOf = a /\ RungOf' = b
    BY <1>2, TimerAssumption DEF RungOf
  <2>2. [a EXCEPT ![t] = ~@] = b
    OBVIOUS
  <2> QED
    BY <2>1, <2>2
<1>3. CASE Between = t /\ Between' = "none"
  <2>1. RungOf = b /\ RungOf' = a
    BY <1>3, TimerAssumption DEF RungOf
  <2>2. [b EXCEPT ![t] = ~@] = a
    BY <1>1
  <2> QED
    BY <2>1, <2>2
<1> QED
  BY <1>2, <1>3

LEMMA RungSame ==
  ASSUME rung \in [Timer -> BOOLEAN], NEW t \in Timer, rung' = [rung EXCEPT ![t] = ~@],
         Between = "none", Between' = t
  PROVE  RungOf' = RungOf /\ rung' \in [Timer -> BOOLEAN]
<1>1. \A u \in Timer : rung'[u] = IF u = t THEN ~rung[u] ELSE rung[u]
  OBVIOUS
<1>2. rung' \in [Timer -> BOOLEAN]
  OBVIOUS
<1>3. \A u \in Timer : (IF u = t THEN ~rung'[u] ELSE rung'[u]) = rung[u]
  BY <1>1
<1>4. RungOf = [u \in Timer |-> rung[u]]
  BY TimerAssumption DEF RungOf
<1>5. RungOf' = [u \in Timer |-> IF u = t THEN ~rung'[u] ELSE rung'[u]]
  BY DEF RungOf
<1> QED
  BY <1>2, <1>3, <1>4, <1>5

-----------------------------------------------------------------------------
(***************************************************************************)
(* A timer expires.                                                        *)
(***************************************************************************)
LEMMA AgainSent ==
  ASSUME RunsInv, NEW m, Resend(m), TimerTask \in ReadyTasks(k)
  PROVE  k'.failed = TRUE \/ (k' = k /\ timerQ' = Append(timerQ, m))
<1>1. CASE Fits
  BY <1>1, CalmResend DEF Resend
<1>2. CASE ~Fits
  BY <1>2 DEF Resend, configASSERT, RunsInv, Known, Kern, Fields
<1> QED
  BY <1>1, <1>2

LEMMA ProcessPromise ==
  ASSUME RunsInv, TimeInv, PromiseInv, prvProcessExpiredTimer
  PROVE  k'.failed = TRUE \/ (PromiseInv' /\ Goes)
<1> SUFFICES ASSUME k'.failed # TRUE PROVE PromiseInv' /\ Goes
  OBVIOUS
<1> DEFINE h == Head(current)
<1>0. PICK t : t = h
  OBVIOUS
<1> DEFINE x == tmr.next
           n == tmr.now
           p == timer[t].period
           e == Later(x, p)
           w == Inserts(t, e, n, x)
           m == Message("again", t, x)
           g == Gap(Now, n)
<1>1. /\ Runs(TimerTask) /\ tmr.at = "process" /\ current # <<>>
      /\ x \in Span /\ n = lastTime /\ n \in Span
  BY DEF prvProcessExpiredTimer, At, TimeInv, Locals, Counted
<1>2. /\ timer' = [timer EXCEPT ![t].expiry = e] /\ Listed(w, t, e)
      /\ lastTime' = lastTime /\ user' = user
      /\ \/ /\ w = "over"
            /\ Resend(m)
            /\ tmr' = [Local EXCEPT !.at = "callback", !.timer = t, !.then = "receive"]
            /\ rung' = rung
         \/ w # "over" /\ Calls(t) /\ Go("receive") /\ timerQ' = timerQ
  BY <1>0, Zenon DEF prvProcessExpiredTimer
<1>3. t \in Timer /\ p \in Span \ {0} /\ p + MaxLate < Ticks /\ t \in Members(current) /\ t \notin Members(overflow)
      /\ x = Expiry[t] /\ x <= n
  <2>1. t \in Timer /\ p \in Span \ {0}
    BY <1>0, <1>1, HeadTimer DEF TimeInv
  <2>2. t \in Members(current)
    BY <1>0, <1>1, MembersTail DEF TimeInv, Counted, Lists
  <2>3. t \notin Members(overflow)
    BY <2>2 DEF PromiseInv, Apart
  <2>4. p + MaxLate < Ticks
    BY <2>1 DEF PromiseInv, Sound
  <2>5. x = Expiry[t] /\ x <= n
    BY <1>0, <1>1 DEF PromiseInv, Lag, HeadExpiry
  <2> QED
    BY <2>1, <2>2, <2>3, <2>4, <2>5
<1>4. ~Working /\ ~Switching /\ tmr.msg.cmd = "none" /\ Turn = 0 /\ Ref = n /\ Between = "none"
  <2>1. ~Working /\ ~Switching /\ Between = "none"
    BY <1>1 DEF Working, Switching, Between
  <2> QED
    BY <1>1, <2>1 DEF Turn, Ref, PromiseInv, Apart
<1>5. Now \in Span /\ g \in Span /\ e \in Span /\ m \in Command
  <2>1. Now \in Span
    BY NowType
  <2>2. e \in Span
    BY <1>1, <1>3, LaterType, SpanType
  <2>3. m \in Command
    BY <1>1, <1>3 DEF Command, Message
  <2> QED
    BY <1>1, <2>1, <2>2, <2>3, GapValue
<1> HIDE DEF x, n, p, e, w, m, g
<1>6. Running(t) /\ From(Now, x) = (x - n) - g /\ t \in DOMAIN DueOf /\ DueOf[t] = From(Now, x)
  <2>1. Running(t) /\ DueAhead(t)
    BY <1>3 DEF Running, PromiseInv, Dues
  <2>2. Ahead(t) = (x - 0) - n
    BY <1>3, <1>4 DEF Ahead
  <2>3. x \in Int /\ n \in Int
    BY <1>1, SpanMember, Zenon
  <2>4. Ahead(t) = x - n
    BY <2>2, <2>3
  <2>5. From(Now, x) = Ahead(t) - Gap(Now, Ref)
    BY <1>3, <2>1 DEF DueAhead
  <2>6. From(Now, x) = (x - n) - g
    BY <1>4, <2>4, <2>5 DEF g
  <2> QED
    BY <1>3, <2>1, <2>6, DueIs
<1>7. /\ x \in Int /\ n \in Int /\ 0 <= x /\ 0 <= n /\ x < Ticks /\ n < Ticks /\ g \in Int /\ 0 <= g
      /\ p \in Int /\ 0 < p /\ p < Ticks /\ Ticks \in Int /\ MaxLate \in Int /\ 0 <= MaxLate
  <2>1. p \in Span /\ p # 0
    BY <1>3
  <2>2. p \in Int /\ 0 <= p /\ p < Ticks
    BY <2>1, SpanMember, Zenon
  <2>3. /\ x \in Int /\ n \in Int /\ 0 <= x /\ 0 <= n /\ x < Ticks /\ n < Ticks /\ g \in Int /\ 0 <= g
    BY <1>1, <1>5, SpanMember, Zenon
  <2> QED
    BY <2>1, <2>2, <2>3, SpanType, LateType
<1>8. From(Now, x) <= 0
  BY <1>3, <1>6, <1>7
<1>9. /\ w \in {"over", "current", "overflow"}
      /\ w = "current" => e = x + p
      /\ w = "overflow" => e + Ticks = x + p
  <2>1. Gap(n, x) = n - x
    <3>1. Gap(n, x) = IF n >= x THEN n - x ELSE (n - x) + Ticks
      BY <1>1, GapValue
    <3> QED
      BY <1>3, <1>7, <3>1
  <2>2. p \in Span /\ p = timer[t].period
    BY <1>3 DEF p
  <2>3. /\ w \in {"over", "current", "overflow"}
        /\ w = "current" => e = (n + p) - Gap(n, x)
        /\ w = "overflow" => e + Ticks = (n + p) - Gap(n, x)
    BY <1>1, <2>2, InsertsWhere DEF w, e
  <2>4. (n + p) - (n - x) = x + p
    BY <1>7
  <2> QED
    BY <2>1, <2>3, <2>4
<1>10. Expiry' = [Expiry EXCEPT ![t] = e] /\ PeriodOf' = PeriodOf
  <2> DEFINE r == [timer[t] EXCEPT !.expiry = e]
  <2>1. timer \in [Timer -> [active : BOOLEAN, expiry : Span, period : Span \ {0}]]
    BY DEF TimeInv, Counted
  <2>2. timer' = [timer EXCEPT ![t] = r]
    BY <1>2
  <2>3. r.expiry = e /\ r.period = timer[t].period
    BY <1>3, <2>1
  <2> HIDE DEF r
  <2>4. \A u \in Timer : timer'[u].period = timer[u].period
    BY <1>3, <2>1, <2>2, <2>3
  <2> QED
    BY <1>3, <2>2, <2>3, <2>4, ExpirySet DEF PeriodOf
<1>11. w # "over" => /\ Place(w, e) = x + p
                     /\ From(Now, e) = ((Place(w, e) - Turn) - Ref) - Gap(Now, Ref)
                     /\ (Place(w, e) - Turn) - Ref < Ticks - MaxLate
                     /\ From(Now, e) = From(Now, x) + p
  <2> SUFFICES ASSUME w # "over"
               PROVE  /\ Place(w, e) = x + p
                      /\ From(Now, e) = ((Place(w, e) - Turn) - Ref) - Gap(Now, Ref)
                      /\ (Place(w, e) - Turn) - Ref < Ticks - MaxLate
                      /\ From(Now, e) = From(Now, x) + p
    OBVIOUS
  <2>1. Place(w, e) = x + p
    BY <1>9 DEF Place
  <2>2. From(Now, x) + p < Ticks - MaxLate
    BY <1>3, <1>6, <1>7
  <2>3. From(Now, e) = From(Now, x) + p
    BY <1>1, <1>3, <1>5, <2>2, FromLater DEF e
  <2>4. ((x + p) - 0) - n = (x - n) + p /\ ((x - n) - g) + p = ((x - n) + p) - g
        /\ (x - n) + p < Ticks - MaxLate
    BY <1>3, <1>7
  <2> QED
    BY <1>4, <1>6, <2>1, <2>3, <2>4 DEF g
<1>12. /\ tmr'.at \in {"receive", "callback"} /\ tmr'.msg.cmd = "none" /\ lastTime' = n
       /\ (w = "over" => tmr'.at = "callback" /\ tmr'.timer = t) /\ (w # "over" => tmr'.at = "receive")
  <2>1. lastTime' = n
    BY <1>1, <1>2
  <2>2. CASE w = "over"
    <3>1. tmr' = [Local EXCEPT !.at = "callback", !.timer = t, !.then = "receive"]
      BY <1>2, <2>2
    <3> QED
      BY <2>1, <2>2, <3>1 DEF Local, NoMessage
  <2>3. CASE w # "over"
    <3>1. Go("receive")
      BY <1>2, <2>3
    <3> QED
      BY <2>1, <2>3, <3>1 DEF Go, Local, NoMessage
  <2> QED
    BY <2>2, <2>3
<1>13. ~Working' /\ ~Switching' /\ Turn' = Turn /\ Ref' = Ref
  <2>1. ~Working' /\ ~Switching'
    BY <1>12 DEF Working, Switching
  <2> QED
    BY <1>4, <1>12, <2>1 DEF Turn, Ref
<1>14. TimerTask \in ReadyTasks(k)
  BY <1>1, TimerTaskRuns
<1>15. /\ Calm(k', k) /\ k'.failed = k.failed
       /\ (w = "over" => timerQ' = Append(timerQ, m))
  <2>1. CASE w = "over"
    BY <1>2, <1>14, <2>1, AgainSent, CalmResend
  <2>2. CASE w # "over"
    BY <1>2, <2>2, CalmCalls, CallsKept DEF Steady
  <2> QED
    BY <2>1, <2>2
<1>16. Now' = Now /\ k'.pendedTicks = k.pendedTicks
  BY <1>15, NowCalm
<1>17. /\ Members(current') \cap Members(overflow') = {}
       /\ Dues'
       /\ w = "over" => DueOf' = Without(DueOf, t)
       /\ w # "over" => DueOf' = With(DueOf, t, From(Now, e))
  <2>1. tmr.at # "reload" /\ tmr'.at # "reload"
    BY <1>1, <1>12
  <2>2. PICK f, z : f = e /\ z = w
    OBVIOUS
  <2>3. Listed(z, t, f) /\ t \in Timer /\ z \in {"over", "current", "overflow"} /\ Now' = Now
    BY <1>2, <1>3, <1>9, <1>16, <2>2
  <2>4. z # "over" => /\ From(Now, f) = ((Place(z, f) - Turn) - Ref) - Gap(Now, Ref)
                      /\ (Place(z, f) - Turn) - Ref < Ticks - MaxLate
    BY <1>11, <2>2
  <2>5. Expiry' = [Expiry EXCEPT ![t] = f]
    BY <1>10, <2>2
  <2>6. /\ Members(current') \cap Members(overflow') = {}
        /\ Dues'
        /\ z = "over" => DueOf' = Without(DueOf, t)
        /\ z # "over" => DueOf' = With(DueOf, t, From(Now, f))
    BY <1>13, <2>1, <2>3, <2>4, <2>5, Relisted
  <2> QED
    BY <2>2, <2>6
<1>18. RungOf' = [RungOf EXCEPT ![t] = ~@] /\ rung' \in [Timer -> BOOLEAN]
  <2>1. rung \in [Timer -> BOOLEAN]
    BY DEF PromiseInv, Apart
  <2>2. CASE w = "over"
    <3>1. Between' = t
      BY <1>12, <2>2 DEF Between
    <3> QED
      BY <1>2, <1>3, <1>4, <2>1, <2>2, <3>1, RungHalf
  <2>3. CASE w # "over"
    <3>1. Between' = "none"
      BY <1>12, <2>3 DEF Between
    <3>2. rung' = [rung EXCEPT ![t] = ~@]
      BY <1>2, <2>3 DEF Calls
    <3> QED
      BY <1>3, <1>4, <2>1, <3>1, <3>2, RungFlips
  <2> QED
    BY <2>2, <2>3
<1>19. Apart' /\ Lag' /\ Ages'
  <2>1. Apart'
    BY <1>12, <1>13, <1>17, <1>18 DEF Apart, Members
  <2>2. Lag'
    BY <1>12, <1>16 DEF PromiseInv, Lag
  <2>3. Ages'
    BY <1>12, <1>13 DEF Ages
  <2> QED
    BY <2>1, <2>2, <2>3
<1>20. CASE w # "over"
  <2>1. Ours' = Ours
    <3>1. timerQ' = timerQ
      BY <1>2, <1>20
    <3> QED
      BY <1>4, <1>12, <3>1 DEF Ours
  <2>2. Sound'
    BY <1>2, <1>10, <1>16, <2>1, UserSame, SoundSame DEF PromiseInv
  <2>3. Cmds' = Cmds
    BY <1>16, <2>1, CmdsIs
  <2>4. PeriodOf[t] = p
    BY <1>3 DEF PeriodOf, p
  <2>5. DueOf' = [u \in (DOMAIN DueOf) \cup {t} |-> IF u = t THEN DueOf[t] + PeriodOf[t] ELSE DueOf[u]]
    BY <1>6, <1>11, <1>17, <1>20, <2>4 DEF With
  <2>6. Promised!Next
    BY <1>3, <1>6, <1>8, <1>10, <1>15, <1>18, <2>3, <2>5, ExpirePromise
  <2> QED
    BY <1>17, <1>19, <2>2, <2>6 DEF PromiseInv, Goes
<1>21. CASE w = "over"
  <2>1. Ours' = Append(Ours, m) /\ Members(Ours') = Members(Ours) \cup {m} /\ Ours \in Seq(Command)
    BY <1>4, <1>5, <1>12, <1>15, <1>21, OursGrows, OursType DEF PromiseInv
  <2>2. m.cmd = "again" /\ m.timer = t /\ m.value = x
    BY DEF m, Message
  <2>3. Sound'
    BY <1>2, <1>10, <1>16, <2>1, <2>2, UserSame, SoundSame DEF PromiseInv
  <2>4. Cmds' = Append(Cmds, Told(m, Now))
    BY <1>5, <1>16, <2>1, CmdsIs, ToldAppend
  <2>5. Told(m, Now) = [cmd |-> "again", timer |-> t, age |-> 0 - DueOf[t]]
    <3>1. Told(m, Now) = [cmd |-> "again", timer |-> t, age |-> Gap(Now, x)]
      BY <2>2, ToldStart
    <3>2. Gap(Now, x) = 0 - From(Now, x)
      BY <1>1, <1>5, <1>8, GapFrom
    <3> QED
      BY <1>6, <3>1, <3>2
  <2>6. Promised!Next
    BY <1>3, <1>6, <1>8, <1>10, <1>15, <1>17, <1>18, <1>21, <2>4, <2>5, ExpirePromise DEF Without
  <2> QED
    BY <1>17, <1>19, <2>3, <2>6 DEF PromiseInv, Goes
<1> QED
  BY <1>20, <1>21

-----------------------------------------------------------------------------
(***************************************************************************)
(* A command is obeyed.                                                    *)
(***************************************************************************)
\* The command that the timer task has received is the next one of the abstract timers.
LEMMA NextCommand ==
  ASSUME RunsInv, TimeInv, PromiseInv, tmr.at \in {"command", "restart"}
  PROVE  /\ tmr.msg \in Command /\ tmr.msg.timer \in Timer /\ tmr.msg.timer \notin DOMAIN DueOf
         /\ Working /\ ~Switching /\ Turn = 0 /\ Ref = lastTime /\ Now \in Span
         /\ timerQ \in Seq(Command) /\ tmr.msg \in Members(Ours) /\ Members(timerQ) \subseteq Members(Ours)
         /\ Cmds # <<>> /\ Head(Cmds) = Told(tmr.msg, Now) /\ Tail(Cmds) = ToldAll(timerQ, Now)
         /\ Head(Cmds).cmd = tmr.msg.cmd /\ Head(Cmds).timer = tmr.msg.timer
<1>1. Working /\ ~Switching /\ Turn = 0 /\ Ref = lastTime
  BY DEF Working, Switching, Turn, Ref
<1>2. /\ tmr.msg \in Command /\ timerQ \in Seq(Command) /\ Ours \in Seq(Command)
      /\ Ours # <<>> /\ Head(Ours) = tmr.msg /\ Tail(Ours) = timerQ
  BY <1>1, OursType DEF PromiseInv
<1>3. tmr.msg.timer \in Timer
  BY <1>2 DEF Command
<1>4. tmr.msg.timer \notin DOMAIN DueOf
  BY <1>1, DueIs DEF PromiseInv, Apart
<1>5. tmr.msg \in Members(Ours) /\ Members(timerQ) \subseteq Members(Ours)
  BY <1>2, MembersTail
<1>6. Cmds # <<>> /\ Head(Cmds) = Told(tmr.msg, Now) /\ Tail(Cmds) = ToldAll(timerQ, Now)
  BY <1>2, CmdsIs, ToldFirst
<1>7. Head(Cmds).cmd = tmr.msg.cmd /\ Head(Cmds).timer = tmr.msg.timer
  BY <1>2, <1>6, ToldNames
<1> QED
  BY <1>1, <1>2, <1>3, <1>4, <1>5, <1>6, <1>7, NowType

LEMMA PeriodKept ==
  ASSUME TimeInv, NEW t \in Timer, NEW r, timer' = [timer EXCEPT ![t] = r], r.period = timer[t].period
  PROVE  PeriodOf' = PeriodOf
<1>1. \A u \in Timer : timer'[u].period = timer[u].period
  BY DEF TimeInv, Counted
<1> QED
  BY <1>1 DEF PeriodOf

LEMMA StartsPromise ==
  ASSUME RunsInv, TimeInv, PromiseInv, StartTimer
  PROVE  PromiseInv' /\ Goes
<1> DEFINE h == tmr.msg.timer
<1>0. PICK t : t = h
  OBVIOUS
<1> DEFINE v == tmr.msg.value
           n == tmr.now
           p == timer[t].period
           e == Later(v, p)
           w == Inserts(t, e, n, v)
           g == Gap(Now, n)
           f == Gap(Now, v)
<1>1. /\ tmr.at = "command" /\ tmr.msg.cmd \in {"start", "again"} /\ n = lastTime /\ n \in Span
      /\ g <= MaxLate /\ g <= f
  BY DEF StartTimer, At, TimeInv, Locals, Counted, PromiseInv, Lag, Ages
<1>2. /\ timer' = [timer EXCEPT ![t].active = TRUE, ![t].expiry = e] /\ Listed(w, t, e)
      /\ lastTime' = lastTime /\ user' = user /\ timerQ' = timerQ
      /\ w = "over" => KeepGo("restart") /\ Calls(t)
      /\ w # "over" => Go("receive") /\ UNCHANGED <<k, rung>>
  BY <1>0, Zenon DEF StartTimer
<1>3. /\ tmr.msg \in Command /\ t \in Timer /\ t \notin DOMAIN DueOf
      /\ Working /\ ~Switching /\ Turn = 0 /\ Ref = n /\ Now \in Span
      /\ timerQ \in Seq(Command) /\ tmr.msg \in Members(Ours) /\ Members(timerQ) \subseteq Members(Ours)
      /\ Cmds # <<>> /\ Head(Cmds) = Told(tmr.msg, Now) /\ Tail(Cmds) = ToldAll(timerQ, Now)
      /\ Head(Cmds).cmd = tmr.msg.cmd /\ Head(Cmds).timer = t
  BY <1>0, <1>1, NextCommand
<1>4. /\ v \in Span /\ p \in Span \ {0} /\ p + MaxLate < Ticks /\ e \in Span
      /\ timer[t] \in [active : BOOLEAN, expiry : Span, period : Span \ {0}]
  <2>1. v \in Span
    BY <1>3 DEF Command
  <2>2. timer[t] \in [active : BOOLEAN, expiry : Span, period : Span \ {0}]
    BY <1>3 DEF TimeInv, Counted
  <2>3. p \in Span \ {0}
    BY <2>2
  <2>4. p + MaxLate < Ticks
    BY <1>3 DEF PromiseInv, Sound
  <2> HIDE DEF v, p
  <2>5. e \in Span
    BY <2>1, <2>3, LaterType, SpanType
  <2> QED
    BY <2>1, <2>2, <2>3, <2>4, <2>5
<1>5. Head(Cmds).age = f
  BY <1>1, <1>3, ToldStart
<1> HIDE DEF v, n, p, e, w, g, f, h
<1>6. /\ g \in Int /\ 0 <= g /\ f \in Int /\ 0 <= f /\ f < Ticks /\ Gap(n, v) = f - g
      /\ p \in Int /\ 0 < p /\ n \in Int /\ Ticks \in Int /\ MaxLate \in Int /\ 0 <= MaxLate
  <2>1. g \in Span /\ f \in Span
    BY <1>1, <1>3, <1>4, GapValue DEF g, f
  <2>2. Gap(n, v) = f - g
    BY <1>1, <1>3, <1>4, GapSplit DEF g, f
  <2>3. p \in Span /\ p # 0
    BY <1>4
  <2>4. /\ g \in Int /\ 0 <= g /\ f \in Int /\ 0 <= f /\ f < Ticks /\ p \in Int /\ 0 <= p /\ n \in Int
    BY <1>1, <2>1, <2>3, SpanMember, Zenon
  <2> QED
    BY <2>2, <2>3, <2>4, SpanType, LateType
<1>7. /\ w \in {"over", "current", "overflow"}
      /\ w = "over" <=> f - g >= p
      /\ w # "over" => Place(w, e) = (n + p) - (f - g)
  <2>1. p \in Span /\ p = timer[t].period
    BY <1>4 DEF p
  <2>2. /\ w \in {"over", "current", "overflow"}
        /\ w = "over" <=> Gap(n, v) >= p
        /\ w = "current" => e = (n + p) - Gap(n, v)
        /\ w = "overflow" => e + Ticks = (n + p) - Gap(n, v)
    BY <1>1, <1>4, <2>1, InsertsWhere DEF w, e
  <2> QED
    BY <1>6, <2>2 DEF Place
<1>8. w # "over" => /\ From(Now, e) = ((Place(w, e) - Turn) - Ref) - Gap(Now, Ref)
                    /\ (Place(w, e) - Turn) - Ref < Ticks - MaxLate
                    /\ From(Now, e) = p - f
  <2> SUFFICES ASSUME w # "over"
               PROVE  /\ From(Now, e) = ((Place(w, e) - Turn) - Ref) - Gap(Now, Ref)
                      /\ (Place(w, e) - Turn) - Ref < Ticks - MaxLate
                      /\ From(Now, e) = p - f
    OBVIOUS
  <2>1. ~(f - g >= p)
    BY <1>7
  <2>2. p - f < Ticks - MaxLate /\ 0 - MaxLate <= p - f
    BY <1>1, <1>4, <1>6, <2>1
  <2>3. From(Now, e) = p - f
    <3>1. p \in Span /\ p - Gap(Now, v) < Ticks - MaxLate /\ 0 - MaxLate <= p - Gap(Now, v)
      BY <1>4, <2>2 DEF f
    <3> QED
      BY <1>3, <1>4, <3>1, FromStart DEF e, f
  <2>4. /\ ((((n + p) - (f - g)) - 0) - n) = p - (f - g)
        /\ (p - (f - g)) - g = p - f
        /\ p - (f - g) < Ticks - MaxLate
    BY <1>1, <1>4, <1>6
  <2> QED
    BY <1>3, <1>7, <2>3, <2>4 DEF g
<1>9. Expiry' = [Expiry EXCEPT ![t] = e] /\ PeriodOf' = PeriodOf /\ timer'[t].period = p
  <2> DEFINE r == [active |-> TRUE, expiry |-> e, period |-> p]
  <2>1. timer' = [timer EXCEPT ![t] = r]
    <3>1. [[timer[t] EXCEPT !.active = TRUE] EXCEPT !.expiry = e] = r
      BY <1>4, SetExpiry DEF p
    <3> QED
      BY <1>2, <1>3, <3>1 DEF TimeInv, Counted
  <2>2. r.expiry = e /\ r.period = timer[t].period /\ r.period = p
    BY DEF p
  <2> HIDE DEF r
  <2>3. Expiry' = [Expiry EXCEPT ![t] = e]
    BY <1>3, <2>1, <2>2, ExpirySet
  <2>4. PeriodOf' = PeriodOf
    BY <1>3, <2>1, <2>2, PeriodKept
  <2>5. timer'[t] = r
    BY <1>3, <2>1 DEF TimeInv, Counted
  <2> QED
    BY <2>2, <2>3, <2>4, <2>5
<1>10. /\ w = "over" => tmr'.at = "restart" /\ tmr'.msg = tmr.msg
       /\ w # "over" => tmr'.at = "receive" /\ tmr'.msg.cmd = "none"
  <2>1. CASE w = "over"
    <3>1. KeepGo("restart")
      BY <1>2, <2>1
    <3> QED
      BY <2>1, <3>1 DEF KeepGo, RunsInv, Returns
  <2>2. CASE w # "over"
    <3>1. Go("receive")
      BY <1>2, <2>2
    <3> QED
      BY <2>2, <3>1 DEF Go, Local, NoMessage
  <2> QED
    BY <2>1, <2>2
<1>11. ~Switching' /\ Turn' = Turn /\ Ref' = Ref /\ (Working' <=> w = "over")
  <2>1. ~Switching' /\ (Working' <=> w = "over")
    BY <1>10 DEF Working, Switching
  <2> QED
    BY <1>2, <1>3, <2>1 DEF Turn, Ref
<1>12. Calm(k', k) /\ k'.failed = k.failed
  <2>1. CASE w = "over"
    BY <1>2, <2>1, CalmCalls, CallsKept DEF Steady
  <2>2. CASE w # "over"
    BY <1>2, <2>2 DEF Calm, Dozes
  <2> QED
    BY <2>1, <2>2
<1>13. Now' = Now /\ k'.pendedTicks = k.pendedTicks
  BY <1>12, NowCalm
<1>14. /\ Members(current') \cap Members(overflow') = {}
       /\ \A u : Running(u)' <=> (u # t /\ Running(u)) \/ (u = t /\ w # "over")
       /\ Dues'
       /\ w = "over" => DueOf' = Without(DueOf, t)
       /\ w # "over" => DueOf' = With(DueOf, t, p - f)
  <2>1. tmr.at # "reload" /\ tmr'.at # "reload"
    BY <1>1, <1>10
  <2>2. Listed(w, t, e)
    BY <1>2
  <2>3. /\ Members(current') \cap Members(overflow') = {}
        /\ \A u : Running(u)' <=> (u # t /\ Running(u)) \/ (u = t /\ w # "over")
        /\ Dues'
        /\ w = "over" => DueOf' = Without(DueOf, t)
        /\ w # "over" => DueOf' = With(DueOf, t, From(Now, e))
    <3>1. PICK x, z : x = e /\ z = w
      OBVIOUS
    <3>2. Listed(z, t, x) /\ t \in Timer /\ z \in {"over", "current", "overflow"} /\ Now' = Now
      BY <1>3, <1>7, <1>13, <2>2, <3>1
    <3>3. z # "over" => /\ From(Now, x) = ((Place(z, x) - Turn) - Ref) - Gap(Now, Ref)
                        /\ (Place(z, x) - Turn) - Ref < Ticks - MaxLate
      BY <1>8, <3>1
    <3>4. Expiry' = [Expiry EXCEPT ![t] = x] /\ Turn' = Turn /\ Ref' = Ref
      BY <1>9, <1>11, <3>1
    <3>5. /\ Members(current') \cap Members(overflow') = {}
          /\ \A u : Running(u)' <=> (u # t /\ Running(u)) \/ (u = t /\ z # "over")
          /\ Dues'
          /\ z = "over" => DueOf' = Without(DueOf, t)
          /\ z # "over" => DueOf' = With(DueOf, t, From(Now, x))
      BY <2>1, <3>2, <3>3, <3>4, Relisted
    <3> QED
      BY <3>1, <3>5
  <2> QED
    BY <1>8, <2>3
<1>15. Lag'
  BY <1>10, <1>13 DEF PromiseInv, Lag
<1>16. rung \in [Timer -> BOOLEAN] /\ Between = "none"
  BY <1>1 DEF PromiseInv, Apart, Between
<1>17. CASE w = "over"
  <2>1. Ours' = Ours
    BY <1>2, <1>10, <1>17 DEF Ours
  <2>2. Between' = t
    BY <1>0, <1>10, <1>17 DEF Between, h
  <2>3. RungOf' = RungOf /\ rung' \in [Timer -> BOOLEAN]
    <3>1. rung' = [rung EXCEPT ![t] = ~@]
      BY <1>2, <1>17 DEF Calls
    <3> QED
      BY <1>3, <1>16, <2>2, <3>1, RungSame
  <2>4. Apart'
    <3>1. tmr'.msg.timer = t /\ tmr'.msg.cmd # "none" /\ tmr'.msg.cmd \in {"start", "again"}
      BY <1>0, <1>1, <1>10, <1>17 DEF h
    <3>2. ~Running(tmr.msg.timer)'
      <4>1. \A u : u = t => ~Running(u)'
        BY <1>14, <1>17
      <4>2. \A u : u = tmr'.msg.timer => (Running(tmr.msg.timer)' <=> Running(u)')
        BY DEF Running
      <4> QED
        BY <3>1, <4>1, <4>2
    <3> QED
      BY <1>10, <1>11, <1>14, <1>17, <2>3, <3>1, <3>2 DEF Apart, Members
  <2>5. Ages'
    <3>1. Gap(Now', tmr'.msg.value) = f /\ timer'[tmr'.msg.timer].period = p
      BY <1>0, <1>9, <1>10, <1>13, <1>17 DEF f, v, h
    <3>2. f >= p
      BY <1>6, <1>7, <1>17
    <3> QED
      BY <1>10, <1>11, <1>17, <3>1, <3>2 DEF Ages, Gap
  <2>6. Sound'
    BY <1>2, <1>9, <1>13, <2>1, UserSame, SoundSame DEF PromiseInv
  <2>7. DueOf' = DueOf /\ Cmds' = Cmds
    <3>1. Without(DueOf, t) = DueOf
      <4>1. (DOMAIN DueOf) \ {t} = DOMAIN DueOf
        BY <1>3
      <4>2. DueOf = [u \in DOMAIN DueOf |-> DueOf[u]]
        BY DEF DueOf
      <4> QED
        BY <4>1, <4>2 DEF Without
    <3> QED
      BY <1>13, <1>14, <1>17, <2>1, <3>1, CmdsIs
  <2> QED
    BY <1>9, <1>12, <1>14, <1>15, <2>3, <2>4, <2>5, <2>6, <2>7, StutterPromise DEF PromiseInv, Goes
<1>18. CASE w # "over"
  <2>1. Ours' = timerQ /\ rung' = rung
    BY <1>2, <1>10, <1>18 DEF Ours
  <2>2. Between' = "none"
    BY <1>10, <1>18 DEF Between
  <2>3. RungOf' = RungOf
    BY <1>16, <2>1, <2>2 DEF RungOf
  <2>4. Apart'
    BY <1>10, <1>11, <1>14, <1>16, <1>18, <2>1 DEF Apart, Members
  <2>5. Ages'
    BY <1>10, <1>11, <1>18 DEF Ages
  <2>6. Sound'
    BY <1>2, <1>3, <1>9, <1>13, <2>1, UserSame, SoundSame DEF PromiseInv
  <2>7. Cmds' = Tail(Cmds)
    BY <1>3, <1>13, <2>1, CmdsIs
  <2> DEFINE c == Head(Cmds)
  <2>8. c.cmd \in {"start", "again"} /\ c.timer = t /\ c.age = f /\ PeriodOf[t] = p
    BY <1>1, <1>3, <1>5 DEF PeriodOf, p
  <2>9. DueOf' = [u \in DOMAIN DueOf \cup {t} |-> IF u = t THEN PeriodOf[t] - c.age ELSE DueOf[u]]
    BY <1>14, <1>18, <2>8 DEF With
  <2>10. Promised!Next
    BY <1>3, <1>9, <1>12, <2>3, <2>7, <2>8, <2>9, StartPromise
  <2> QED
    BY <1>14, <1>15, <2>4, <2>5, <2>6, <2>10 DEF PromiseInv, Goes
<1> QED
  BY <1>17, <1>18

LEMMA RestartPromise ==
  ASSUME RunsInv, TimeInv, PromiseInv, Restart
  PROVE  k'.failed = TRUE \/ (PromiseInv' /\ Goes)
<1> SUFFICES ASSUME k'.failed # TRUE PROVE PromiseInv' /\ Goes
  OBVIOUS
<1> DEFINE h == tmr.msg.timer
<1>0. PICK t : t = h
  OBVIOUS
<1> DEFINE v == tmr.msg.value
           p == timer[t].period
           e == Later(v, p)
           m == Message("again", t, e)
           f == Gap(Now, v)
<1>1. /\ tmr.at = "restart" /\ tmr.msg.cmd \in {"start", "again"} /\ f >= p /\ Runs(TimerTask)
      /\ Resend(m) /\ Go("receive") /\ UNCHANGED <<timer, current, overflow, lastTime, user, rung>>
  BY <1>0 DEF Restart, At, PromiseInv, Apart, Ages, timerVars
<1>2. /\ tmr.msg \in Command /\ t \in Timer /\ t \notin DOMAIN DueOf
      /\ Working /\ ~Switching /\ Turn = 0 /\ Ref = lastTime /\ Now \in Span
      /\ timerQ \in Seq(Command) /\ tmr.msg \in Members(Ours) /\ Members(timerQ) \subseteq Members(Ours)
      /\ Cmds # <<>> /\ Head(Cmds) = Told(tmr.msg, Now) /\ Tail(Cmds) = ToldAll(timerQ, Now)
      /\ Head(Cmds).cmd = tmr.msg.cmd /\ Head(Cmds).timer = t
  BY <1>0, <1>1, NextCommand
<1>3. v \in Span /\ p \in Span \ {0} /\ e \in Span /\ m \in Command
  <2>1. v \in Span
    BY <1>2 DEF Command
  <2>2. p \in Span \ {0}
    BY <1>2 DEF TimeInv, Counted
  <2> HIDE DEF v, p
  <2>3. e \in Span
    BY <2>1, <2>2, LaterType, SpanType
  <2>4. m \in Command
    BY <1>2, <2>3 DEF Command, Message
  <2> QED
    BY <2>1, <2>2, <2>3, <2>4
<1>4. Head(Cmds).age = f /\ PeriodOf[t] = p
  BY <1>1, <1>2, ToldStart DEF PeriodOf
<1> HIDE DEF v, p, e, m, f, h
<1>5. k' = k /\ timerQ' = Append(timerQ, m) /\ tmr'.at = "receive" /\ tmr'.msg.cmd = "none"
  <2>1. TimerTask \in ReadyTasks(k)
    BY <1>1, TimerTaskRuns
  <2>2. tmr'.at = "receive" /\ tmr'.msg.cmd = "none"
    BY <1>1 DEF Go, Local, NoMessage
  <2> QED
    BY <1>1, <2>1, <2>2, AgainSent
<1>6. Now' = Now /\ k'.pendedTicks = k.pendedTicks /\ k'.failed = k.failed
  BY <1>5 DEF Now
<1>7. ~Working' /\ ~Switching' /\ Turn' = Turn /\ Ref' = Ref /\ Between = t /\ Between' = "none"
  <2>1. ~Working' /\ ~Switching' /\ Between' = "none"
    BY <1>5 DEF Working, Switching, Between
  <2>2. Between = t
    BY <1>0, <1>1 DEF Between, h
  <2> QED
    BY <1>1, <1>2, <2>1, <2>2 DEF Turn, Ref
<1>8. Ours' = Append(timerQ, m) /\ Members(Ours') = Members(timerQ) \cup {m}
  <2>1. Ours' = Append(timerQ, m)
    BY <1>5 DEF Ours
  <2> QED
    BY <1>2, <1>3, <2>1, MembersAppend
<1>9. m.cmd = "again" /\ m.timer = t /\ m.value = e
  BY DEF m, Message
<1>10. Told(m, Now) = [cmd |-> "again", timer |-> t, age |-> 0 - (p - f)]
  <2>1. Told(m, Now) = [cmd |-> "again", timer |-> t, age |-> Gap(Now, e)]
    BY <1>9, ToldStart
  <2>2. Gap(Now, e) = f - p
    <3>1. p \in Span /\ Gap(Now, v) >= p
      BY <1>1, <1>3 DEF f
    <3> QED
      BY <1>2, <1>3, <3>1, GapLater DEF e, f
  <2>3. f \in Int /\ p \in Int
    <3>1. f \in Span /\ p \in Span
      BY <1>2, <1>3, GapValue DEF f
    <3> QED
      BY <3>1, SpanMember, Zenon
  <2>4. f - p = 0 - (p - f) /\ p - f <= 0
    BY <1>1, <2>3
  <2> QED
    BY <2>1, <2>2, <2>4
<1>11. p - f <= 0
  <2>1. f \in Span /\ p \in Span
    BY <1>2, <1>3, GapValue DEF f
  <2>2. f \in Int /\ p \in Int
    BY <2>1, SpanMember, Zenon
  <2> QED
    BY <1>1, <2>2
<1>12. Cmds' = Append(Tail(Cmds), Told(m, Now))
  <2>1. Cmds' = ToldAll(Append(timerQ, m), Now)
    BY <1>6, <1>8, CmdsIs
  <2> QED
    BY <1>2, <1>3, <2>1, ToldAppend
<1>13. /\ \A u \in Timer : Running(u)' <=> Running(u)
       /\ \A u \in Timer : Ahead(u)' = Ahead(u) /\ Expiry'[u] = Expiry[u]
       /\ PeriodOf' = PeriodOf
  <2>1. \A u \in Timer : Running(u)' <=> Running(u)
    BY <1>1, <1>5 DEF Running, Members
  <2> QED
    BY <1>1, <1>7, <2>1, PlaceSame DEF PeriodOf
<1>14. DueOf' = DueOf /\ Dues'
  BY <1>6, <1>7, <1>13, DueOfSame, DuesSame DEF PromiseInv
<1>15. rung \in [Timer -> BOOLEAN] /\ rung' = rung /\ RungOf' = [RungOf EXCEPT ![t] = ~@]
  <2>1. rung \in [Timer -> BOOLEAN]
    BY DEF PromiseInv, Apart
  <2> QED
    BY <1>1, <1>2, <1>7, <2>1, RungHalf
<1>16. Apart' /\ Lag' /\ Ages'
  <2>1. Apart'
    BY <1>1, <1>5, <1>7, <1>15 DEF PromiseInv, Apart, Members
  <2>2. Lag'
    BY <1>5, <1>6 DEF PromiseInv, Lag
  <2>3. Ages'
    BY <1>5, <1>7 DEF Ages
  <2> QED
    BY <2>1, <2>2, <2>3
<1>17. Sound'
  BY <1>1, <1>2, <1>6, <1>8, <1>9, <1>13, UserSame, SoundSame DEF PromiseInv
<1> DEFINE c == Head(Cmds)
<1>18. c.cmd \in {"start", "again"} /\ c.timer = t /\ PeriodOf[t] - c.age = p - f
  BY <1>1, <1>2, <1>4
<1>19. Cmds' = Append(Tail(Cmds), [cmd |-> "again", timer |-> c.timer, age |-> 0 - (PeriodOf[c.timer] - c.age)])
  BY <1>10, <1>12, <1>18
<1>20. Promised!Next
  BY <1>2, <1>6, <1>11, <1>13, <1>14, <1>15, <1>18, <1>19, StartPromise
<1> QED
  BY <1>14, <1>16, <1>17, <1>20 DEF PromiseInv, Goes

LEMMA StopsPromise ==
  ASSUME RunsInv, TimeInv, PromiseInv, StopTimer
  PROVE  PromiseInv' /\ Goes
<1> DEFINE t == tmr.msg.timer
<1>1. /\ tmr.at = "command" /\ tmr.msg.cmd = "stop" /\ Go("receive")
      /\ timer' = [timer EXCEPT ![t].active = FALSE]
      /\ UNCHANGED <<k, current, overflow, timerQ, lastTime, user, rung>>
  BY DEF StopTimer, At
<1>2. /\ t \in Timer /\ t \notin DOMAIN DueOf
      /\ Turn = 0 /\ Ref = lastTime /\ timerQ \in Seq(Command) /\ Members(timerQ) \subseteq Members(Ours)
      /\ Cmds # <<>> /\ Tail(Cmds) = ToldAll(timerQ, Now)
      /\ Head(Cmds).cmd = tmr.msg.cmd /\ Head(Cmds).timer = t
  BY <1>1, NextCommand
<1>3. Now' = Now /\ k'.pendedTicks = k.pendedTicks /\ k'.failed = k.failed
  BY <1>1 DEF Now
<1>4. tmr'.at = "receive" /\ tmr'.msg.cmd = "none"
  BY <1>1 DEF Go, Local, NoMessage
<1>5. Expiry' = Expiry /\ PeriodOf' = PeriodOf
  <2> HIDE DEF t
  <2>1. timer \in [Timer -> [active : BOOLEAN, expiry : Span, period : Span \ {0}]]
    BY DEF TimeInv, Counted
  <2>2. \A u \in Timer : timer'[u].expiry = timer[u].expiry /\ timer'[u].period = timer[u].period
    BY <1>1, <1>2, <2>1
  <2> QED
    BY <2>2 DEF Expiry, PeriodOf
<1>6. ~Working' /\ ~Switching' /\ Turn' = Turn /\ Ref' = Ref /\ Between = "none" /\ Between' = "none"
  <2>1. ~Working' /\ ~Switching' /\ Between' = "none"
    BY <1>4 DEF Working, Switching, Between
  <2>2. Between = "none"
    BY <1>1 DEF Between
  <2> QED
    BY <1>1, <1>2, <2>1, <2>2 DEF Turn, Ref
<1>7. \A u \in Timer : Running(u)' <=> Running(u)
  BY <1>1, <1>4 DEF Running, Members
<1>8. \A u \in Timer : Ahead(u)' = Ahead(u) /\ Expiry'[u] = Expiry[u]
  BY <1>1, <1>5, <1>6 DEF Ahead, Members
<1>9. DueOf' = DueOf /\ Dues'
  BY <1>3, <1>6, <1>7, <1>8, DueOfSame, DuesSame DEF PromiseInv
<1>10. Ours' = timerQ /\ RungOf' = RungOf
  BY <1>1, <1>4, <1>6 DEF Ours, RungOf
<1>11. Apart'
  BY <1>1, <1>4, <1>6 DEF PromiseInv, Apart, Members
<1>12. Lag' /\ Ages'
  BY <1>3, <1>4, <1>6 DEF PromiseInv, Lag, Ages
<1>13. Sound'
  BY <1>1, <1>2, <1>3, <1>5, <1>10, UserSame, SoundSame DEF PromiseInv
<1>14. Cmds' = Tail(Cmds)
  BY <1>2, <1>3, <1>10, CmdsIs
<1>15. Promised!Next
  BY <1>1, <1>2, <1>3, <1>5, <1>9, <1>10, <1>14, StopPromise
<1> QED
  BY <1>9, <1>11, <1>12, <1>13, <1>15 DEF PromiseInv, Goes

LEMMA PeriodsPromise ==
  ASSUME RunsInv, TimeInv, PromiseInv, ChangePeriod
  PROVE  PromiseInv' /\ Goes
<1> DEFINE h == tmr.msg.timer
<1>0. PICK t : t = h
  OBVIOUS
<1> DEFINE q == tmr.msg.value
           n == tmr.now
           e == Later(n, q)
           w == IF e <= n THEN "overflow" ELSE "current"
           g == Gap(Now, n)
           r == [active |-> TRUE, expiry |-> e, period |-> q]
<1>1. /\ tmr.at = "command" /\ tmr.msg.cmd = "period" /\ n = lastTime /\ n \in Span /\ g <= MaxLate
      /\ timer' = [timer EXCEPT ![t] = r] /\ Listed(w, t, e) /\ Go("receive")
      /\ UNCHANGED <<k, timerQ, lastTime, user, rung>>
  BY <1>0 DEF ChangePeriod, At, TimeInv, Locals, Counted, PromiseInv, Lag
<1>2. /\ tmr.msg \in Command /\ t \in Timer /\ t \notin DOMAIN DueOf
      /\ Turn = 0 /\ Ref = n /\ Now \in Span
      /\ timerQ \in Seq(Command) /\ tmr.msg \in Members(Ours) /\ Members(timerQ) \subseteq Members(Ours)
      /\ Cmds # <<>> /\ Head(Cmds) = Told(tmr.msg, Now) /\ Tail(Cmds) = ToldAll(timerQ, Now)
      /\ Head(Cmds).cmd = "period" /\ Head(Cmds).timer = t
  BY <1>0, <1>1, NextCommand
<1>3. Head(Cmds).period = q
  BY <1>1, <1>2, ToldOther
<1>4. q \in Span /\ q + MaxLate < Ticks
  BY <1>1, <1>2 DEF Command, PromiseInv, Sound
<1>5. r.expiry = e /\ r.period = q
  OBVIOUS
<1> HIDE DEF q, n, g, r, h
<1>6. e \in Span /\ g \in Span
  BY <1>1, <1>2, <1>4, LaterType, SpanType, GapValue DEF g
<1>7. /\ q \in Int /\ 0 <= q /\ n \in Int /\ 0 <= n /\ n < Ticks /\ g \in Int /\ 0 <= g /\ e \in Int
      /\ MaxLate \in Int /\ Ticks \in Int /\ q < Ticks
  <2> HIDE DEF e
  <2>1. q \in Int /\ 0 <= q /\ q < Ticks /\ n \in Int /\ 0 <= n /\ n < Ticks /\ g \in Int /\ 0 <= g /\ e \in Int
    BY <1>1, <1>4, <1>6, SpanMember, Zenon
  <2> QED
    BY <2>1, LateType, SpanType
<1>8. e = IF n + q < Ticks THEN n + q ELSE (n + q) - Ticks
  BY <1>1, <1>4, LaterValue
<1> HIDE DEF e
<1>9. Place(w, e) = n + q /\ w \in {"over", "current", "overflow"} /\ w # "over"
  <2>1. q # 0
    BY <1>1, <1>2 DEF Command, q
  <2>2. CASE e <= n
    BY <1>7, <1>8, <2>1, <2>2 DEF Place
  <2>3. CASE ~(e <= n)
    BY <1>7, <1>8, <2>1, <2>3 DEF Place
  <2> QED
    BY <2>2, <2>3
<1> HIDE DEF w
<1>10. From(Now, e) = q - g
  <2>1. q - Gap(Now, n) < Ticks - MaxLate /\ 0 - MaxLate <= q - Gap(Now, n)
    BY <1>1, <1>4, <1>7 DEF g
  <2> QED
    BY <1>1, <1>2, <1>4, <2>1, FromStart DEF e, g
<1>11. /\ From(Now, e) = ((Place(w, e) - Turn) - Ref) - Gap(Now, Ref)
       /\ (Place(w, e) - Turn) - Ref < Ticks - MaxLate
  <2>1. ((n + q) - 0) - n = q /\ q < Ticks - MaxLate
    BY <1>4, <1>7
  <2> QED
    BY <1>2, <1>9, <1>10, <2>1 DEF g
<1>12. Expiry' = [Expiry EXCEPT ![t] = e] /\ \A u \in Timer : timer'[u].period = IF u = t THEN q ELSE timer[u].period
  <2>1. DOMAIN timer = Timer
    BY DEF TimeInv, Counted
  <2>2. Expiry' = [Expiry EXCEPT ![t] = e]
    BY <1>1, <1>2, <1>5, ExpirySet
  <2>3. \A u \in Timer : timer'[u].period = IF u = t THEN q ELSE timer[u].period
    BY <1>1, <1>2, <1>5, <2>1
  <2> QED
    BY <2>2, <2>3
<1>13. PeriodOf' = [PeriodOf EXCEPT ![t] = q]
  <2>1. PeriodOf' = [u \in Timer |-> timer'[u].period]
    BY DEF PeriodOf
  <2>2. [PeriodOf EXCEPT ![t] = q] = [u \in Timer |-> IF u = t THEN q ELSE timer[u].period]
    BY DEF PeriodOf
  <2> QED
    BY <1>12, <2>1, <2>2
<1>14. tmr'.at = "receive" /\ tmr'.msg.cmd = "none"
  BY <1>1 DEF Go, Local, NoMessage
<1>15. ~Working' /\ ~Switching' /\ Turn' = Turn /\ Ref' = Ref /\ Between = "none" /\ Between' = "none"
  <2>1. ~Working' /\ ~Switching' /\ Between' = "none"
    BY <1>14 DEF Working, Switching, Between
  <2>2. Between = "none"
    BY <1>1 DEF Between
  <2> QED
    BY <1>1, <1>2, <2>1, <2>2 DEF Turn, Ref
<1>16. Now' = Now /\ k'.pendedTicks = k.pendedTicks /\ k'.failed = k.failed
  BY <1>1 DEF Now
<1>17. /\ Members(current') \cap Members(overflow') = {}
       /\ Dues'
       /\ DueOf' = With(DueOf, t, q - g)
  <2>1. tmr.at # "reload" /\ tmr'.at # "reload"
    BY <1>1, <1>14
  <2>2. PICK x, z : x = e /\ z = w
    OBVIOUS
  <2>3. Listed(z, t, x) /\ t \in Timer /\ z \in {"over", "current", "overflow"} /\ Now' = Now /\ z # "over"
    BY <1>1, <1>2, <1>9, <1>16, <2>2
  <2>4. /\ From(Now, x) = ((Place(z, x) - Turn) - Ref) - Gap(Now, Ref)
        /\ (Place(z, x) - Turn) - Ref < Ticks - MaxLate
    BY <1>11, <2>2
  <2>5. Expiry' = [Expiry EXCEPT ![t] = x] /\ Turn' = Turn /\ Ref' = Ref
    BY <1>12, <1>15, <2>2
  <2>6. /\ Members(current') \cap Members(overflow') = {}
        /\ Dues'
        /\ DueOf' = With(DueOf, t, From(Now, x))
    BY <2>1, <2>3, <2>4, <2>5, Relisted
  <2> QED
    BY <1>10, <2>2, <2>6
<1>18. Ours' = timerQ /\ RungOf' = RungOf
  BY <1>1, <1>14, <1>15 DEF Ours, RungOf
<1>19. Apart'
  BY <1>1, <1>14, <1>15, <1>17 DEF PromiseInv, Apart, Members
<1>20. Lag' /\ Ages'
  BY <1>14, <1>15, <1>16 DEF PromiseInv, Lag, Ages
<1>21. Sound'
  <2>1. \A u \in Timer : timer'[u].period + MaxLate < Ticks
    BY <1>4, <1>12 DEF PromiseInv, Sound
  <2>2. ASSUME NEW m \in Members(Ours')
        PROVE  /\ m.cmd = "period" => m.value + MaxLate < Ticks
               /\ m.cmd = "start" => Gap(Now', m.value) <= MaxLate
    BY <1>2, <1>16, <1>18, <2>2 DEF PromiseInv, Sound
  <2>3. \A s \in Senders : user'[s].at = "send" => Gap(Now', user'[s].msg.value) <= MaxLate
    BY <1>1, <1>16 DEF PromiseInv, Sound
  <2> QED
    BY <2>1, <2>2, <2>3 DEF Sound, Members, Gap
<1>22. Cmds' = Tail(Cmds)
  BY <1>2, <1>16, <1>18, CmdsIs
<1>23. g \in Promised!Age
  BY <1>6, SpanType DEF Promised!Age, Span
<1>24. DueOf' = [u \in DOMAIN DueOf \cup {t} |-> IF u = t THEN q - g ELSE DueOf[u]]
  BY <1>17 DEF With
<1> DEFINE c == Head(Cmds)
<1>25. c.cmd = "period" /\ c.timer = t /\ c.period = q
  BY <1>2, <1>3
<1> HIDE DEF c
<1>26. \E late \in Promised!Age :
          DueOf' = [u \in DOMAIN DueOf \cup {c.timer} |-> IF u = c.timer THEN c.period - late ELSE DueOf[u]]
  BY <1>23, <1>24, <1>25
<1>27. PeriodOf' = [PeriodOf EXCEPT ![c.timer] = c.period] /\ c.timer \notin DOMAIN DueOf
  BY <1>2, <1>13, <1>25
<1>28. Promised!Next
  BY <1>2, <1>16, <1>18, <1>22, <1>25, <1>26, <1>27, PeriodPromise DEF c
<1> QED
  BY <1>17, <1>19, <1>20, <1>21, <1>28 DEF PromiseInv, Goes

-----------------------------------------------------------------------------
(***************************************************************************)
(* The lists are switched.                                                 *)
(***************************************************************************)
\* While the lists are switched everything in the current list is over.
LEMMA OverAtSwitch ==
  ASSUME RunsInv, TimeInv, PromiseInv, tmr.at \in {"switch", "reload"}, NEW t \in Timer,
         Running(t), t \notin Members(overflow)
  PROVE  /\ Switching /\ Turn = Ticks /\ Ref = tmr.now /\ Now \in Span /\ Expiry[t] \in Span /\ tmr.now \in Span
         /\ timer[t].period \in Span \ {0} /\ timer[t].period + MaxLate < Ticks
         /\ From(Now, Expiry[t]) = ((Expiry[t] - Ticks) - tmr.now) - Gap(Now, tmr.now)
         /\ From(Now, Expiry[t]) <= 0 - tmr.now /\ From(Now, Expiry[t]) + Ticks <= Expiry[t] /\ From(Now, Expiry[t]) <= 0
         /\ t \in DOMAIN DueOf /\ DueOf[t] = From(Now, Expiry[t])
<1> DEFINE x == Expiry[t]
           n == tmr.now
           g == Gap(Now, n)
<1>1. Switching /\ Turn = Ticks /\ Ref = n
  BY DEF Switching, Turn, Ref
<1>2. Now \in Span /\ x \in Span /\ n \in Span
  BY NowType DEF TimeInv, Locals, Counted, Expiry
<1>3. timer[t].period \in Span \ {0} /\ timer[t].period + MaxLate < Ticks
  BY DEF TimeInv, Counted, PromiseInv, Sound
<1>4. t \in DOMAIN DueOf /\ DueOf[t] = From(Now, x)
  BY DueIs
<1>5. From(Now, x) = ((x - Ticks) - n) - g
  <2>1. Ahead(t) = (x - Ticks) - n
    BY <1>1 DEF Ahead
  <2>2. DueAhead(t)
    BY DEF PromiseInv, Dues
  <2> QED
    BY <1>1, <2>1, <2>2 DEF DueAhead
<1> HIDE DEF x, n, g
<1>6. g \in Span
  BY <1>2, GapValue DEF g
<1>7. x \in Int /\ 0 <= x /\ x < Ticks /\ n \in Int /\ 0 <= n /\ g \in Int /\ 0 <= g
  BY <1>2, <1>6, SpanMember, Zenon
<1>8. From(Now, x) <= 0 - n /\ From(Now, x) + Ticks <= x /\ From(Now, x) <= 0
  BY <1>5, <1>7, SpanType
<1> QED
  BY <1>1, <1>2, <1>3, <1>4, <1>5, <1>8 DEF x, n, g

LEMMA SwitchExpiredPromise ==
  ASSUME RunsInv, TimeInv, PromiseInv, SwitchExpired
  PROVE  PromiseInv' /\ Goes
<1> DEFINE h == Head(current)
<1>0. PICK t : t = h
  OBVIOUS
<1> DEFINE x == Expiry[t]
           p == timer[t].period
           r == Later(x, p)
           n == tmr.now
           d == From(Now, x)
<1>1. /\ tmr.at = "switch" /\ current # <<>> /\ Calls(t) /\ UNCHANGED <<lastTime, timerQ, user>>
      /\ IF r > x
         THEN /\ timer' = [timer EXCEPT ![t].expiry = r]
              /\ Listed("current", t, r)
              /\ UNCHANGED tmr
         ELSE /\ current' = Tail(current)
              /\ tmr' = [tmr EXCEPT !.at = "reload", !.timer = t]
              /\ UNCHANGED <<timer, overflow>>
  BY <1>0 DEF SwitchExpired, At
<1>2. /\ t \in Timer /\ t \in Members(current) /\ t \notin Members(overflow) /\ Running(t)
      /\ Tail(current) \in Lists(Timer) /\ Members(Tail(current)) = Members(current) \ {t}
  <2>1. /\ t \in Timer /\ t \in Members(current)
        /\ Tail(current) \in Lists(Timer) /\ Members(Tail(current)) = Members(current) \ {t}
    BY <1>0, <1>1, TailOfList DEF TimeInv, Counted
  <2>2. t \notin Members(overflow)
    BY <2>1 DEF PromiseInv, Apart
  <2> QED
    BY <2>1, <2>2 DEF Running
<1>3. /\ Switching /\ Turn = Ticks /\ Ref = n /\ Now \in Span /\ x \in Span /\ n \in Span
      /\ p \in Span \ {0} /\ p + MaxLate < Ticks
      /\ d = ((x - Ticks) - n) - Gap(Now, n) /\ d <= 0
      /\ t \in DOMAIN DueOf /\ DueOf[t] = d
  BY <1>1, <1>2, OverAtSwitch
<1> HIDE DEF x, p, n, r, d, h
<1>4. Calm(k', k) /\ k'.failed = k.failed
  BY <1>1, CalmCalls, CallsKept DEF Steady
<1>5. Now' = Now /\ k'.pendedTicks = k.pendedTicks
  BY <1>4, NowCalm
<1>6. rung \in [Timer -> BOOLEAN] /\ rung' = [rung EXCEPT ![t] = ~@] /\ Between = "none"
  BY <1>1 DEF PromiseInv, Apart, Calls, Between
<1>7. \A f : Working /\ tmr.msg.timer = f => f # t
  BY <1>2 DEF PromiseInv, Apart
<1>8. CASE r > x
  <2>1. /\ timer' = [timer EXCEPT ![t].expiry = r] /\ Listed("current", t, r) /\ UNCHANGED tmr
    BY <1>1, <1>8
  <2>2. Expiry' = [Expiry EXCEPT ![t] = r] /\ PeriodOf' = PeriodOf
    <3> DEFINE v == [timer[t] EXCEPT !.expiry = r]
    <3>1. timer \in [Timer -> [active : BOOLEAN, expiry : Span, period : Span \ {0}]]
      BY DEF TimeInv, Counted
    <3>2. timer' = [timer EXCEPT ![t] = v]
      BY <2>1
    <3>3. v.expiry = r /\ v.period = timer[t].period
      BY <1>2, <3>1
    <3> HIDE DEF v
    <3> QED
      BY <1>2, <3>2, <3>3, ExpirySet, PeriodKept
  <2>3. /\ Switching' /\ Turn' = Turn /\ Ref' = Ref /\ (Working' <=> Working) /\ Between' = "none"
    <3>1. Switching' /\ (Working' <=> Working) /\ Between' = "none"
      BY <1>1, <2>1 DEF Switching, Working, Between
    <3> QED
      BY <1>1, <1>3, <2>1, <3>1 DEF Turn, Ref
  <2>4. r = x + p /\ From(Now, r) = d + p /\ p \in Int /\ 0 < p /\ n \in Int /\ 0 <= n /\ x \in Int /\ x < Ticks /\ Gap(Now, n) \in Int
    <3>1. p \in Span /\ p # 0 /\ Gap(Now, n) \in Span
      BY <1>3, GapValue
    <3>2. p \in Int /\ 0 <= p /\ n \in Int /\ 0 <= n /\ x \in Int /\ x < Ticks /\ Gap(Now, n) \in Int /\ p < Ticks
      BY <1>3, <3>1, SpanMember, Zenon
    <3>3. r = IF x + p < Ticks THEN x + p ELSE (x + p) - Ticks
      BY <1>3, <3>1, LaterValue DEF r
    <3>4. r = x + p
      BY <1>8, <3>2, <3>3, SpanType
    <3>5. d + p < Ticks - MaxLate
      BY <1>3, <3>2, SpanType, LateType
    <3>6. From(Now, r) = d + p
      BY <1>3, <3>1, <3>5, FromLater DEF r, d
    <3> QED
      BY <3>1, <3>2, <3>4, <3>6
  <2>5. /\ From(Now, r) = ((Place("current", r) - Turn) - Ref) - Gap(Now, Ref)
        /\ (Place("current", r) - Turn) - Ref < Ticks - MaxLate
    <3>1. Place("current", r) = x + p
      BY <2>4 DEF Place
    <3>2. (((x + p) - Ticks) - n) - Gap(Now, n) = d + p
      BY <1>3, <2>4, SpanType
    <3>3. ((x + p) - Ticks) - n < Ticks - MaxLate
      BY <1>3, <2>4, SpanType, LateType
    <3> QED
      BY <1>3, <2>4, <3>1, <3>2, <3>3
  <2>6. /\ Members(current') \cap Members(overflow') = {}
        /\ \A u : Running(u)' <=> (u # t /\ Running(u)) \/ u = t
        /\ Dues'
        /\ DueOf' = With(DueOf, t, d + p)
    <3>1. tmr.at # "reload" /\ tmr'.at # "reload"
      BY <1>1, <2>1
    <3>2. PICK f, z : f = r /\ z = "current"
      OBVIOUS
    <3>3. Listed(z, t, f) /\ t \in Timer /\ z \in {"over", "current", "overflow"} /\ Now' = Now /\ z # "over"
      BY <1>2, <1>5, <2>1, <3>2
    <3>4. /\ From(Now, f) = ((Place(z, f) - Turn) - Ref) - Gap(Now, Ref)
          /\ (Place(z, f) - Turn) - Ref < Ticks - MaxLate
      BY <2>5, <3>2
    <3>5. Expiry' = [Expiry EXCEPT ![t] = f] /\ Turn' = Turn /\ Ref' = Ref
      BY <2>2, <2>3, <3>2
    <3>6. /\ Members(current') \cap Members(overflow') = {}
          /\ \A u : Running(u)' <=> (u # t /\ Running(u)) \/ (u = t /\ z # "over")
          /\ Dues'
          /\ DueOf' = With(DueOf, t, From(Now, f))
      BY <3>1, <3>3, <3>4, <3>5, Relisted
    <3> QED
      BY <2>4, <3>2, <3>3, <3>6
  <2>7. RungOf' = [RungOf EXCEPT ![t] = ~@] /\ rung' \in [Timer -> BOOLEAN]
    BY <1>2, <1>6, <2>3, RungFlips
  <2>8. Ours' = Ours
    BY <1>1, <2>1 DEF Ours
  <2>9. Apart'
    <3>1. Working' => ~Running(tmr.msg.timer)'
      <4> SUFFICES ASSUME Working PROVE ~Running(tmr.msg.timer)'
        BY <2>3
      <4>1. PICK f : f = tmr.msg.timer
        OBVIOUS
      <4>2. f # t /\ ~Running(f)
        <5>1. f # t
          BY <1>7, <4>1
        <5>2. Running(tmr.msg.timer) <=> Running(f)
          BY <4>1
        <5> QED
          BY <5>1, <5>2 DEF PromiseInv, Apart
      <4>3. ~Running(f)'
        BY <2>6, <4>2
      <4>4. f = tmr'.msg.timer
        BY <2>1, <4>1
      <4>5. Running(tmr.msg.timer)' <=> Running(f)'
        BY <4>4 DEF Running
      <4> QED
        BY <4>3, <4>5
    <3>2. (tmr'.msg.cmd # "none") <=> Working'
      BY <2>1, <2>3 DEF PromiseInv, Apart
    <3>3. tmr'.at = "switch"
      BY <1>1, <2>1
    <3> QED
      BY <2>6, <2>7, <3>1, <3>2, <3>3 DEF Apart, Members
  <2>10. Lag'
    BY <1>1, <1>5, <2>1 DEF PromiseInv, Lag, Gap
  <2>11. Ages'
    BY <1>1, <1>5, <2>1 DEF PromiseInv, Ages, Switching, Gap
  <2>12. Sound'
    BY <1>1, <1>5, <2>2, <2>8, UserSame, SoundSame DEF PromiseInv
  <2>13. Cmds' = Cmds
    BY <1>5, <2>8, CmdsIs
  <2>14. DueOf' = [u \in DOMAIN DueOf \cup {t} |-> IF u = t THEN DueOf[t] + PeriodOf[t] ELSE DueOf[u]]
    <3>1. PeriodOf[t] = p
      BY <1>2 DEF PeriodOf, p
    <3> QED
      BY <1>3, <2>6, <3>1 DEF With
  <2>15. Promised!Next
    BY <1>2, <1>3, <1>4, <2>2, <2>7, <2>13, <2>14, ExpirePromise
  <2> QED
    BY <2>6, <2>9, <2>10, <2>11, <2>12, <2>15 DEF PromiseInv, Goes
<1>9. CASE ~(r > x)
  <2>1. /\ current' = Tail(current) /\ tmr' = [tmr EXCEPT !.at = "reload", !.timer = t]
        /\ UNCHANGED <<timer, overflow>>
    BY <1>1, <1>9
  <2>2. tmr'.at = "reload" /\ tmr'.timer = t /\ tmr'.msg = tmr.msg /\ tmr'.now = tmr.now /\ tmr'.then = tmr.then
    BY <2>1 DEF RunsInv, Returns
  <2>3. /\ Switching' /\ Turn' = Turn /\ Ref' = Ref /\ (Working' <=> Working) /\ Between' = t
    <3>1. Switching' /\ (Working' <=> Working) /\ Between' = t
      BY <1>1, <2>2 DEF Switching, Working, Between
    <3> QED
      BY <1>1, <1>3, <2>2, <3>1 DEF Turn, Ref, n
  <2>4. Members(current') = Members(current) \ {t} /\ Members(overflow') = Members(overflow)
    BY <1>2, <2>1
  <2>5. \A u : Running(u)' <=> Running(u)
    <3>1. \A u : Running(u) <=> u \in Members(current) \cup Members(overflow)
      BY <1>1 DEF Running
    <3>2. \A u : Running(u)' <=> u \in Members(current') \cup Members(overflow') \/ u = t
      BY <2>2 DEF Running, Members
    <3> QED
      BY <1>2, <2>4, <3>1, <3>2
  <2>6. RungOf' = RungOf /\ rung' \in [Timer -> BOOLEAN]
    BY <1>2, <1>6, <2>3, RungSame
  <2>7. Apart'
    <3>1. Working' => ~Running(tmr.msg.timer)'
      <4>1. PICK f : f = tmr.msg.timer
        OBVIOUS
      <4>2. Working => ~Running(f)
        <5>1. Running(tmr.msg.timer) <=> Running(f)
          BY <4>1
        <5> QED
          BY <5>1 DEF PromiseInv, Apart
      <4>3. f = tmr'.msg.timer
        BY <2>2, <4>1
      <4>4. Running(tmr.msg.timer)' <=> Running(f)'
        BY <4>3 DEF Running
      <4> QED
        BY <2>3, <2>5, <4>2, <4>4
    <3>2. (tmr'.msg.cmd # "none") <=> Working'
      BY <2>2, <2>3 DEF PromiseInv, Apart
    <3>3. Members(current') \cap Members(overflow') = {} /\ t \notin Members(current') \cup Members(overflow')
      BY <1>2, <2>4 DEF PromiseInv, Apart
    <3> QED
      BY <2>2, <2>6, <3>1, <3>2, <3>3 DEF Apart, Members
  <2>8. Lag'
    BY <1>1, <1>5, <2>2 DEF PromiseInv, Lag, Gap
  <2>9. Ages'
    BY <1>1, <1>5, <2>1, <2>2 DEF PromiseInv, Ages, Switching, Gap
  <2>10. Ours' = Ours /\ PeriodOf' = PeriodOf
    BY <1>1, <2>1, <2>2 DEF Ours, PeriodOf
  <2>11. \A u \in Timer : Running(u) => /\ Expiry'[u] = Expiry[u]
                                        /\ Ahead(u)' - Gap(Now, Ref') = Ahead(u) - Gap(Now, Ref)
                                        /\ Ahead(u)' < Ticks - MaxLate
    BY <2>1, <2>3, AheadSame
  <2> QED
    BY <1>1, <1>4, <1>5, <2>5, <2>6, <2>7, <2>8, <2>9, <2>10, <2>11, UserSame, Idles DEF Goes
<1> QED
  BY <1>8, <1>9

LEMMA SwitchReloadPromise ==
  ASSUME RunsInv, TimeInv, PromiseInv, SwitchReload
  PROVE  k'.failed = TRUE \/ (PromiseInv' /\ Goes)
<1> SUFFICES ASSUME k'.failed # TRUE PROVE PromiseInv' /\ Goes
  OBVIOUS
<1> DEFINE h == tmr.timer
<1>0. PICK t : t = h
  OBVIOUS
<1> DEFINE x == Expiry[t]
           m == Message("again", t, x)
           d == From(Now, x)
<1>1. /\ tmr.at = "reload" /\ Runs(TimerTask) /\ Resend(m) /\ tmr' = [tmr EXCEPT !.at = "switch", !.timer = "none"]
      /\ UNCHANGED <<timer, current, overflow, lastTime, user, rung>>
  BY <1>0 DEF SwitchReload, At, timerVars
<1>2. t \in Timer /\ t \notin Members(current) /\ t \notin Members(overflow) /\ Running(t)
  <2>1. t \in Timer
    BY <1>0, <1>1 DEF TimeInv, Locals
  <2>2. t \notin Members(current) /\ t \notin Members(overflow)
    BY <1>0, <1>1 DEF PromiseInv, Apart
  <2> QED
    BY <1>0, <1>1, <2>1, <2>2 DEF Running
<1>3. /\ Switching /\ Turn = Ticks /\ Ref = tmr.now /\ Now \in Span /\ x \in Span
      /\ d <= 0 /\ t \in DOMAIN DueOf /\ DueOf[t] = d
  BY <1>1, <1>2, OverAtSwitch
<1>4. m \in Command
  BY <1>2, <1>3 DEF Command, Message
<1>5. m.cmd = "again" /\ m.timer = t /\ m.value = x
  BY DEF Message
<1> HIDE DEF x, d, m
<1>6. k' = k /\ timerQ' = Append(timerQ, m)
  <2>1. TimerTask \in ReadyTasks(k)
    BY <1>1, TimerTaskRuns
  <2> QED
    BY <1>1, <2>1, AgainSent
<1>7. Now' = Now /\ k'.pendedTicks = k.pendedTicks /\ k'.failed = k.failed
  BY <1>6 DEF Now
<1>8. tmr'.at = "switch" /\ tmr'.msg = tmr.msg /\ tmr'.now = tmr.now /\ tmr'.then = tmr.then
  BY <1>1 DEF RunsInv, Returns
<1>9. Switching' /\ Turn' = Turn /\ Ref' = Ref /\ (Working' <=> Working) /\ Between = t /\ Between' = "none"
  <2>1. Switching' /\ (Working' <=> Working) /\ Between' = "none"
    BY <1>1, <1>8 DEF Switching, Working, Between
  <2>2. Between = t
    BY <1>0, <1>1 DEF Between
  <2> QED
    BY <1>3, <1>8, <2>1, <2>2 DEF Turn, Ref
<1>10. Ours' = Append(Ours, m) /\ Members(Ours') = Members(Ours) \cup {m} /\ Ours \in Seq(Command)
  BY <1>4, <1>6, <1>8, OursGrows, OursType DEF PromiseInv
<1>11. PeriodOf' = PeriodOf /\ \A u \in Timer : Ahead(u)' = Ahead(u) /\ Expiry'[u] = Expiry[u]
  BY <1>1, <1>9, PlaceSame DEF PeriodOf
<1>12. \A u : Running(u)' <=> Running(u) /\ u # t
  <2>1. \A u : Running(u) <=> u \in Members(current) \cup Members(overflow) \/ u = t
    BY <1>0, <1>1 DEF Running
  <2>2. \A u : Running(u)' <=> u \in Members(current) \cup Members(overflow)
    BY <1>1, <1>8 DEF Running, Members
  <2> QED
    BY <1>2, <2>1, <2>2
<1>13. rung \in [Timer -> BOOLEAN] /\ RungOf' = [RungOf EXCEPT ![t] = ~@]
  <2>1. rung \in [Timer -> BOOLEAN]
    BY DEF PromiseInv, Apart
  <2> QED
    BY <1>1, <1>2, <1>9, <2>1, RungHalf
<1>14. Apart'
  <2>1. Working' => ~Running(tmr.msg.timer)'
    <3>1. PICK f : f = tmr.msg.timer
      OBVIOUS
    <3>2. Working => ~Running(f)
      <4>1. Running(tmr.msg.timer) <=> Running(f)
        BY <3>1
      <4> QED
        BY <4>1 DEF PromiseInv, Apart
    <3>3. f = tmr'.msg.timer
      BY <1>8, <3>1
    <3>4. Running(tmr.msg.timer)' <=> Running(f)'
      BY <3>3 DEF Running
    <3> QED
      BY <1>9, <1>12, <3>2, <3>4
  <2> QED
    BY <1>1, <1>8, <1>9, <1>13, <2>1 DEF PromiseInv, Apart, Members
<1>15. Lag'
  BY <1>1, <1>7, <1>8 DEF PromiseInv, Lag, Gap
<1>16. Ages'
  BY <1>1, <1>7, <1>8 DEF PromiseInv, Ages, Switching, Gap
<1>17. Sound'
  BY <1>1, <1>5, <1>7, <1>10, <1>11, UserSame, SoundSame DEF PromiseInv
<1>18. Dues'
  BY <1>7, <1>9, <1>11, <1>12, DuesSame DEF PromiseInv
<1>19. Cmds' = Append(Cmds, [cmd |-> "again", timer |-> t, age |-> 0 - DueOf[t]])
  <2>1. Cmds' = Append(Cmds, Told(m, Now))
    BY <1>4, <1>7, <1>10, CmdsIs, ToldAppend
  <2>2. Told(m, Now) = [cmd |-> "again", timer |-> t, age |-> Gap(Now, x)]
    BY <1>5, ToldStart
  <2>3. Gap(Now, x) = 0 - d
    BY <1>3, GapFrom DEF d
  <2> QED
    BY <1>3, <2>1, <2>2, <2>3
<1>20. DueOf' = [u \in DOMAIN DueOf \ {t} |-> DueOf[u]]
  <2>1. {u \in Timer : Running(u)'} = {u \in Timer : Running(u)} \ {t}
    BY <1>12
  <2>2. {u \in Timer : Running(u)} \ {t} = (DOMAIN DueOf) \ {t}
    BY DueIs
  <2>3. \A u \in (DOMAIN DueOf) \ {t} : DueOf[u] = From(Now, Expiry[u]) /\ Expiry'[u] = Expiry[u]
    BY <1>11, DueIs
  <2>4. DueOf' = [u \in (DOMAIN DueOf) \ {t} |-> From(Now, Expiry'[u])]
    BY <1>7, <2>1, <2>2, DueIs
  <2> QED
    BY <2>3, <2>4
<1>21. Promised!Next
  BY <1>2, <1>3, <1>7, <1>11, <1>13, <1>19, <1>20, ExpirePromise
<1> QED
  BY <1>14, <1>15, <1>16, <1>17, <1>18, <1>21 DEF PromiseInv, Goes

-----------------------------------------------------------------------------
(***************************************************************************)
(* The time goes on.                                                       *)
(***************************************************************************)
LEMMA TickNow ==
  ASSUME RunsInv, TimeInv, PromiseInv, SysTick
  PROVE  /\ Now' = Later(Now, 1) /\ k'.failed = k.failed
         /\ k'.pendedTicks \in Nat /\ k'.pendedTicks <= MaxLate
         /\ tmr.at = "expired" => k'.tick = k.tick
<1> DEFINE i == xTaskIncrementTick(k)
           n == k.tick
           d == k.pendedTicks
<1>1. Known(k) /\ Kern(k) /\ Timed(k) /\ d \in Nat /\ d < MaxLate /\ n \in Span
  <2>1. Known(k) /\ Kern(k) /\ Timed(k) /\ n \in Span
    BY NowType DEF RunsInv, Known, TimeInv
  <2>2. d \in Nat
    BY DEF PromiseInv, Lag
  <2>3. d < MaxLate
    BY DEF SysTick, InTime
  <2> QED
    BY <2>1, <2>2, <2>3
<1>2. k' = IF TickRequiresSwitch(k) THEN portYIELD(i) ELSE i
  BY DEF SysTick, xPortSysTickHandler
<1>3. EndMark \notin Task
  BY TaskType
<1>4. CASE Held
  <2>1. Stopped(k) /\ k.suspended = 1
    BY <1>4 DEF RunsInv, Stopped
  <2>2. i = [k EXCEPT !.pendedTicks = d + 1] /\ ~TickRequiresSwitch(k)
    BY <2>1 DEF xTaskIncrementTick, TickRequiresSwitch
  <2>3. k'.tick = n /\ k'.pendedTicks = d + 1 /\ k'.failed = k.failed
    BY <1>1, <1>2, <2>2 DEF Kern, Fields
  <2> HIDE DEF i, n, d
  <2>4. d \in Span /\ d + 1 \in Span /\ d + 1 \in Nat /\ d + 1 <= MaxLate
    BY <1>1, LateType, SpanType DEF Span
  <2>5. Later(Later(n, d), 1) = Later(n, d + 1)
    BY <1>1, <2>4, LaterOne
  <2>6. Now' = Later(n, d + 1) /\ Now = Later(n, d)
    BY <2>3 DEF Now, n, d
  <2> QED
    BY <2>3, <2>4, <2>5, <2>6 DEF n
<1>5. CASE ~Held
  <2>1. k.suspended = 0 /\ d = 0 /\ tmr.at # "expired"
    BY <1>5 DEF RunsInv, Free, Held
  <2>2. i.tick = Later(n, 1) /\ i.failed = k.failed /\ Kern(i)
    BY <1>1, <1>3, <2>1, TickKernel, TickTimed DEF Made
  <2>3. i.pendedTicks = d
    BY <1>1, <1>3, <2>1, TickKernel DEF Keeps, Fields, TimeFields, StateLists
  <2> HIDE DEF i
  <2>4. k'.tick = Later(n, 1) /\ k'.failed = k.failed /\ k'.pendedTicks = 0
    BY <1>2, <2>1, <2>2, <2>3 DEF portYIELD, Kern, Fields
  <2>5. Now = n
    BY <1>5, NowType
  <2> HIDE DEF n, d
  <2>6. Later(n, 1) \in Span
    BY <1>1, LaterType, SpanType
  <2>7. Now' = Later(Later(n, 1), 0)
    BY <2>4 DEF Now
  <2> QED
    BY <1>1, <2>1, <2>4, <2>5, <2>6, <2>7, LaterNone, LateType
<1> QED
  BY <1>4, <1>5

\* What the bound on the lateness says of the times in use.
LEMMA Early ==
  ASSUME RunsInv, TimeInv, PromiseInv, InTime
  PROVE  /\ \A t \in Timer : Running(t) => From(Now, Expiry[t]) > 0 - MaxLate
         /\ \A m \in Members(Ours) :
              /\ m.cmd = "start" => From(Now, m.value) > 0 - MaxLate
              /\ m.cmd = "again" => Gap(Now, m.value) < Ticks - 1
         /\ \A s \in Senders : user[s].at = "send" => From(Now, user[s].msg.value) > 0 - MaxLate
         /\ tmr.at \in {"command", "process", "switch", "reload"} => From(Now, tmr.now) > 0 - MaxLate
<1>1. ASSUME NEW t \in Timer, Running(t) PROVE From(Now, Expiry[t]) > 0 - MaxLate
  <2>1. CASE t \in Members(current) \cup Members(overflow)
    <3>1. Left(timer[t].expiry) > 0 - MaxLate
      BY <2>1 DEF InTime
    <3> QED
      BY <3>1, LeftIs DEF Expiry
  <2>2. CASE tmr.at = "reload" /\ tmr.timer = t
    <3>1. Left(Expiry[t]) > 0 - MaxLate
      BY <2>2 DEF InTime
    <3> QED
      BY <3>1, LeftIs
  <2> QED
    BY <1>1, <2>1, <2>2 DEF Running
<1>2. ASSUME NEW m \in Members(Ours)
      PROVE  /\ m.cmd = "start" => From(Now, m.value) > 0 - MaxLate
             /\ m.cmd = "again" => Gap(Now, m.value) < Ticks - 1
  <2>1. PICK i \in DOMAIN Ours : m = Ours[i]
    BY DEF Members
  <2>2. m.cmd = "start" => Left(m.value) > 0 - MaxLate
    BY <2>1 DEF InTime
  <2>3. m.cmd = "again" => (Now - m.value) % Ticks < MaxDelay
    BY <2>1 DEF InTime
  <2> QED
    BY <2>2, <2>3, LeftIs DEF Gap, MaxDelay
<1>3. ASSUME NEW s \in Senders, user[s].at = "send" PROVE From(Now, user[s].msg.value) > 0 - MaxLate
  <2>1. Left(user[s].msg.value) > 0 - MaxLate
    BY <1>3 DEF InTime
  <2> QED
    BY <2>1, LeftIs
<1>4. ASSUME tmr.at \in {"command", "process", "switch", "reload"} PROVE From(Now, tmr.now) > 0 - MaxLate
  <2>1. Left(tmr.now) > 0 - MaxLate
    BY <1>4 DEF InTime
  <2> QED
    BY <2>1, LeftIs
<1> QED
  BY <1>1, <1>2, <1>3, <1>4

LEMMA GapTickLate ==
  ASSUME NEW now \in Span, NEW x \in Span, Gap(now, x) <= MaxLate, From(now, x) > 0 - MaxLate
  PROVE  Gap(Later(now, 1), x) = Gap(now, x) + 1 /\ Gap(Later(now, 1), x) <= MaxLate
<1> DEFINE g == Gap(now, x)
<1>1. From(now, x) = 0 - g
  BY FromGap
<1>2. g \in Span
  BY GapValue
<1>3. g \in Int
  BY <1>2, SpanMember, Zenon
<1>4. g < MaxLate /\ g # Ticks - 1 /\ g + 1 <= MaxLate
  BY <1>1, <1>3, LateType, SpanType
<1> QED
  BY <1>4, GapTick

LEMMA GapOfTick ==
  ASSUME NEW n \in Span, NEW d \in Span
  PROVE  Gap(Later(n, d), n) = d
<1> DEFINE w == Later(n, d)
<1>1. w = (IF n + d < Ticks THEN n + d ELSE (n + d) - Ticks) /\ w \in Span
  BY LaterValue, LaterType, SpanType
<1>2. n \in Int /\ d \in Int /\ 0 <= n /\ 0 <= d /\ n < Ticks /\ d < Ticks
  BY SpanMember, Zenon
<1> HIDE DEF w
<1>3. Gap(w, n) = IF w >= n THEN w - n ELSE (w - n) + Ticks
  BY <1>1, GapValue
<1>4. Gap(w, n) = d
  BY <1>1, <1>2, <1>3, SpanType
<1> QED
  BY <1>4 DEF w

LEMMA TimePasses ==
  ASSUME RunsInv, TimeInv, PromiseInv, SysTick
  PROVE  PromiseInv' /\ Goes
<1>1. /\ UNCHANGED <<timer, current, overflow, lastTime, timerQ, tmr, user, rung>> /\ InTime
      /\ Now \in Span /\ Now' = Later(Now, 1) /\ k'.failed = k.failed
      /\ k'.pendedTicks \in Nat /\ k'.pendedTicks <= MaxLate
      /\ tmr.at = "expired" => k'.tick = k.tick
  BY TickNow, NowType DEF SysTick, timerVars
<1>2. /\ Ours' = Ours /\ PeriodOf' = PeriodOf /\ RungOf' = RungOf /\ Turn' = Turn /\ Ref' = Ref /\ Expiry' = Expiry
      /\ (Working' <=> Working) /\ Ours \in Seq(Command)
  BY <1>1, OursType DEF Ours, PeriodOf, RungOf, Between, Turn, Ref, Switching, Expiry, Working, PromiseInv
<1>3. \A t \in Timer : (Running(t)' <=> Running(t)) /\ Ahead(t)' = Ahead(t)
  BY <1>1, <1>2 DEF Running, Members, Ahead
<1>4. Apart'
  BY <1>1, ApartSame DEF PromiseInv
<1>5. ASSUME NEW t \in Timer, Running(t)
      PROVE  From(Now', Expiry[t]) = From(Now, Expiry[t]) - 1 /\ Gap(Now', Ref) = Gap(Now, Ref) + 1
  <2> DEFINE x == Expiry[t]
             r == Ref
             a == Ahead(t)
  <2>1. x \in Span /\ r \in Span
    BY DEF TimeInv, Counted, Expiry, Locals, Ref, Switching
  <2>2. From(Now, x) = a - Gap(Now, r) /\ a < Ticks - MaxLate
    BY <1>5 DEF PromiseInv, Dues, DueAhead
  <2>3. From(Now, x) > 0 - MaxLate
    BY <1>1, <1>5, Early
  <2>4. a \in Int
    <3>1. x \in Int /\ r \in Int
      BY <2>1, SpanMember, Zenon
    <3>2. Ticks \in Int /\ Turn \in Int /\ Expiry[t] \in Int /\ Ref \in Int
      BY <3>1, SpanType DEF Turn
    <3> HIDE DEF x, r
    <3> QED
      BY <3>1, <3>2 DEF Ahead
  <2> HIDE DEF x, r, a
  <2>5. Gap(Now, r) \in Span
    BY <1>1, <2>1, GapValue
  <2>6. Gap(Now, r) \in Int
    BY <2>5, SpanMember, Zenon
  <2>7. Gap(Now, r) # Ticks - 1
    BY <2>2, <2>3, <2>4, <2>6, LateType, SpanType
  <2>8. Gap(Later(Now, 1), r) = Gap(Now, r) + 1 /\ From(Later(Now, 1), x) = From(Now, x) - 1
    BY <1>1, <2>1, <2>3, <2>7, GapTick, FromTick
  <2> QED
    BY <1>1, <2>8 DEF x, r
<1>6. Dues'
  <2> SUFFICES ASSUME NEW t \in Timer, Running(t)' PROVE DueAhead(t)'
    BY DEF Dues
  <2>1. Running(t) /\ DueAhead(t)
    BY <1>3 DEF PromiseInv, Dues
  <2>2. From(Now', Expiry[t]) = From(Now, Expiry[t]) - 1 /\ Gap(Now', Ref) = Gap(Now, Ref) + 1
    BY <1>5, <2>1
  <2>3. Ahead(t) \in Int /\ Gap(Now, Ref) \in Int
    <3>1. Expiry[t] \in Span /\ Ref \in Span
      BY DEF TimeInv, Counted, Expiry, Locals, Ref, Switching
    <3>2. Gap(Now, Ref) \in Span
      BY <1>1, <3>1, GapValue
    <3>3. Expiry[t] \in Int /\ Ref \in Int /\ Gap(Now, Ref) \in Int
      BY <3>1, <3>2, SpanMember, Zenon
    <3>4. Turn \in Int /\ Ticks \in Int
      BY SpanType DEF Turn
    <3> QED
      BY <3>3, <3>4 DEF Ahead
  <2> DEFINE a == Ahead(t)
             g == Gap(Now, Ref)
  <2>4. From(Now, Expiry[t]) = a - g /\ a < Ticks - MaxLate
    BY <2>1 DEF DueAhead
  <2> HIDE DEF a, g
  <2>5. (a - g) - 1 = a - (g + 1)
    BY <2>3 DEF a, g
  <2>6. From(Now', Expiry[t]) = a - Gap(Now', Ref)
    BY <2>2, <2>4, <2>5 DEF g
  <2> QED
    BY <1>2, <1>3, <2>4, <2>6 DEF DueAhead, From, Gap, a
<1>7. ASSUME NEW m \in Members(Ours), m.cmd \in {"start", "again"}
      PROVE  /\ m.value \in Span /\ Gap(Now', m.value) = Gap(Now, m.value) + 1
             /\ m.cmd = "start" => Gap(Now', m.value) <= MaxLate
  <2>1. m \in Command
    BY <1>2 DEF Members
  <2>2. m.value \in Span
    BY <2>1 DEF Command
  <2>3. CASE m.cmd = "start"
    <3>1. Gap(Now, m.value) <= MaxLate /\ From(Now, m.value) > 0 - MaxLate
      BY <1>1, <2>3, Early DEF PromiseInv, Sound
    <3> QED
      BY <1>1, <2>2, <3>1, GapTickLate
  <2>4. CASE m.cmd = "again"
    <3>1. Gap(Now, m.value) < Ticks - 1
      BY <1>1, <2>4, Early
    <3>2. Gap(Now, m.value) \in Span
      BY <1>1, <2>2, GapValue
    <3>3. Gap(Now, m.value) \in Int
      BY <3>2, SpanMember, Zenon
    <3>4. Gap(Now, m.value) # Ticks - 1
      BY <3>1, <3>3, SpanType
    <3> QED
      BY <1>1, <2>2, <2>4, <3>4, GapTick
  <2> QED
    BY <1>7, <2>3, <2>4
<1>8. Sound'
  <2>1. \A t \in Timer : timer'[t].period + MaxLate < Ticks
    BY <1>1 DEF PromiseInv, Sound
  <2>2. ASSUME NEW m \in Members(Ours')
        PROVE  /\ m.cmd = "period" => m.value + MaxLate < Ticks
               /\ m.cmd = "start" => Gap(Now', m.value) <= MaxLate
    BY <1>2, <1>7, <2>2 DEF PromiseInv, Sound
  <2>3. ASSUME NEW s \in Senders, user'[s].at = "send"
        PROVE  Gap(Now', user'[s].msg.value) <= MaxLate
    <3> DEFINE v == user[s].msg.value
    <3>1. user[s].at = "send" /\ v \in Span
      <4>1. s \in {Routing, Console}
        BY TimerAssumption
      <4> QED
        BY <1>1, <2>3, <4>1 DEF TimeInv, Prepared, Command
    <3>2. Gap(Now, v) <= MaxLate /\ From(Now, v) > 0 - MaxLate
      BY <1>1, <3>1, Early DEF PromiseInv, Sound
    <3> HIDE DEF v
    <3>3. Gap(Later(Now, 1), v) <= MaxLate
      BY <1>1, <3>1, <3>2, GapTickLate
    <3> QED
      BY <1>1, <3>3 DEF v
  <2> QED
    BY <2>1, <2>2, <2>3 DEF Sound, Members, Gap
<1>9. ASSUME tmr.at \in {"expired", "command", "process", "switch", "reload"}
      PROVE  Gap(Now', tmr.now) = Gap(Now, tmr.now) + 1 /\ Gap(Now', tmr.now) <= MaxLate
  <2> DEFINE n == tmr.now
  <2>1. n \in Span
    BY <1>9 DEF TimeInv, Locals, Counted
  <2>2. Gap(Now, n) <= MaxLate
    BY <1>9 DEF PromiseInv, Lag
  <2>3. CASE tmr.at # "expired"
    <3>1. From(Now, n) > 0 - MaxLate
      BY <1>1, <1>9, <2>3, Early
    <3> HIDE DEF n
    <3>2. Gap(Later(Now, 1), n) = Gap(Now, n) + 1 /\ Gap(Later(Now, 1), n) <= MaxLate
      BY <1>1, <2>1, <2>2, <3>1, GapTickLate
    <3> QED
      BY <1>1, <3>2 DEF n
  <2>4. CASE tmr.at = "expired"
    <3> DEFINE d == k.pendedTicks
    <3>1. d \in Nat /\ d < MaxLate /\ n = k.tick /\ Now = Later(k.tick, d)
      BY <1>1, <2>4 DEF PromiseInv, Lag, InTime, Now
    <3> HIDE DEF n, d
    <3>2. d \in Span /\ d # Ticks - 1 /\ d + 1 <= MaxLate
      BY <3>1, LateType, SpanType DEF Span
    <3>3. Gap(Later(n, d), n) = d
      BY <2>1, <3>2, GapOfTick
    <3>4. Gap(Now, n) = d
      BY <3>1, <3>3
    <3>5. Gap(Later(Now, 1), n) = Gap(Now, n) + 1
      BY <1>1, <2>1, <3>2, <3>4, GapTick
    <3> QED
      BY <1>1, <3>2, <3>4, <3>5 DEF n
  <2> QED
    BY <2>3, <2>4
<1>10. Lag'
  <2>1. tmr'.at \in {"expired", "command", "process", "switch", "reload"} => Gap(Now', tmr'.now) <= MaxLate
    BY <1>1, <1>9
  <2>2. tmr'.at = "expired" => tmr'.now = k'.tick
    BY <1>1 DEF PromiseInv, Lag
  <2>3. tmr'.at \in {"expired", "process"} => tmr'.next = HeadExpiry' /\ tmr'.next <= tmr'.now
    BY <1>1, <1>2 DEF PromiseInv, Lag, HeadExpiry
  <2> QED
    BY <1>1, <2>1, <2>2, <2>3 DEF Lag, Gap
<1>11. ASSUME Working
       PROVE  tmr.msg \in Members(Ours) /\ tmr.msg \in Command
  <2>1. Ours # <<>> /\ Head(Ours) = tmr.msg /\ tmr.msg \in Command
    BY <1>11, OursType DEF PromiseInv
  <2> QED
    BY <1>2, <2>1, MembersTail
<1>12. Ages'
  <2>1. ASSUME tmr.at = "restart" PROVE Gap(Now', tmr.msg.value) >= timer[tmr.msg.timer].period
    <3> DEFINE p == timer[tmr.msg.timer].period
               v == tmr.msg.value
    <3>1. Working /\ tmr.msg.cmd \in {"start", "again"} /\ Gap(Now, v) >= p
      BY <2>1 DEF Working, PromiseInv, Apart, Ages
    <3>2. v \in Span /\ Gap(Now', v) = Gap(Now, v) + 1
      BY <1>7, <1>11, <3>1
    <3>3. p \in Span
      BY <1>11, <3>1 DEF Command, TimeInv, Counted
    <3> HIDE DEF p, v
    <3>4. Gap(Now, v) \in Span
      BY <1>1, <3>2, GapValue
    <3>5. Gap(Now, v) \in Int /\ p \in Int
      BY <3>3, <3>4, SpanMember, Zenon
    <3>6. Gap(Now', v) >= p
      BY <3>1, <3>2, <3>5
    <3> QED
      BY <3>6 DEF p, v
  <2>2. ASSUME tmr.at = "command" \/ (Switching /\ tmr.then = "command"), tmr.msg.cmd \in {"start", "again"}
        PROVE  Gap(Now', tmr.now) <= Gap(Now', tmr.msg.value)
    <3> DEFINE n == tmr.now
               v == tmr.msg.value
    <3>1. Working /\ Gap(Now, n) <= Gap(Now, v) /\ tmr.at \in {"command", "switch", "reload"}
      BY <2>2 DEF Working, Switching, PromiseInv, Ages
    <3>2. v \in Span /\ Gap(Now', v) = Gap(Now, v) + 1 /\ Gap(Now', n) = Gap(Now, n) + 1
      BY <1>7, <1>9, <1>11, <2>2, <3>1
    <3>3. n \in Span
      BY <3>1 DEF TimeInv, Locals, Counted
    <3> HIDE DEF n, v
    <3>4. Gap(Now, v) \in Span /\ Gap(Now, n) \in Span
      BY <1>1, <3>2, <3>3, GapValue
    <3>5. Gap(Now, v) \in Int /\ Gap(Now, n) \in Int
      BY <3>4, SpanMember, Zenon
    <3>6. Gap(Now', n) <= Gap(Now', v)
      BY <3>1, <3>2, <3>5
    <3> QED
      BY <3>6 DEF n, v
  <2>3. Switching' <=> Switching
    BY <1>1 DEF Switching
  <2> QED
    BY <1>1, <2>1, <2>2, <2>3 DEF Ages, Gap
<1>13. DueOf' = [t \in DOMAIN DueOf |-> DueOf[t] - 1]
  <2>1. {t \in Timer : Running(t)'} = {t \in Timer : Running(t)}
    BY <1>3
  <2>2. DOMAIN DueOf = {t \in Timer : Running(t)} /\ \A t \in DOMAIN DueOf : DueOf[t] = From(Now, Expiry[t])
    BY DueIs
  <2>3. DueOf' = [t \in DOMAIN DueOf |-> From(Now', Expiry[t])]
    BY <1>2, <2>1, <2>2, DueIs
  <2>4. \A t \in DOMAIN DueOf : From(Now', Expiry[t]) = DueOf[t] - 1
    BY <1>5, <2>2
  <2> QED
    BY <2>3, <2>4
<1>14. Cmds' = [i \in DOMAIN Cmds |-> IF Cmds[i].cmd \in {"start", "again"}
                                     THEN [Cmds[i] EXCEPT !.age = @ + 1] ELSE Cmds[i]]
  <2>1. /\ DOMAIN Cmds = DOMAIN Ours /\ \A i \in DOMAIN Ours : Cmds[i] = Told(Ours[i], Now)
        /\ Cmds' = [i \in DOMAIN Ours |-> Told(Ours[i], Now')]
    BY <1>2, CmdsIs DEF ToldAll
  <2>2. ASSUME NEW i \in DOMAIN Ours
        PROVE  Told(Ours[i], Now') = IF Cmds[i].cmd \in {"start", "again"}
                                     THEN [Cmds[i] EXCEPT !.age = @ + 1] ELSE Cmds[i]
    <3>1. PICK m : m = Ours[i]
      OBVIOUS
    <3>2. m \in Members(Ours) /\ m \in Command /\ Cmds[i] = Told(m, Now) /\ Cmds[i].cmd = m.cmd
      BY <1>2, <2>1, <3>1, ToldNames DEF Members
    <3>3. CASE m.cmd \in {"start", "again"}
      <4>1. /\ Cmds[i] = [cmd |-> m.cmd, timer |-> m.timer, age |-> Gap(Now, m.value)]
            /\ Told(m, Now') = [cmd |-> m.cmd, timer |-> m.timer, age |-> Gap(Now', m.value)]
        BY <3>2, <3>3, ToldStart
      <4>2. Gap(Now', m.value) = Gap(Now, m.value) + 1
        BY <1>7, <3>2, <3>3
      <4> DEFINE g == Gap(Now, m.value)
                 c == [cmd |-> m.cmd, timer |-> m.timer, age |-> g]
      <4>3. [c EXCEPT !.age = @ + 1] = [cmd |-> m.cmd, timer |-> m.timer, age |-> g + 1]
        <5> HIDE DEF g
        <5> QED
          OBVIOUS
      <4> QED
        BY <3>1, <3>2, <3>3, <4>1, <4>2, <4>3
    <3>4. CASE ~(m.cmd \in {"start", "again"})
      <4>1. m.cmd \in {"stop", "period"}
        BY <3>2, <3>4 DEF Command
      <4>2. Told(m, Now') = Told(m, Now)
        BY <4>1, ToldOther
      <4> QED
        BY <3>1, <3>2, <3>4, <4>2
    <3> QED
      BY <3>3, <3>4
  <2> QED
    BY <2>1, <2>2
<1>15. Promised!Next
  BY <1>1, <1>2, <1>13, <1>14, TickPromise
<1> QED
  BY <1>4, <1>6, <1>8, <1>10, <1>12, <1>15 DEF PromiseInv, Goes

-----------------------------------------------------------------------------
(***************************************************************************)
(* Every step.                                                             *)
(***************************************************************************)
\* After a failed assertion nothing more happens, and nothing is promised.
Promising == k.failed \/ PromiseInv

LEMMA InitPromise == Init => PromiseInv /\ Promised!Init
<1> SUFFICES ASSUME Init PROVE PromiseInv /\ Promised!Init
  OBVIOUS
<1>1. /\ k.failed = FALSE /\ k.tick = 0 /\ k.pendedTicks = 0
      /\ timer = [t \in Timer |-> [active |-> FALSE, expiry |-> 0, period |-> InitPeriod[t]]]
      /\ current = <<>> /\ overflow = <<>> /\ timerQ = <<>> /\ tmr = Local
      /\ rung = [t \in Timer |-> FALSE]
      /\ user = [s \in {Routing, Console} |-> [at |-> "loop", msg |-> NoMessage]]
  BY DEF Init, InitKernel
<1>2. tmr.at = "next" /\ tmr.msg.cmd = "none"
  BY <1>1 DEF Local, NoMessage
<1>3. ~Working /\ ~Switching /\ Between = "none" /\ Ours = <<>>
  BY <1>1, <1>2 DEF Working, Switching, Between, Ours
<1>4. Members(current) = {} /\ Members(overflow) = {} /\ Members(Ours) = {}
  BY <1>1, <1>3 DEF Members
<1>5. \A t : ~Running(t)
  BY <1>2, <1>4 DEF Running
<1>6. \A t \in Timer : timer[t].period = InitPeriod[t]
  BY <1>1
<1>7. Apart
  BY <1>1, <1>2, <1>3, <1>4 DEF Apart
<1>8. Sound
  <2>1. \A t \in Timer : timer[t].period + MaxLate < Ticks
    BY <1>6, TickRangeAssumption
  <2>2. \A s \in Senders : user[s].at # "send"
    BY <1>1, TimerAssumption
  <2> QED
    BY <1>4, <2>1, <2>2 DEF Sound
<1>9. Lag /\ Ages /\ Dues
  BY <1>1, <1>2, <1>3, <1>5, LateType DEF Lag, Ages, Dues
<1>10. Cmds = <<>>
  BY <1>3 DEF Cmds
<1>11. DueOf = [t \in {} |-> 0]
  <2>1. {u \in Timer : Running(u)} = {}
    BY <1>5
  <2> QED
    BY <2>1 DEF DueOf
<1>12. PeriodOf \in [Timer -> AllPeriods]
  BY <1>6 DEF PeriodOf, AllPeriods
<1>13. RungOf = [t \in Timer |-> FALSE]
  BY <1>1, <1>3, TimerAssumption DEF RungOf
<1>14. Promised!Init
  BY <1>1, <1>10, <1>11, <1>12, <1>13, Zenon DEF Promised!Init, Cmds, DueOf, PeriodOf, RungOf, AllPeriods
<1> QED
  BY <1>7, <1>8, <1>9, <1>14 DEF PromiseInv

LEMMA StandsStill == UNCHANGED vars => UNCHANGED Promised!vars
<1> SUFFICES ASSUME UNCHANGED vars PROVE UNCHANGED Promised!vars
  OBVIOUS
<1>1. UNCHANGED <<k, timer, current, overflow, timerQ, tmr, rung>>
  BY DEF vars, timerVars
<1>2. Now' = Now /\ Ours' = Ours /\ PeriodOf' = PeriodOf /\ RungOf' = RungOf /\ Expiry' = Expiry
  BY <1>1 DEF Now, Ours, PeriodOf, RungOf, Between, Expiry
<1>3. \A t : Running(t)' <=> Running(t)
  BY <1>1 DEF Running, Members
<1>4. DueOf' = DueOf
  BY <1>2, <1>3, DueOfSame
<1>5. Cmds' = Cmds
  BY <1>2, CmdsIs
<1> QED
  BY <1>1, <1>2, <1>4, <1>5, StutterPromise

LEMMA PromiseStep ==
  RunsInv /\ TimeInv /\ TimeInv' /\ Promising /\ [Next]_vars => Promising' /\ [Promised!Next]_(Promised!vars)
<1> SUFFICES ASSUME RunsInv, TimeInv, TimeInv', Promising, [Next]_vars
             PROVE  Promising' /\ [Promised!Next]_(Promised!vars)
  OBVIOUS
<1>1. CASE UNCHANGED vars
  <2>1. UNCHANGED Promised!vars
    BY <1>1, StandsStill
  <2>2. ASSUME PromiseInv PROVE PromiseInv'
    <3>1. /\ UNCHANGED <<k, timer, current, overflow, lastTime, timerQ, tmr, rung, user>>
      BY <1>1 DEF vars, timerVars
    <3>2. Calm(k', k)
      BY <3>1 DEF Calm, Dozes
    <3> QED
      BY <2>2, <3>1, <3>2, UserSame, AsideSame
  <2>3. k'.failed <=> k.failed
    BY <1>1 DEF vars
  <2> QED
    BY <2>1, <2>2, <2>3 DEF Promising
<1>2. ASSUME Next PROVE Promising' /\ [Promised!Next]_(Promised!vars)
  <2>1. ~k.failed
    BY <1>2, Zenon DEF Next, prvTimerTask, prvProcessTimerOrBlockTask, Blocked, Resume, ResumeExpired,
       prvProcessExpiredTimer, Callback, Receive, SampleTimeNow, StartTimer, Restart, StopTimer, ChangePeriod,
       SwitchExpired, SwitchReload, Switched, At, Runs, Users, Start, Stop, StartPeriod, StartAfterPeriod, Send,
       WaitForNotify, Awake, IdleYields, UserAt, PendSV, SysTick, BusIsr
  <2>2. PromiseInv
    BY <2>1 DEF Promising
  <2> SUFFICES k'.failed = TRUE \/ (PromiseInv' /\ Goes)
    BY HaltPromise DEF Promising, Goes
  <2>3. CASE prvTimerTask
    <3>1. CASE prvProcessTimerOrBlockTask
      BY <2>2, <3>1, SuspendPromise
    <3>2. CASE Blocked \/ Resume \/ ResumeExpired
      BY <2>2, <3>2, ResumePromise
    <3>3. CASE prvProcessExpiredTimer
      BY <2>2, <3>3, ProcessPromise
    <3>4. CASE Callback
      BY <2>2, <3>4, CallbackPromise
    <3>5. CASE Receive
      BY <2>2, <3>5, ReceivePromise
    <3>6. CASE SampleTimeNow
      BY <2>2, <3>6, SamplePromise
    <3>7. CASE StartTimer
      BY <2>2, <3>7, StartsPromise
    <3>8. CASE Restart
      BY <2>2, <3>8, RestartPromise
    <3>9. CASE StopTimer
      BY <2>2, <3>9, StopsPromise
    <3>10. CASE ChangePeriod
      BY <2>2, <3>10, PeriodsPromise
    <3>11. CASE SwitchExpired
      BY <2>2, <3>11, SwitchExpiredPromise
    <3>12. CASE SwitchReload
      BY <2>2, <3>12, SwitchReloadPromise
    <3>13. CASE Switched
      BY <2>2, <3>13, SwitchedPromise
    <3> QED
      BY <2>3, <3>1, <3>2, <3>3, <3>4, <3>5, <3>6, <3>7, <3>8, <3>9, <3>10, <3>11, <3>12, <3>13 DEF prvTimerTask
  <2>4. CASE Users
    BY <2>2, <2>4, UserPromise
  <2>5. CASE PendSV \/ BusIsr
    <3>1. k'.failed = k.failed
      BY <2>5, ExceptionKept DEF TimeInv, Steady
    <3> QED
      BY <2>2, <2>5, <3>1, PendSVPromise
  <2>6. CASE SysTick
    BY <2>2, <2>6, TimePasses
  <2> QED
    BY <1>2, <2>3, <2>4, <2>5, <2>6 DEF Next
<1> QED
  BY <1>1, <1>2

\* The timer service is an implementation of Timers, with any timers, periods and
\* length of the queue and any clock that no period outlasts: whatever comes while
\* prvProcessTimerOrBlockTask() decides, while prvSampleTimeNow() switches the lists
\* and while a callback runs, commands are obeyed in their order, every period ends
\* with one callback, and a late one moves none of those that follow.
THEOREM TimersKeepTheirPromise == Spec => KeepsPromise
<1>1. Init => Promising /\ Promised!Init
  BY InitPromise DEF Promising
<1>2. RunsInv /\ TimeInv /\ (RunsInv /\ TimeInv)' /\ Promising /\ [Next]_vars
        => Promising' /\ [Promised!Next]_(Promised!vars)
  BY PromiseStep
<1> QED
  BY <1>1, <1>2, TimeAlways, PTL DEF Spec, KeepsPromise, Promised!Spec

-----------------------------------------------------------------------------
(***************************************************************************)
(* How long the timer task sleeps for: the next timer is the first of the  *)
(* current list, or lies beyond the return of the tick count to zero.      *)
(***************************************************************************)
InOrder == Sorted(current, Expiry) /\ Sorted(overflow, Expiry)

\* Where one timer has another time, what is left of the lists keeps its order.
LEMMA SortedWithout ==
  ASSUME NEW list \in Lists(Timer), NEW t, NEW f, NEW g, Sorted(list, f),
         \A u \in Timer \ {t} : g[u] = f[u]
  PROVE  LET r == uxListRemove(list, t)
         IN  r \in Lists(Timer) /\ t \notin Members(r) /\ Sorted(r, g)
<1> DEFINE r == uxListRemove(list, t)
<1>1. r \in Lists(Timer) /\ Members(r) = Members(list) \ {t} /\ PartOf(r, list)
  BY RemoveFromList, RemovePartOf
<1> HIDE DEF r
<1>2. Members(list) \subseteq Timer
  BY DEF Lists, Members
<1>3. \A u \in Members(r) : g[u] = f[u]
  BY <1>1, <1>2
<1>4. Sorted(r, g)
  BY <1>1, <1>3, PartOfSorted
<1> QED
  BY <1>1, <1>4 DEF r

LEMMA ListedSorted ==
  ASSUME TimeInv, InOrder, NEW w, NEW t \in Timer, NEW e \in Span, Listed(w, t, e),
         Expiry' = [Expiry EXCEPT ![t] = e]
  PROVE  InOrder'
<1> DEFINE v == [Expiry EXCEPT ![t] = e]
           c == uxListRemove(current, t)
           o == uxListRemove(overflow, t)
<1>1. /\ current' = IF w = "current" THEN vListInsert(c, t, v) ELSE c
      /\ overflow' = IF w = "overflow" THEN vListInsert(o, t, v) ELSE o
  BY DEF Listed
<1>2. v \in [Timer -> Span] /\ \A u \in Timer \ {t} : v[u] = Expiry[u]
  BY ExpiryOf
<1> HIDE DEF v
<1>3. \A u \in Timer : v[u] \in Int
  BY <1>2, SpanType
<1>4. current \in Lists(Timer) /\ overflow \in Lists(Timer) /\ Sorted(current, Expiry) /\ Sorted(overflow, Expiry)
  BY DEF TimeInv, Counted, InOrder
<1>5. /\ c \in Lists(Timer) /\ t \notin Members(c) /\ Sorted(c, v)
      /\ o \in Lists(Timer) /\ t \notin Members(o) /\ Sorted(o, v)
  BY <1>2, <1>4, SortedWithout
<1> HIDE DEF c, o
<1>6. Sorted(vListInsert(c, t, v), v)
  BY <1>3, <1>5, InsertKeepsSorted
<1>7. Sorted(vListInsert(o, t, v), v)
  BY <1>3, <1>5, InsertKeepsSorted
<1>8. Sorted(current', v) /\ Sorted(overflow', v)
  BY <1>1, <1>5, <1>6, <1>7
<1>9. Expiry' = v
  BY DEF v
<1> QED
  BY <1>8, <1>9 DEF InOrder, Sorted

\* Nothing happens to the lists.
LEMMA OrderSame ==
  ASSUME InOrder, UNCHANGED <<current, overflow>>, Expiry' = Expiry
  PROVE  InOrder'
BY DEF InOrder, Sorted

\* A timer has a new time, and goes to its list.
LEMMA OrderServe ==
  ASSUME RunsInv, TimeInv, InOrder,
         prvProcessExpiredTimer \/ StartTimer \/ ChangePeriod
  PROVE  InOrder'
<1>1. CASE prvProcessExpiredTimer
  <2> DEFINE t == Head(current)
             e == Later(tmr.next, timer[t].period)
             r == [timer[t] EXCEPT !.expiry = e]
  <2>1. /\ tmr.next \in Span /\ current # <<>> /\ timer' = [timer EXCEPT ![t] = r]
        /\ \E w : Listed(w, t, e)
    BY <1>1 DEF prvProcessExpiredTimer, At, TimeInv, Locals
  <2>2. t \in Timer /\ timer[t].period \in Span /\ timer[t] \in [active : BOOLEAN, expiry : Span, period : Span \ {0}]
    BY <2>1, HeadTimer DEF TimeInv, Counted
  <2> HIDE DEF t
  <2>3. e \in Span
    BY <2>1, <2>2, LaterType, SpanType
  <2>4. r.expiry = e
    BY <2>2
  <2> HIDE DEF e, r
  <2>5. Expiry' = [Expiry EXCEPT ![t] = e]
    BY <2>1, <2>2, <2>4, ExpirySet
  <2> QED
    BY <2>1, <2>2, <2>3, <2>5, ListedSorted
<1>2. CASE StartTimer
  <2> DEFINE t == tmr.msg.timer
             e == Later(tmr.msg.value, timer[t].period)
             r == [[timer[t] EXCEPT !.active = TRUE] EXCEPT !.expiry = e]
  <2>1. tmr.msg \in Command /\ timer' = [timer EXCEPT ![t].active = TRUE, ![t].expiry = e] /\ \E w : Listed(w, t, e)
    BY <1>2 DEF StartTimer, At, TimeInv, Received
  <2>2. /\ t \in Timer /\ tmr.msg.value \in Span /\ timer[t].period \in Span
        /\ timer[t] \in [active : BOOLEAN, expiry : Span, period : Span \ {0}]
    BY <2>1 DEF Command, TimeInv, Counted
  <2> HIDE DEF t
  <2>3. e \in Span
    BY <2>2, LaterType, SpanType
  <2>4. r.expiry = e
    BY <2>2
  <2> HIDE DEF e
  <2>5. timer' = [timer EXCEPT ![t] = r]
    BY <2>1, <2>2 DEF TimeInv, Counted
  <2> HIDE DEF r
  <2>6. Expiry' = [Expiry EXCEPT ![t] = e]
    BY <2>2, <2>4, <2>5, ExpirySet
  <2> QED
    BY <2>1, <2>2, <2>3, <2>6, ListedSorted
<1>3. CASE ChangePeriod
  <2> DEFINE t == tmr.msg.timer
             e == Later(tmr.now, tmr.msg.value)
             r == [active |-> TRUE, expiry |-> e, period |-> tmr.msg.value]
  <2>1. tmr.msg \in Command /\ tmr.now \in Span /\ timer' = [timer EXCEPT ![t] = r] /\ \E w : Listed(w, t, e)
    BY <1>3 DEF ChangePeriod, At, TimeInv, Received, Locals, Counted
  <2>2. t \in Timer /\ tmr.msg.value \in Span
    BY <2>1 DEF Command
  <2> HIDE DEF t
  <2>3. e \in Span
    BY <2>1, <2>2, LaterType, SpanType
  <2>4. r.expiry = e
    OBVIOUS
  <2> HIDE DEF e, r
  <2>5. Expiry' = [Expiry EXCEPT ![t] = e]
    BY <2>1, <2>2, <2>4, ExpirySet
  <2> QED
    BY <2>1, <2>2, <2>3, <2>5, ListedSorted
<1> QED
  BY <1>1, <1>2, <1>3

\* A timer leaves its list, or the lists are switched.
LEMMA OrderSwitch ==
  ASSUME RunsInv, TimeInv, InOrder, Receive \/ StopTimer \/ SwitchExpired \/ Switched
  PROVE  InOrder'
<1>0. current \in Lists(Timer) /\ overflow \in Lists(Timer) /\ Sorted(current, Expiry) /\ Sorted(overflow, Expiry)
  BY DEF TimeInv, Counted, InOrder
<1>1. CASE Receive
  <2>1. Expiry' = Expiry
    BY <1>1 DEF Receive, Expiry
  <2>2. CASE UNCHANGED <<current, overflow>>
    BY <2>1, <2>2, OrderSame
  <2>3. CASE \E t : current' = uxListRemove(current, t) /\ overflow' = uxListRemove(overflow, t)
    <3>1. PICK t : current' = uxListRemove(current, t) /\ overflow' = uxListRemove(overflow, t)
      BY <2>3
    <3>2. Sorted(current', Expiry) /\ Sorted(overflow', Expiry)
      BY <1>0, <3>1, SortedWithout
    <3> QED
      BY <2>1, <3>2 DEF InOrder, Sorted
  <2> QED
    BY <1>1, <2>2, <2>3 DEF Receive
<1>2. CASE StopTimer
  <2>1. timer \in [Timer -> [active : BOOLEAN, expiry : Span, period : Span \ {0}]] /\ tmr.msg \in Command
    BY <1>2 DEF StopTimer, At, TimeInv, Counted, Received
  <2>2. timer' = [timer EXCEPT ![tmr.msg.timer].active = FALSE] /\ UNCHANGED <<current, overflow>>
    BY <1>2 DEF StopTimer
  <2>3. \A u \in Timer : timer'[u].expiry = timer[u].expiry
    BY <2>1, <2>2 DEF Command
  <2>4. Expiry' = Expiry
    BY <2>3 DEF Expiry
  <2> QED
    BY <2>2, <2>4, OrderSame
<1>3. CASE SwitchExpired
  <2> DEFINE t == Head(current)
             e == Later(Expiry[t], timer[t].period)
             r == [timer[t] EXCEPT !.expiry = e]
  <2>1. /\ current # <<>>
        /\ \/ timer' = [timer EXCEPT ![t] = r] /\ Listed("current", t, e)
           \/ current' = Tail(current) /\ UNCHANGED <<timer, overflow>>
    BY <1>3 DEF SwitchExpired
  <2>2. /\ t \in Timer /\ Expiry[t] \in Span /\ timer[t].period \in Span
        /\ timer[t] \in [active : BOOLEAN, expiry : Span, period : Span \ {0}]
    BY <2>1, HeadTimer DEF TimeInv, Counted
  <2>3. CASE timer' = [timer EXCEPT ![t] = r] /\ Listed("current", t, e)
    <3> HIDE DEF t
    <3>1. e \in Span
      BY <2>2, LaterType, SpanType
    <3>2. r.expiry = e
      BY <2>2
    <3> HIDE DEF e, r
    <3>3. Expiry' = [Expiry EXCEPT ![t] = e]
      BY <2>2, <2>3, <3>2, ExpirySet
    <3> QED
      BY <2>2, <2>3, <3>1, <3>3, ListedSorted
  <2>4. CASE current' = Tail(current) /\ UNCHANGED <<timer, overflow>>
    <3>1. Expiry' = Expiry
      BY <2>4 DEF Expiry
    <3>2. /\ \A i \in DOMAIN Tail(current) : i + 1 \in DOMAIN current /\ Tail(current)[i] = current[i + 1]
          /\ DOMAIN Tail(current) \subseteq Int
      BY <1>0, <2>1 DEF Lists
    <3>3. \A i, j \in DOMAIN Tail(current) : i <= j => i + 1 <= j + 1
      BY <3>2
    <3>4. Sorted(Tail(current), Expiry)
      BY <1>0, <3>2, <3>3 DEF Sorted
    <3> QED
      BY <1>0, <2>4, <3>1, <3>4 DEF InOrder, Sorted
  <2> QED
    BY <2>1, <2>3, <2>4
<1>4. CASE Switched
  <2>1. Expiry' = Expiry /\ current' = overflow /\ overflow' = current
    BY <1>4 DEF Switched, Expiry
  <2> QED
    BY <1>0, <2>1 DEF InOrder, Sorted
<1> QED
  BY <1>1, <1>2, <1>3, <1>4

LEMMA OrderStep ==
  ASSUME RunsInv, TimeInv, InOrder, [Next]_vars
  PROVE  InOrder'
<1>1. CASE UNCHANGED <<timer, current, overflow>>
  BY <1>1, OrderSame DEF Expiry
<1>2. CASE prvTimerTask
  <2>1. CASE prvProcessTimerOrBlockTask \/ Blocked \/ Resume \/ ResumeExpired \/ Callback \/ SampleTimeNow
             \/ Restart \/ SwitchReload
    <3>1. UNCHANGED <<timer, current, overflow>>
      BY <2>1, Zenon DEF prvProcessTimerOrBlockTask, Blocked, Resume, ResumeExpired, Callback, SampleTimeNow,
         Restart, SwitchReload, timerVars
    <3> QED
      BY <1>1, <3>1
  <2>2. CASE prvProcessExpiredTimer \/ StartTimer \/ ChangePeriod
    BY <2>2, OrderServe
  <2>3. CASE Receive \/ StopTimer \/ SwitchExpired \/ Switched
    BY <2>3, OrderSwitch
  <2> QED
    BY <1>2, <2>1, <2>2, <2>3 DEF prvTimerTask
<1>3. CASE Users \/ PendSV \/ SysTick \/ BusIsr
  <2>1. UNCHANGED timerVars
    BY <1>3, Zenon DEF Users, Start, Stop, StartPeriod, StartAfterPeriod, Send, WaitForNotify, Awake, IdleYields,
       TimersUnchanged, PendSV, SysTick, BusIsr
  <2> QED
    BY <1>1, <2>1 DEF timerVars
<1>4. CASE UNCHANGED vars
  BY <1>1, <1>4 DEF vars, timerVars
<1> QED
  BY <1>2, <1>3, <1>4 DEF Next

\* While the timer task waits for a command there is none, and its time comes, the
\* ticks included that are still to be counted, no later than the first timer is due.
Asleep == TimerTask \in Members(k.waiting[TimerQueue])
Nap    == Gap(k.wake[TimerTask], k.tick) - k.pendedTicks
Sleeps ==
  Asleep =>
    /\ ~k.failed /\ timerQ = <<>> /\ TimerTask \in Delays(k)
    /\ \A t \in Members(current) \cup Members(overflow) : Nap <= From(Now, Expiry[t])

\* Whoever is awake does not fall asleep.
LEMMA StaysAwake ==
  ASSUME ~Asleep, Dozes(k', k)
  PROVE  Sleeps'
BY TaskType DEF Asleep, Sleeps, Dozes, Members

\* It sleeps on, and nothing is done about a timer.
LEMMA SleepsOn ==
  ASSUME Sleeps, Dozes(k', k), k'.failed = k.failed, UNCHANGED <<timer, current, overflow, timerQ>>,
         Asleep' => \A t \in Members(current) \cup Members(overflow) :
                      Nap <= From(Now, Expiry[t]) => Nap' <= From(Now', Expiry[t])
  PROVE  Sleeps'
<1> SUFFICES ASSUME Asleep' PROVE Sleeps'
  BY DEF Sleeps
<1>1. Asleep /\ (TimerTask \in Delays(k) => TimerTask \in Delays(k'))
  BY TaskType DEF Asleep, Dozes, Members
<1>2. ~k.failed /\ timerQ = <<>> /\ TimerTask \in Delays(k)
  BY <1>1 DEF Sleeps
<1>3. \A t \in Members(current) \cup Members(overflow) : Nap' <= From(Now', Expiry[t])
  BY <1>1 DEF Sleeps
<1>4. Expiry' = Expiry
  BY DEF Expiry
<1>5. \A t \in Members(current') \cup Members(overflow') : Nap' <= From(Now', Expiry'[t])
  BY <1>3, <1>4
<1>6. ~k'.failed /\ timerQ' = <<>> /\ TimerTask \in Delays(k')
  BY <1>1, <1>2
<1> QED
  BY <1>5, <1>6 DEF Sleeps, From, Gap, Members, Delays

LEMMA SleepsCalm ==
  ASSUME Sleeps, Calm(k', k), k'.failed = k.failed, UNCHANGED <<timer, current, overflow, timerQ>>
  PROVE  Sleeps'
<1>1. Now' = Now /\ k'.tick = k.tick /\ k'.pendedTicks = k.pendedTicks /\ Dozes(k', k)
  BY NowCalm DEF Calm
<1>2. Asleep' => k'.wake[TimerTask] = k.wake[TimerTask]
  BY <1>1, TaskType DEF Asleep, Dozes, Members
<1>3. Asleep' => Nap' = Nap
  BY <1>1, <1>2 DEF Nap, Gap
<1> QED
  BY <1>1, <1>3, SleepsOn

\* A command wakes it.
LEMMA SleepsUsers ==
  ASSUME RunsInv, TimeInv, Sleeps, Users
  PROVE  Sleeps'
<1>1. Calm(k', k) /\ k'.failed = k.failed
  BY CalmUsers, UserKept DEF Steady
<1>2. UNCHANGED <<timer, current, overflow>>
  BY Zenon DEF Users, Start, Stop, StartPeriod, StartAfterPeriod, Send, WaitForNotify, Awake, IdleYields,
     TimersUnchanged, timerVars
<1>3. CASE timerQ' = timerQ
  BY <1>1, <1>2, <1>3, SleepsCalm
<1>4. ASSUME NEW s \in {Routing, Console}, Runs(s), NEW m, xTimerGenericCommand(m)
      PROVE  Sleeps'
  <2>1. CASE Fits
    <3>1. Members(k'.waiting[TimerQueue]) = {}
      BY <1>4, <2>1, CalmCommand
    <3> QED
      BY <3>1 DEF Sleeps, Asleep, Members
  <2>2. CASE ~Fits
    <3>1. timerQ' = timerQ
      BY <1>4, <2>2 DEF xTimerGenericCommand
    <3> QED
      BY <1>3, <3>1
  <2> QED
    BY <2>1, <2>2
<1>5. ASSUME NEW s \in Senders, NEW t \in Timer, Start(s, t) \/ Stop(s, t) \/ StartPeriod(s, t)
      PROVE  Sleeps'
  <2>1. s \in {Routing, Console} /\ Runs(s)
    BY <1>5, TaskType DEF Start, Stop, StartPeriod, UserAt
  <2>2. timerQ' = timerQ \/ \E m : xTimerGenericCommand(m)
    BY <1>5 DEF Start, Stop, StartPeriod
  <2> QED
    BY <1>3, <1>4, <2>1, <2>2
<1>6. ASSUME NEW s \in Senders, StartAfterPeriod(s) \/ Send(s)
      PROVE  Sleeps'
  <2>1. s \in {Routing, Console} /\ Runs(s)
    BY <1>6, TaskType DEF StartAfterPeriod, Send, UserAt
  <2>2. timerQ' = timerQ \/ \E m : xTimerGenericCommand(m)
    BY <1>6 DEF StartAfterPeriod, Send
  <2> QED
    BY <1>3, <1>4, <2>1, <2>2
<1>7. CASE WaitForNotify \/ Awake \/ IdleYields
  BY <1>3, <1>7 DEF WaitForNotify, Awake, IdleYields
<1> QED
  BY <1>5, <1>6, <1>7 DEF Users

LEMMA SleepsExceptions ==
  ASSUME RunsInv, TimeInv, Sleeps, PendSV \/ BusIsr
  PROVE  Sleeps'
<1>1. UNCHANGED <<timer, current, overflow, timerQ>>
  BY Zenon DEF PendSV, BusIsr, timerVars
<1>2. Calm(k', k) /\ k'.failed = k.failed
  BY CalmException, ExceptionKept DEF TimeInv, Steady
<1> QED
  BY <1>1, <1>2, SleepsCalm

\* The steps in which the timer task is awake.
LEMMA SleepsServe ==
  ASSUME RunsInv, TimeInv, Runs(TimerTask), tmr.at # "blocked",
         \/ UNCHANGED k
         \/ \E t : Calls(t)
         \/ \E m : Resend(m)
         \/ Resume \/ ResumeExpired
  PROVE  Sleeps'
<1>1. TimerTask \in ReadyTasks(k) /\ Known(k)
  BY TimerTaskRuns DEF RunsInv
<1>2. ~Asleep
  BY <1>1, TaskType DEF Known, Asleep
<1>3. CASE (UNCHANGED k) \/ (\E t : Calls(t)) \/ \E m : Resend(m)
  <2>1. Calm(k, k)
    BY DEF Calm, Dozes
  <2>2. Calm(k', k)
    BY <1>1, <1>3, <2>1, CalmCalls, CalmResend
  <2> QED
    BY <1>2, <2>2, StaysAwake DEF Calm
<1>4. CASE Resume \/ ResumeExpired
  <2>1. k' = xTaskResumeAll(k) /\ Stopped(k)
    BY <1>4 DEF Resume, ResumeExpired, At, RunsInv, Held
  <2>2. Kern(k) /\ EndMark \notin Task /\ k.suspended = 1 /\ k.pendedTicks \in Nat /\ (k.pendSV \/ Level(k))
    BY <1>1, <2>1, TaskType DEF Known, Stopped
  <2>3. Dozes(k', k)
    BY <2>1, <2>2, ResumeAllKernel
  <2> QED
    BY <1>2, <2>3, StaysAwake
<1> QED
  BY <1>3, <1>4

\* It goes to sleep: until the first timer of the current list is due, or until the
\* tick count comes round, when that of the overflow list cannot be due yet.
LEMMA SleepsSuspend ==
  ASSUME RunsInv, TimeInv, TimeInv', PromiseInv, InOrder, prvProcessTimerOrBlockTask
  PROVE  Sleeps'
<1> DEFINE s == vTaskSuspendAll(k)
           b == current = <<>> /\ overflow = <<>>
           next == IF current = <<>> THEN 0 ELSE HeadExpiry
           n == k.tick
           d == (next - n) % Ticks
           i == vTaskPlaceOnEventListRestricted(s, TimerQueue, d, b)
<1>1. Known(s) /\ Stopped(s) /\ TimerTask \in ReadyTasks(s)
  <2>1. ~Held /\ Known(k) /\ Free(k) /\ ~k.pendSV /\ k.pxCurrentTCB = TimerTask /\ ~k.failed
    BY DEF prvProcessTimerOrBlockTask, At, Runs, RunsInv, Held
  <2> QED
    BY <2>1, SuspendKnown
<1>2. /\ Now' = Now /\ Now = n /\ s.tick = n /\ k'.tick = n /\ k'.pendedTicks = 0 /\ k'.failed = k.failed
  BY NowSuspended
<1>3. ~k.failed
  BY DEF prvProcessTimerOrBlockTask, At, Runs
<1>4. /\ UNCHANGED <<timer, current, overflow, timerQ>>
      /\ \/ k' = s
         \/ /\ n >= lastTime /\ (current = <<>> \/ next > n) /\ timerQ = <<>> /\ k' = i
            /\ Go("blocked") /\ lastTime' = n
  BY <1>2, Zenon DEF prvProcessTimerOrBlockTask
<1>5. CASE k' = s
  <2>1. ~Asleep'
    BY <1>1, <1>5, TaskType DEF Known, Asleep, Members
  <2> QED
    BY <2>1 DEF Sleeps
<1>6. ASSUME n >= lastTime, current = <<>> \/ next > n, timerQ = <<>>, k' = i, Go("blocked"), lastTime' = n
      PROVE  Sleeps'
  <2> HIDE DEF s, d, b
  <2>1. TimerTask \in Delays(k') /\ k'.wake[TimerTask] = Later(n, IF b THEN MaxDelay ELSE d)
    BY <1>1, <1>2, <1>6, CalmPlace
  <2>2. n \in Span /\ Gap(n, n) = 0
    BY NowType, GapSelf
  <2>3. ASSUME NEW t \in Members(current) \cup Members(overflow)
        PROVE  Nap' <= From(Now', Expiry'[t])
    <3> DEFINE x == Expiry[t]
    <3>1. t \in Timer /\ (current # <<>> \/ overflow # <<>>) /\ Running(t)
      BY DEF TimeInv, Counted, Lists, Members, Running
    <3>2. From(Now', Expiry'[t]) = (IF t \in Members(overflow) THEN x + Ticks ELSE x) - n
      <4>1. PromiseInv'
        BY SuspendPromise
      <4>2. tmr'.at = "blocked"
        BY <1>6 DEF Go, Local
      <4>3. Ref' = n /\ Turn' = 0 /\ Running(t)'
        BY <1>4, <1>6, <3>1, <4>2 DEF Ref, Turn, Switching, Running, Members
      <4>4. From(Now', Expiry'[t]) = Ahead(t)' - Gap(Now', Ref')
        BY <3>1, <4>1, <4>3 DEF PromiseInv, Dues, DueAhead, From, Gap
      <4>5. Expiry' = Expiry
        BY <1>4 DEF Expiry
      <4>6. Ahead(t)' = ((IF t \in Members(overflow) THEN x + Ticks ELSE x) - 0) - n
        BY <1>4, <4>3, <4>5 DEF Ahead, Members
      <4>7. Gap(Now', Ref') = 0
        BY <1>2, <2>2, <4>3
      <4>8. x \in Int /\ n \in Int /\ Ticks \in Int
        <5>1. x \in Span /\ n \in Span
          BY <2>2, <3>1, ExpiryOf
        <5> HIDE DEF x, n
        <5> QED
          BY <5>1, SpanType
      <4> HIDE DEF x, n
      <4> QED
        BY <4>4, <4>6, <4>7, <4>8
    <3>3. x \in Span /\ next \in Span /\ next <= (IF t \in Members(overflow) THEN x + Ticks ELSE x)
      <4>1. x \in Span
        BY <3>1, ExpiryOf
      <4>2. x \in Int /\ 0 <= x /\ Ticks \in Int /\ Ticks > 0 /\ 0 \in Span
        <5> HIDE DEF x
        <5>1. x \in Int /\ 0 <= x
          BY <4>1, SpanMember, Zenon
        <5> QED
          BY <5>1, SpanType
      <4>3. CASE current = <<>>
        <5>1. next = 0 /\ t \in Members(overflow)
          BY <4>3 DEF Members
        <5> HIDE DEF x, next
        <5> QED
          BY <4>1, <4>2, <5>1
      <4>4. CASE current # <<>>
        <5>1. next = HeadExpiry /\ HeadExpiry \in Span
          BY <4>4, HeadTimer DEF TimeInv
        <5>2. HeadExpiry \in Int /\ HeadExpiry < Ticks
          BY <5>1, SpanMember, Zenon
        <5>3. t \in Members(current) => HeadExpiry <= x
          BY <4>4, HeadLeast DEF TimeInv, Counted, Lists, InOrder, HeadExpiry
        <5> HIDE DEF x, next
        <5>4. CASE t \in Members(overflow)
          BY <4>1, <4>2, <5>1, <5>2, <5>4
        <5>5. CASE t \notin Members(overflow)
          BY <4>1, <4>2, <5>1, <5>2, <5>3, <5>5
        <5> QED
          BY <5>4, <5>5
      <4> QED
        BY <4>3, <4>4
    <3>4. Gap(next, n) = d /\ d \in Span /\ ~b
      BY <2>2, <3>1, <3>3, GapValue DEF Gap, d, b
    <3>5. Nap' = d
      <4>1. k'.wake[TimerTask] = Later(n, d)
        BY <2>1, <3>4
      <4>2. Gap(Later(n, d), n) = d
        <5> HIDE DEF n
        <5> QED
          BY <2>2, <3>4, GapOfTick
      <4>3. Nap' = Gap(Later(n, d), n) - 0
        BY <1>2, <4>1 DEF Nap, Gap
      <4>4. d \in Int
        BY <3>4, SpanType
      <4> QED
        BY <4>2, <4>3, <4>4
    <3>6. d <= (IF t \in Members(overflow) THEN x + Ticks ELSE x) - n
      <4>1. d = IF next >= n THEN next - n ELSE (next - n) + Ticks
        <5> HIDE DEF next, n
        <5> QED
          BY <2>2, <3>3, <3>4, GapValue
      <4>2. next >= n \/ (t \in Members(overflow) /\ next = 0)
        <5>1. current = <<>> => next = 0 /\ t \in Members(overflow)
          BY DEF Members
        <5>2. next \in Int /\ n \in Int
          BY <2>2, <3>3, SpanType
        <5> HIDE DEF next, n
        <5> QED
          BY <1>6, <5>1, <5>2
      <4> HIDE DEF x, next, n
      <4>3. /\ x \in Int /\ 0 <= x /\ next \in Int /\ n \in Int /\ Ticks \in Int
        BY <2>2, <3>3, SpanMember, SpanType
      <4>4. CASE t \in Members(overflow)
        <5>1. next <= x + Ticks
          BY <3>3, <4>4
        <5> QED
          BY <4>1, <4>2, <4>3, <4>4, <5>1
      <4>5. CASE t \notin Members(overflow)
        <5>1. next <= x /\ next >= n
          BY <3>3, <4>2, <4>5
        <5> QED
          BY <4>1, <4>3, <4>5, <5>1
      <4> QED
        BY <4>4, <4>5
    <3> QED
      BY <3>2, <3>5, <3>6
  <2>4. \A t \in Members(current') \cup Members(overflow') : Nap' <= From(Now', Expiry'[t])
    BY <1>4, <2>3
  <2>5. ~k'.failed /\ timerQ' = <<>>
    BY <1>2, <1>3, <1>4, <1>6
  <2> QED
    BY <2>1, <2>4, <2>5 DEF Sleeps, Members, Delays, From, Gap
<1> QED
  BY <1>4, <1>5, <1>6

\* It is about to yield: the ticks that came meanwhile are counted.
LEMMA SleepsBlocked ==
  ASSUME RunsInv, TimeInv, PromiseInv, Sleeps, Blocked
  PROVE  Sleeps'
<1> DEFINE i == xTaskResumeAll(k)
           n == k.tick
           d == k.pendedTicks
           w == k.wake[TimerTask]
<1>1. Kern(k) /\ EndMark \notin Task /\ k.suspended = 1 /\ d \in Nat /\ (k.pendSV \/ Level(k)) /\ Timed(k)
  BY TaskType DEF Blocked, At, RunsInv, Held, Known, Stopped, TimeInv
<1>2. n \in Span /\ d \in Span
  <2>1. n \in Span
    BY NowType
  <2>2. d \in Nat /\ d <= MaxLate
    BY DEF PromiseInv, Lag
  <2> HIDE DEF n, d
  <2>3. d \in Span
    BY <2>2, LateType, SpanType DEF Span
  <2> QED
    BY <2>1, <2>3
<1>3. Kern(i) /\ i.tick = Later(n, d) /\ Dozes(i, k) /\ Nears(i, k)
  BY <1>1, <1>2, ResumeAllKernel
<1>4. k' = portYIELD(i) /\ UNCHANGED <<timer, current, overflow, timerQ>>
  BY DEF Blocked, ResumeAndYield, timerVars
<1> HIDE DEF i
<1>5. Now' = Now /\ k'.pendedTicks = 0 /\ k'.failed = k.failed
  BY NowResumed
<1>6. /\ k'.tick = Later(n, d) /\ k'.wake = i.wake /\ k'.waiting = i.waiting
      /\ k'.delayed = i.delayed /\ k'.overflow = i.overflow
  BY <1>3, <1>4 DEF portYIELD, Kern, Fields
<1>7. Delays(k') = Delays(i)
  BY <1>6 DEF Delays
<1>8. Dozes(k', k)
  BY <1>3, <1>6, <1>7 DEF Dozes
<1>9. ASSUME Asleep' PROVE Nap' = Nap
  <2>1. TimerTask \in Members(i.waiting[TimerQueue]) /\ TimerTask \in Members(k.waiting[TimerQueue])
    BY <1>3, <1>6, <1>9, TaskType DEF Asleep, Dozes, Members
  <2>2. TimerTask \in Delays(k)
    BY <2>1 DEF Sleeps, Asleep
  <2>3. Gap(w, n) = Gap(i.wake[TimerTask], i.tick) + Gap(i.tick, n)
    BY <1>3, <2>1, <2>2, TaskType DEF Nears
  <2>4. Gap(i.tick, n) = d
    <3> HIDE DEF n, d
    <3> QED
      BY <1>2, <1>3, GapOfTick
  <2>5. Gap(i.wake[TimerTask], i.tick) \in Int
    <3> DEFINE v == i.wake[TimerTask]
               m == i.tick
    <3>1. Timed(i)
      BY <1>1, <1>2, ResumeAllKernel DEF i
    <3>2. v \in Span /\ m \in Span
      BY <3>1, TaskType DEF Timed, Ordered
    <3> HIDE DEF v, m
    <3>3. Gap(v, m) \in Span
      BY <3>2, GapValue
    <3>4. Gap(v, m) \in Int
      BY <3>3, SpanType
    <3> QED
      BY <3>4 DEF v, m
  <2>6. Nap = Gap(w, n) - d /\ Nap' = Gap(i.wake[TimerTask], i.tick) - 0
    BY <1>3, <1>5, <1>6 DEF Nap, Gap
  <2>7. d \in Int
    BY <1>1
  <2> QED
    BY <2>3, <2>4, <2>5, <2>6, <2>7
<1> QED
  BY <1>4, <1>5, <1>8, <1>9, SleepsOn

\* A tick is counted at once, or when the scheduler is resumed.
LEMMA SleepsTick ==
  ASSUME RunsInv, TimeInv, PromiseInv, Sleeps, SysTick
  PROVE  Sleeps'
<1> DEFINE i == xTaskIncrementTick(k)
           n == k.tick
           d == k.pendedTicks
           w == k.wake[TimerTask]
<1>1. Known(k) /\ Kern(k) /\ Timed(k) /\ d \in Nat /\ n \in Span /\ w \in Span
  <2>1. Known(k) /\ Kern(k) /\ Timed(k) /\ n \in Span
    BY NowType DEF RunsInv, Known, TimeInv
  <2>2. d \in Nat
    BY DEF PromiseInv, Lag
  <2>3. w \in Span
    BY <2>1, TaskType DEF Timed, Ordered
  <2> QED
    BY <2>1, <2>2, <2>3
<1>2. k' = (IF TickRequiresSwitch(k) THEN portYIELD(i) ELSE i) /\ UNCHANGED <<timer, current, overflow, timerQ>> /\ InTime
  BY DEF SysTick, xPortSysTickHandler, timerVars
<1>3. EndMark \notin Task
  BY TaskType
<1>4. Now \in Span /\ Now' = Later(Now, 1) /\ k'.failed = k.failed
  BY NowType, TickNow
<1>5. Dozes(k', k) /\ (Asleep' => Nap' = Nap - 1)
  <2>1. CASE Held
    <3>1. Stopped(k) /\ k.suspended = 1
      BY <2>1 DEF RunsInv, Stopped
    <3>2. i = [k EXCEPT !.pendedTicks = d + 1] /\ ~TickRequiresSwitch(k)
      BY <3>1 DEF xTaskIncrementTick, TickRequiresSwitch
    <3> HIDE DEF i
    <3>3. /\ k'.tick = n /\ k'.pendedTicks = d + 1 /\ k'.wake = k.wake /\ k'.waiting = k.waiting
          /\ k'.delayed = k.delayed /\ k'.overflow = k.overflow
      BY <1>1, <1>2, <3>2 DEF Kern, Fields
    <3>4. Delays(k') = Delays(k)
      BY <3>3 DEF Delays
    <3>5. Dozes(k', k)
      BY <3>3, <3>4, DozesSame
    <3>6. Nap' = Gap(w, n) - (d + 1) /\ Nap = Gap(w, n) - d
      BY <3>3 DEF Nap, Gap
    <3> HIDE DEF n, d, w
    <3>7. Gap(w, n) \in Span
      BY <1>1, GapValue
    <3>8. Gap(w, n) \in Int
      BY <3>7, SpanType
    <3>9. d \in Int
      BY <1>1
    <3> QED
      BY <3>5, <3>6, <3>8, <3>9
  <2>2. CASE ~Held
    <3>1. k.suspended = 0 /\ d = 0
      BY <2>2 DEF RunsInv, Free
    <3>2. i.tick = Later(n, 1) /\ Kern(i) /\ Dozes(i, k) /\ Nears(i, k) /\ Timed(i)
      BY <1>1, <1>3, <3>1, TickKernel, TickTimed DEF Made
    <3>3. i.pendedTicks = d
      BY <1>1, <1>3, <3>1, TickKernel DEF Keeps, Fields, TimeFields, StateLists
    <3> HIDE DEF i
    <3>4. /\ k'.tick = Later(n, 1) /\ k'.pendedTicks = 0 /\ k'.wake = i.wake /\ k'.waiting = i.waiting
          /\ k'.delayed = i.delayed /\ k'.overflow = i.overflow
      BY <1>2, <3>1, <3>2, <3>3 DEF portYIELD, Kern, Fields
    <3>5. Delays(k') = Delays(i)
      BY <3>4 DEF Delays
    <3>6. Dozes(k', k)
      BY <3>2, <3>4, <3>5 DEF Dozes
    <3>7. ASSUME Asleep' PROVE Nap' = Nap - 1
      <4>1. TimerTask \in Members(i.waiting[TimerQueue]) /\ TimerTask \in Members(k.waiting[TimerQueue])
        BY <3>2, <3>4, <3>7, TaskType DEF Asleep, Dozes, Members
      <4>2. TimerTask \in Delays(k)
        BY <4>1 DEF Sleeps, Asleep
      <4> DEFINE v == i.wake[TimerTask]
                 m == i.tick
      <4>3. Gap(w, n) = Gap(v, m) + Gap(m, n)
        BY <3>2, <4>1, <4>2, TaskType DEF Nears
      <4>4. v \in Span /\ m \in Span
        BY <3>2, TaskType DEF Timed, Ordered
      <4>5. Nap = Gap(w, n) - 0 /\ Nap' = Gap(v, m) - 0
        BY <3>1, <3>2, <3>4 DEF Nap, Gap
      <4>6. m = Later(n, 1)
        BY <3>2
      <4> HIDE DEF v, m, w, n
      <4>7. 1 \in Span
        BY SpanType DEF Span
      <4>8. Gap(m, n) = 1 /\ Gap(v, m) \in Span
        BY <1>1, <4>4, <4>6, <4>7, GapOfTick, GapValue
      <4>9. Gap(v, m) \in Int
        BY <4>8, SpanType
      <4> QED
        BY <4>3, <4>5, <4>8, <4>9
    <3> QED
      BY <3>6, <3>7
  <2> QED
    BY <2>1, <2>2
<1>6. ASSUME NEW t \in Members(current) \cup Members(overflow)
      PROVE  From(Now', Expiry[t]) = From(Now, Expiry[t]) - 1 /\ From(Now, Expiry[t]) \in Int
  <2>1. t \in Timer /\ Running(t)
    BY DEF TimeInv, Counted, Lists, Members, Running
  <2>2. Expiry[t] \in Span
    BY <2>1, ExpiryOf
  <2>3. From(Now, Expiry[t]) > 0 - MaxLate
    BY <1>2, <2>1, Early
  <2> QED
    BY <1>4, <2>2, <2>3, FromTick, FromValue
<1>7. Nap \in Int
  <2> HIDE DEF n, d, w
  <2>1. Gap(w, n) \in Span
    BY <1>1, GapValue
  <2>2. Gap(w, n) \in Int
    BY <2>1, SpanType
  <2>3. d \in Int
    BY <1>1
  <2> QED
    BY <2>2, <2>3 DEF Nap, n, d, w
<1>8. ASSUME Asleep', NEW t \in Members(current) \cup Members(overflow), Nap <= From(Now, Expiry[t])
      PROVE  Nap' <= From(Now', Expiry[t])
  <2>1. Nap' = Nap - 1 /\ From(Now', Expiry[t]) = From(Now, Expiry[t]) - 1 /\ From(Now, Expiry[t]) \in Int
    BY <1>5, <1>6, <1>8
  <2> QED
    BY <1>7, <1>8, <2>1
<1> QED
  BY <1>2, <1>4, <1>5, <1>8, SleepsOn

LEMMA SleepsStep ==
  RunsInv /\ TimeInv /\ TimeInv' /\ Promising /\ InOrder /\ Sleeps /\ [Next]_vars => Sleeps'
<1> SUFFICES ASSUME RunsInv, TimeInv, TimeInv', Promising, InOrder, Sleeps, [Next]_vars
             PROVE  Sleeps'
  OBVIOUS
<1>1. CASE UNCHANGED vars
  <2>1. UNCHANGED <<k, timer, current, overflow, timerQ>>
    BY <1>1 DEF vars, timerVars
  <2>2. Calm(k', k)
    BY <2>1 DEF Calm, Dozes
  <2> QED
    BY <2>1, <2>2, SleepsCalm
<1>2. ASSUME Next, k.failed PROVE Sleeps'
  BY <1>2, Zenon DEF Next, prvTimerTask, prvProcessTimerOrBlockTask, Blocked, Resume, ResumeExpired,
     prvProcessExpiredTimer, Callback, Receive, SampleTimeNow, StartTimer, Restart, StopTimer, ChangePeriod,
     SwitchExpired, SwitchReload, Switched, At, Runs, Users, Start, Stop, StartPeriod, StartAfterPeriod, Send,
     WaitForNotify, Awake, IdleYields, UserAt, PendSV, SysTick, BusIsr
<1>3. ASSUME Next, PromiseInv PROVE Sleeps'
  <2>1. CASE prvTimerTask
    <3>1. CASE prvProcessTimerOrBlockTask
      BY <1>3, <3>1, SleepsSuspend
    <3>2. CASE Blocked
      BY <1>3, <3>2, SleepsBlocked
    <3>3. CASE Resume \/ ResumeExpired
      <4>1. Runs(TimerTask) /\ tmr.at # "blocked"
        BY <3>3 DEF Resume, ResumeExpired, At
      <4> QED
        BY <3>3, <4>1, SleepsServe
    <3>4. CASE prvProcessExpiredTimer \/ Callback \/ StartTimer \/ SwitchExpired
      <4>1. Runs(TimerTask) /\ tmr.at # "blocked"
        BY <3>4 DEF prvProcessExpiredTimer, Callback, StartTimer, SwitchExpired, At
      <4>2. (UNCHANGED k) \/ (\E t : Calls(t)) \/ \E m : Resend(m)
        BY <3>4, Zenon DEF prvProcessExpiredTimer, Callback, StartTimer, SwitchExpired
      <4> QED
        BY <4>1, <4>2, SleepsServe
    <3>5. CASE Restart \/ SwitchReload
      <4>1. Runs(TimerTask) /\ tmr.at # "blocked"
        BY <3>5 DEF Restart, SwitchReload, At
      <4>2. \E m : Resend(m)
        BY <3>5, Zenon DEF Restart, SwitchReload
      <4> QED
        BY <4>1, <4>2, SleepsServe
    <3>6. CASE Receive \/ SampleTimeNow \/ StopTimer \/ ChangePeriod \/ Switched
      <4>1. Runs(TimerTask) /\ tmr.at # "blocked" /\ UNCHANGED k
        BY <3>6 DEF Receive, SampleTimeNow, StopTimer, ChangePeriod, Switched, At
      <4> QED
        BY <4>1, SleepsServe
    <3> QED
      BY <2>1, <3>1, <3>2, <3>3, <3>4, <3>5, <3>6 DEF prvTimerTask
  <2>2. CASE Users
    BY <2>2, SleepsUsers
  <2>3. CASE PendSV \/ BusIsr
    BY <2>3, SleepsExceptions
  <2>4. CASE SysTick
    BY <1>3, <2>4, SleepsTick
  <2> QED
    BY <1>3, <2>1, <2>2, <2>3, <2>4 DEF Next
<1> QED
  BY <1>1, <1>2, <1>3 DEF Promising

\* The time that the timer task wakes at, told from the present.
LEMMA FromNap ==
  ASSUME NEW n \in Span, NEW d \in Span, d <= MaxLate, NEW w \in Span
  PROVE  From(Later(n, d), w) <= Gap(w, n) - d
<1> DEFINE x == Later(n, d)
           g == Gap(w, n)
<1>1. x = (IF n + d < Ticks THEN n + d ELSE (n + d) - Ticks) /\ x \in Span
  BY LaterValue, LaterType, SpanType
<1>2. /\ n \in Int /\ 0 <= n /\ n < Ticks /\ d \in Int /\ 0 <= d /\ w \in Int /\ 0 <= w /\ w < Ticks
      /\ x \in Int /\ 0 <= x /\ x < Ticks
  BY <1>1, SpanMember, Zenon
<1>3. g = IF w >= n THEN w - n ELSE (w - n) + Ticks
  BY GapValue
<1> HIDE DEF x, g
<1>4. LET f == From(x, w)
      IN  /\ f \in Int /\ f < Ticks - MaxLate
          /\ w = x + f \/ w = (x + f) - Ticks \/ w = (x + f) + Ticks
  BY <1>1, FromValue
<1> DEFINE f == From(x, w)
<1>5. f \in Int /\ f < Ticks - MaxLate /\ (w = x + f \/ w = (x + f) - Ticks \/ w = (x + f) + Ticks)
  BY <1>4
<1> HIDE DEF f
<1>6. f <= g - d
  BY <1>1, <1>2, <1>3, <1>5, LateType, SpanType
<1> QED
  BY <1>6 DEF x, g, f

\* The timer task sleeps only while it has no command to obey, and never past the
\* time of a timer: whatever a tick, a bus or another task does between its look at
\* the lists and its wait, with the ticks that come while the scheduler is suspended
\* and with the return of the tick count to zero, vTaskPlaceOnEventListRestricted()
\* has let it wait until the first timer is due or the tick count comes round.
THEOREM SleepsUntilDue == Spec => []SleepsNoLonger
<1>1. Init => Promising /\ InOrder /\ Sleeps
  <2> SUFFICES ASSUME Init PROVE Promising /\ InOrder /\ Sleeps
    OBVIOUS
  <2>1. current = <<>> /\ overflow = <<>> /\ k.waiting = [o \in Object |-> <<>>]
    BY DEF Init, InitKernel
  <2>2. ~Asleep /\ InOrder
    BY <2>1, TaskType DEF Asleep, Members, InOrder, Sorted
  <2> QED
    BY <2>2, InitPromise DEF Promising, Sleeps
<1>2. RunsInv /\ TimeInv /\ (RunsInv /\ TimeInv)' /\ Promising /\ InOrder /\ Sleeps /\ [Next]_vars
        => Promising' /\ InOrder' /\ Sleeps'
  BY PromiseStep, OrderStep, SleepsStep
<1>3. RunsInv /\ TimeInv /\ Promising /\ Sleeps => SleepsNoLonger
  <2> SUFFICES ASSUME RunsInv, TimeInv, Promising, Sleeps, Asleep
               PROVE  /\ timerQ = <<>>
                      /\ \A t \in Members(current) \cup Members(overflow) :
                           Left(k.wake[TimerTask]) <= Left(Expiry[t])
    BY DEF SleepsNoLonger, Asleep
  <2>1. timerQ = <<>> /\ ~k.failed
    BY DEF Sleeps
  <2> DEFINE n == k.tick
             d == k.pendedTicks
             w == k.wake[TimerTask]
  <2>2. d \in Nat /\ d <= MaxLate
    BY <2>1 DEF Promising, PromiseInv, Lag
  <2>3. n \in Span /\ w \in Span
    BY TaskType DEF TimeInv, Timed, Ordered
  <2>4. Now = Later(n, d) /\ Nap = Gap(w, n) - d
    BY DEF Now, Nap
  <2> HIDE DEF n, d, w
  <2>5. d \in Span
    BY <2>2, LateType, SpanType DEF Span
  <2>6. From(Now, w) <= Nap
    BY <2>2, <2>3, <2>4, <2>5, FromNap
  <2>7. From(Now, w) \in Int /\ Nap \in Int
    <3>1. Now \in Span
      BY NowType
    <3>2. From(Now, w) \in Int
      BY <2>3, <3>1, FromValue
    <3>3. Gap(w, n) \in Span
      BY <2>3, GapValue
    <3>4. Gap(w, n) \in Int
      BY <3>3, SpanType
    <3>5. d \in Int
      BY <2>2
    <3> QED
      BY <2>4, <3>2, <3>4, <3>5
  <2>8. ASSUME NEW t \in Members(current) \cup Members(overflow)
        PROVE  Left(w) <= Left(Expiry[t])
    <3>1. Nap <= From(Now, Expiry[t])
      BY DEF Sleeps
    <3>2. Expiry[t] \in Span /\ Now \in Span
      BY ExpiryOf, NowType DEF TimeInv, Counted, Lists, Members
    <3>3. From(Now, Expiry[t]) \in Int
      BY <3>2, FromValue
    <3>4. From(Now, w) <= From(Now, Expiry[t])
      BY <2>6, <2>7, <3>1, <3>3
    <3> QED
      BY <3>4, LeftIs
  <2> QED
    BY <2>1, <2>8 DEF w
<1> QED
  BY <1>1, <1>2, <1>3, TimeAlways, PTL DEF Spec
=============================================================================
