------------------------ MODULE EngineDownloadProofs ------------------------
(***************************************************************************)
(* Proofs about EngineDownload, for a list of any length, pages, tables    *)
(* and queues of any size, any number of tries, and any environment: what  *)
(* the indicator tells; that timers run that are needed, although commands *)
(* to the timer task are lost when its queue is full; that no engine is    *)
(* stored twice; and that a database that counts as complete is whole.     *)
(***************************************************************************)
EXTENDS EngineDownload, FiniteSetTheorems, WellFoundedInduction, TLAPS

Command == [timer : Timer, run : BOOLEAN]
SgState == {"IDLE", "REQUESTING"}
EdState == {"IDLE", "REQUESTING_PROTOCOL", "REQUESTING", "DOWNLOADING"}

\* What the proofs need to know of the types.
TimersTyped ==
  /\ timerQ \in Seq(Command) /\ Len(timerQ) <= QueueLength
  /\ pc = "setup" => timerQ = <<>>
  /\ active \subseteq Timer
  /\ typed \in Nat
  /\ pc \in {"setup", "blocked", "can", "stopgo", "complete", "download"}
  /\ sg \in [state : SgState, tries : Nat, expired : BOOLEAN]
  /\ ed \in [state : EdState, tries : Nat, expired : BOOLEAN]
  /\ download \in BOOLEAN

-----------------------------------------------------------------------------
(***************************************************************************)
(* The command queue.                                                      *)
(***************************************************************************)
\* A full queue keeps a prefix of what is put into it.
LEMMA FitsPrefix ==
  ASSUME NEW q \in Seq(Command)
  PROVE  /\ Fits(q) \in Seq(Command)
         /\ Len(Fits(q)) <= QueueLength
         /\ Len(Fits(q)) = IF Len(q) < QueueLength THEN Len(q) ELSE QueueLength
         /\ \A i \in 1..Len(Fits(q)) : Fits(q)[i] = q[i]
<1> DEFINE n == IF Len(q) < QueueLength THEN Len(q) ELSE QueueLength
<1>1. n \in Nat /\ n <= Len(q) /\ n <= QueueLength
  BY BoundAssumption
<1>2. Fits(q) = SubSeq(q, 1, n)
  BY DEF Fits
<1>3. Len(SubSeq(q, 1, n)) = n
  BY <1>1
<1>4. \A i \in 1..n : SubSeq(q, 1, n)[i] = q[i]
  BY <1>1
<1>5. SubSeq(q, 1, n) \in Seq(Command)
  BY <1>1, <1>4
<1> QED
  BY <1>1, <1>2, <1>3, <1>4, <1>5

\* What is in the queue stays, and what fits is appended.
LEMMA PostAppends ==
  ASSUME TimersTyped, NEW c \in Seq(Command), Post(c)
  PROVE  /\ timerQ' \in Seq(Command) /\ Len(timerQ') <= QueueLength
         /\ Len(timerQ) <= Len(timerQ')
         /\ \A i \in 1..Len(timerQ) : timerQ'[i] = timerQ[i]
         /\ \A i \in (Len(timerQ) + 1)..Len(timerQ') :
              i - Len(timerQ) \in 1..Len(c) /\ timerQ'[i] = c[i - Len(timerQ)]
<1> DEFINE q == timerQ \o c
<1>1. timerQ \in Seq(Command) /\ Len(timerQ) \in Nat /\ Len(timerQ) <= QueueLength
  BY DEF TimersTyped
<1>2. q \in Seq(Command) /\ Len(q) = Len(timerQ) + Len(c) /\ Len(c) \in Nat
  BY <1>1
<1>3. /\ \A i \in 1..Len(timerQ) : q[i] = timerQ[i]
      /\ \A i \in (Len(timerQ) + 1)..Len(q) : q[i] = c[i - Len(timerQ)]
  BY <1>1, <1>2
<1>4. timerQ' = Fits(q)
  BY DEF Post
<1> HIDE DEF q
<1>5. /\ timerQ' \in Seq(Command) /\ Len(timerQ') <= QueueLength
      /\ Len(timerQ') = IF Len(q) < QueueLength THEN Len(q) ELSE QueueLength
      /\ \A i \in 1..Len(timerQ') : timerQ'[i] = q[i]
  BY <1>2, <1>4, FitsPrefix
<1>6. Len(timerQ) <= Len(timerQ') /\ Len(timerQ') <= Len(q) /\ Len(timerQ') \in Nat
  BY <1>1, <1>2, <1>5, BoundAssumption
<1>7. \A i \in 1..Len(timerQ) : timerQ'[i] = timerQ[i]
  BY <1>1, <1>3, <1>5, <1>6
<1>8. \A i \in (Len(timerQ) + 1)..Len(timerQ') :
        i - Len(timerQ) \in 1..Len(c) /\ timerQ'[i] = c[i - Len(timerQ)]
  <2> SUFFICES ASSUME NEW i \in (Len(timerQ) + 1)..Len(timerQ')
               PROVE  i - Len(timerQ) \in 1..Len(c) /\ timerQ'[i] = c[i - Len(timerQ)]
    OBVIOUS
  <2>1. i \in 1..Len(timerQ') /\ i \in (Len(timerQ) + 1)..Len(q)
    BY <1>1, <1>2, <1>6
  <2> QED
    BY <1>1, <1>2, <1>3, <1>5, <2>1
<1> QED
  BY <1>5, <1>6, <1>7, <1>8

\* A timer that will run goes on unless it is told to stop.  (Three commands
\* are the most that a step of a task sends.)
LEMMA PostKeeps ==
  ASSUME TimersTyped, NEW c \in Seq(Command), Post(c), UNCHANGED active,
         Len(c) <= 3, NEW t \in Timer, WillRun(t),
         \A i \in 1..Len(c) : c[i].timer = t => c[i].run
  PROVE  WillRun(t)'
<1>1. /\ timerQ \in Seq(Command) /\ timerQ' \in Seq(Command)
      /\ Len(timerQ) \in Nat /\ Len(timerQ') \in Nat /\ Len(timerQ) <= Len(timerQ')
      /\ \A i \in 1..Len(timerQ) : timerQ'[i] = timerQ[i]
  BY PostAppends DEF TimersTyped
<1> DEFINE New == {i \in (Len(timerQ) + 1)..Len(timerQ') : timerQ'[i].timer = t}
<1>2. \A i \in New : timerQ'[i] = [timer |-> t, run |-> TRUE]
  <2> SUFFICES ASSUME NEW i \in New PROVE timerQ'[i] = [timer |-> t, run |-> TRUE]
    OBVIOUS
  <2>1. i - Len(timerQ) \in 1..Len(c) /\ timerQ'[i] = c[i - Len(timerQ)]
    BY PostAppends
  <2>2. c[i - Len(timerQ)] \in Command /\ c[i - Len(timerQ)].timer = t /\ c[i - Len(timerQ)].run
    BY <2>1
  <2>3. timerQ'[i] \in Command /\ timerQ'[i].timer = t /\ timerQ'[i].run = TRUE
    BY <2>1, <2>2 DEF Command
  <2> QED
    BY <2>3 DEF Command
<1>3. CASE New = {}
  <2>1. \A i \in (Len(timerQ) + 1)..Len(timerQ') : timerQ'[i].timer # t
    BY <1>3
  <2>2. CASE t \in active /\ \A i \in DOMAIN timerQ : timerQ[i].timer # t
    <3>1. \A i \in DOMAIN timerQ' : timerQ'[i].timer # t
      BY <1>1, <2>1, <2>2
    <3> QED
      BY <2>2, <3>1 DEF WillRun
  <2>3. CASE \E i \in DOMAIN timerQ :
               /\ timerQ[i] = [timer |-> t, run |-> TRUE]
               /\ \A j \in (i + 1)..Len(timerQ) : timerQ[j].timer # t
    <3>1. PICK i \in DOMAIN timerQ :
               /\ timerQ[i] = [timer |-> t, run |-> TRUE]
               /\ \A j \in (i + 1)..Len(timerQ) : timerQ[j].timer # t
      BY <2>3
    <3>2. i \in DOMAIN timerQ' /\ timerQ'[i] = [timer |-> t, run |-> TRUE]
      <4>1. i \in 1..Len(timerQ) /\ i \in 1..Len(timerQ') /\ DOMAIN timerQ' = 1..Len(timerQ')
        BY <1>1
      <4> QED
        BY <1>1, <3>1, <4>1
    <3>3. \A j \in (i + 1)..Len(timerQ') : timerQ'[j].timer # t
      BY <1>1, <2>1, <3>1
    <3> QED
      BY <3>2, <3>3 DEF WillRun
  <2> QED
    BY <2>2, <2>3 DEF WillRun
<1>4. CASE New # {}
  <2>1. PICK i \in New : \A j \in New : j <= i
    <3>1. Len(timerQ') <= Len(timerQ) + 3
      <4>1. Len(c) \in Nat
        OBVIOUS
      <4>2. CASE Len(timerQ') = Len(timerQ)
        BY <1>1, <4>2
      <4>3. CASE Len(timerQ') # Len(timerQ)
        <5>1. Len(timerQ') \in (Len(timerQ) + 1)..Len(timerQ')
          BY <1>1, <4>3
        <5>2. Len(timerQ') - Len(timerQ) \in 1..Len(c)
          BY <5>1, PostAppends
        <5> QED
          BY <1>1, <4>1, <5>2
      <4> QED
        BY <4>2, <4>3
    <3>2. CASE Len(timerQ') \in New
      BY <1>1, <3>2
    <3>3. CASE Len(timerQ') \notin New /\ Len(timerQ') - 1 \in New
      BY <1>1, <3>3
    <3>4. CASE Len(timerQ') \notin New /\ Len(timerQ') - 1 \notin New
      <4>1. Len(timerQ') - 2 \in New /\ \A j \in New : j <= Len(timerQ') - 2
        BY <1>1, <1>4, <3>1, <3>4
      <4> QED
        BY <4>1
    <3> QED
      BY <3>2, <3>3, <3>4
  <2>2. \A j \in (i + 1)..Len(timerQ') : timerQ'[j].timer # t
    BY <1>1, <2>1
  <2> QED
    BY <1>1, <1>2, <2>1, <2>2 DEF WillRun
<1> QED
  BY <1>3, <1>4

\* A command that the timer task obeys does not change what will run.
LEMMA ObeyKeeps ==
  ASSUME TimersTyped, TimerCommand, NEW t \in Timer, WillRun(t)
  PROVE  WillRun(t)'
<1>1. /\ timerQ \in Seq(Command) /\ timerQ # <<>> /\ timerQ' = Tail(timerQ)
      /\ active' = IF Head(timerQ).run THEN active \cup {Head(timerQ).timer}
                                      ELSE active \ {Head(timerQ).timer}
  BY DEF TimersTyped, TimerCommand
<1>2. /\ timerQ[1] \in Command /\ Head(timerQ) = timerQ[1]
      /\ Len(timerQ) \in Nat /\ Len(timerQ) >= 1
      /\ Len(timerQ') = Len(timerQ) - 1
      /\ \A i \in 1..Len(timerQ') : timerQ'[i] = timerQ[i + 1]
  BY <1>1
<1>3. CASE t \in active /\ \A i \in DOMAIN timerQ : timerQ[i].timer # t
  <2>1. t \in active'
    BY <1>1, <1>2, <1>3
  <2>2. \A i \in DOMAIN timerQ' : timerQ'[i].timer # t
    BY <1>1, <1>2, <1>3
  <2> QED
    BY <2>1, <2>2 DEF WillRun
<1>4. CASE \E i \in DOMAIN timerQ :
             /\ timerQ[i] = [timer |-> t, run |-> TRUE]
             /\ \A j \in (i + 1)..Len(timerQ) : timerQ[j].timer # t
  <2>1. PICK i \in DOMAIN timerQ :
             /\ timerQ[i] = [timer |-> t, run |-> TRUE]
             /\ \A j \in (i + 1)..Len(timerQ) : timerQ[j].timer # t
    BY <1>4
  <2>2. CASE i = 1
    <3>1. t \in active'
      BY <1>1, <1>2, <2>1, <2>2
    <3>2. \A j \in DOMAIN timerQ' : timerQ'[j].timer # t
      BY <1>1, <1>2, <2>1, <2>2
    <3> QED
      BY <3>1, <3>2 DEF WillRun
  <2>3. CASE i # 1
    <3>1. i - 1 \in DOMAIN timerQ' /\ timerQ'[i - 1] = [timer |-> t, run |-> TRUE]
      <4>1. timerQ' \in Seq(Command) /\ DOMAIN timerQ' = 1..Len(timerQ')
        BY <1>1
      <4>2. i \in 1..Len(timerQ) /\ i - 1 \in 1..Len(timerQ') /\ (i - 1) + 1 = i
        BY <1>1, <1>2, <2>1, <2>3
      <4> QED
        BY <1>2, <2>1, <4>1, <4>2
    <3>2. \A j \in ((i - 1) + 1)..Len(timerQ') : timerQ'[j].timer # t
      BY <1>1, <1>2, <2>1, <2>3
    <3> QED
      BY <3>1, <3>2 DEF WillRun
  <2> QED
    BY <2>2, <2>3
<1> QED
  BY <1>3, <1>4 DEF WillRun

-----------------------------------------------------------------------------
(***************************************************************************)
(* What the indicator tells.                                               *)
(***************************************************************************)
\* A state machine that is not idle has the indicator on, except between the
\* frame that completes the database and notifyEngineDBComplete() in the same
\* turn of the loop: no other stream is read in between.
IndicatorInv ==
  /\ ed.state # "IDLE" =>
       \/ download
       \/ pc \in {"can", "stopgo", "complete"} /\ dbState = "COMPLETE" /\ ~expecting
  /\ download /\ typed = 0 => ed.state # "IDLE"

\* The timers that are needed.
Needs ==
  {t \in Timer :
     \/ t = "CanDb" /\ ed.state \in {"REQUESTING_PROTOCOL", "REQUESTING"}
     \/ t = "StopGo" /\ sg.state = "REQUESTING"
     \/ t = "Status" /\ download
     \/ t = "StartStop" /\ startStop = "UNKNOWN"}

\* What setup() sends has to fit into the queue.
Armed == QueueLength >= 7 /\ pc # "setup" => \A t \in Needs : WillRun(t)

LEMMA ArmedIsArmed == QueueLength >= 7 => (Armed <=> ArmedWhenNeeded)
BY DEF Armed, ArmedWhenNeeded, Needs, Timer

IInv == TimersTyped /\ IndicatorInv /\ Armed

\* Commands that stop no timer but those of T.
Spares(c, T) ==
  /\ c \in Seq(Command) /\ Len(c) <= 3
  /\ \A i \in 1..Len(c) : c[i].run \/ c[i].timer \in T

\* A step that sends commands, and stops no timer that is still needed.
LEMMA PostArmed ==
  ASSUME IInv, pc # "setup", NEW c, NEW T, Spares(c, T), Post(c), UNCHANGED active,
         Needs' \subseteq Needs, \A t \in T : t \notin Needs'
  PROVE  Armed'
<1> SUFFICES ASSUME QueueLength >= 7, NEW t \in Needs' PROVE WillRun(t)'
  BY DEF Armed
<1>1. t \in Timer /\ WillRun(t) /\ TimersTyped
  BY DEF IInv, Armed, Needs
<1>2. c \in Seq(Command) /\ Len(c) <= 3 /\ \A i \in 1..Len(c) : c[i].timer = t => c[i].run
  BY DEF Spares
<1> QED
  BY <1>1, <1>2, PostKeeps

LEMMA StillArmed ==
  ASSUME IInv, pc # "setup", UNCHANGED <<timerQ, active>>, Needs' \subseteq Needs
  PROVE  Armed'
BY DEF IInv, Armed, WillRun

\* The sequences of commands that the tasks send.
On(t)  == [timer |-> t, run |-> TRUE]
Off(t) == [timer |-> t, run |-> FALSE]

LEMMA CommandTypes == \A t \in Timer : On(t) \in Command /\ Off(t) \in Command
BY DEF On, Off, Command

\* What concatenation does, one command at a time.
LEMMA Snoc ==
  ASSUME NEW s \in Seq(Command), NEW q \in Command
  PROVE  /\ s \o <<q>> \in Seq(Command)
         /\ Len(s \o <<q>>) = Len(s) + 1
         /\ \A i \in 1..Len(s) : (s \o <<q>>)[i] = s[i]
         /\ (s \o <<q>>)[Len(s) + 1] = q
OBVIOUS

LEMMA Singleton ==
  ASSUME NEW q \in Command
  PROVE  <<q>> \in Seq(Command) /\ Len(<<q>>) = 1 /\ <<q>>[1] = q
OBVIOUS

LEMMA Pair ==
  ASSUME NEW p \in Command, NEW q \in Command
  PROVE  /\ <<p>> \o <<q>> \in Seq(Command) /\ Len(<<p>> \o <<q>>) = 2
         /\ (<<p>> \o <<q>>)[1] = p /\ (<<p>> \o <<q>>)[2] = q
OBVIOUS

LEMMA PairAppended ==
  ASSUME NEW s \in Seq(Command), NEW p \in Command, NEW q \in Command
  PROVE  s \o (<<p>> \o <<q>>) = (s \o <<p>>) \o <<q>>
OBVIOUS

LEMMA StartCommands ==
  ASSUME NEW t \in Timer
  PROVE  /\ Start(t) = <<On(t)>> /\ Stop(t) = <<Off(t)>>
         /\ StartPeriod(t) = <<On(t)>> \o <<On(t)>>
BY DEF Start, Stop, StartPeriod, On, Off

-----------------------------------------------------------------------------
(***************************************************************************)
(* The steps.                                                              *)
(***************************************************************************)
LEMMA ArmedInit == Init => IInv
<1> SUFFICES ASSUME Init PROVE IInv
  OBVIOUS
<1>1. timerQ = <<>>
  BY DEF Init
<1>2. timerQ \in Seq(Command) /\ Len(timerQ) = 0
  BY <1>1
<1>3. TimersTyped
  <2>1. Len(timerQ) <= QueueLength
    BY <1>2, BoundAssumption
  <2>2. /\ sg \in [state : SgState, tries : Nat, expired : BOOLEAN]
        /\ ed \in [state : EdState, tries : Nat, expired : BOOLEAN]
    BY DEF Init, SgState, EdState
  <2>3. active = {} /\ typed = 0 /\ pc = "setup" /\ download = FALSE
    BY DEF Init
  <2> QED
    BY <1>1, <1>2, <2>1, <2>2, <2>3 DEF TimersTyped
<1>4. IndicatorInv /\ Armed
  BY DEF Init, IndicatorInv, Armed
<1> QED
  BY <1>3, <1>4 DEF IInv

\* The seven commands of setup(): the last one of each timer starts it.
LEMMA SetupCommands ==
  /\ setupCommands \in Seq(Command) /\ Len(setupCommands) = 7
  /\ \A t \in Timer : \E i \in 1..7 :
       /\ setupCommands[i] = On(t)
       /\ \A j \in (i + 1)..7 : setupCommands[j].timer # t
<1> DEFINE s1 == <<Off("Status")>>
           s2 == s1 \o <<On("StartStop")>>
           s3 == s2 \o <<On("StartStop")>>
           s4 == s3 \o <<On("StopGo")>>
           s5 == s4 \o <<On("Status")>>
           s6 == s5 \o <<On("Status")>>
           s7 == s6 \o <<On("CanDb")>>
<1>1. /\ \A t \in Timer : t \in {"Status", "StartStop", "StopGo", "CanDb"}
      /\ {"Status", "StartStop", "StopGo", "CanDb"} \subseteq Timer
  BY DEF Timer
<1>2. /\ Off("Status") \in Command /\ On("Status") \in Command /\ On("StartStop") \in Command
      /\ On("StopGo") \in Command /\ On("CanDb") \in Command
  BY <1>1, CommandTypes
<1>a. setupCommands = s7
  <2>1. s1 \in Seq(Command) /\ s4 \in Seq(Command)
    BY <1>2, Singleton, Snoc
  <2>2. s1 \o (<<On("StartStop")>> \o <<On("StartStop")>>) = s3
    BY <1>2, <2>1, PairAppended
  <2>3. s4 \o (<<On("Status")>> \o <<On("Status")>>) = s6
    BY <1>2, <2>1, PairAppended
  <2>4. /\ Stop("Status") = s1 /\ Start("StopGo") = <<On("StopGo")>>
        /\ Start("CanDb") = <<On("CanDb")>>
        /\ StartPeriod("StartStop") = <<On("StartStop")>> \o <<On("StartStop")>>
        /\ StartPeriod("Status") = <<On("Status")>> \o <<On("Status")>>
    BY <1>1, StartCommands
  <2> QED
    BY <2>2, <2>3, <2>4, Zenon DEF setupCommands, StatusCommands
<1>b. s1 \in Seq(Command) /\ Len(s1) = 1
  BY <1>2, Singleton
<1> HIDE DEF s1
<1>c. s2 \in Seq(Command) /\ Len(s2) = 2
  <2>1. /\ s2 \in Seq(Command) /\ Len(s2) = Len(s1) + 1
        /\ \A i \in 1..Len(s1) : s2[i] = s1[i]
        /\ s2[Len(s1) + 1] = On("StartStop")
    BY <1>2, <1>b, Snoc
  <2> QED
    BY <1>b, <2>1
<1> HIDE DEF s2
<1>d. s3 \in Seq(Command) /\ Len(s3) = 3
      /\ s3[3] = On("StartStop")
  <2>1. /\ s3 \in Seq(Command) /\ Len(s3) = Len(s2) + 1
        /\ \A i \in 1..Len(s2) : s3[i] = s2[i]
        /\ s3[Len(s2) + 1] = On("StartStop")
    BY <1>2, <1>c, Snoc
  <2> QED
    BY <1>c, <2>1
<1> HIDE DEF s3
<1>e. s4 \in Seq(Command) /\ Len(s4) = 4
      /\ s4[3] = On("StartStop") /\ s4[4] = On("StopGo")
  <2>1. /\ s4 \in Seq(Command) /\ Len(s4) = Len(s3) + 1
        /\ \A i \in 1..Len(s3) : s4[i] = s3[i]
        /\ s4[Len(s3) + 1] = On("StopGo")
    BY <1>2, <1>d, Snoc
  <2> QED
    BY <1>d, <2>1
<1> HIDE DEF s4
<1>f. s5 \in Seq(Command) /\ Len(s5) = 5
      /\ s5[3] = On("StartStop") /\ s5[4] = On("StopGo") /\ s5[5] = On("Status")
  <2>1. /\ s5 \in Seq(Command) /\ Len(s5) = Len(s4) + 1
        /\ \A i \in 1..Len(s4) : s5[i] = s4[i]
        /\ s5[Len(s4) + 1] = On("Status")
    BY <1>2, <1>e, Snoc
  <2> QED
    BY <1>e, <2>1
<1> HIDE DEF s5
<1>g. s6 \in Seq(Command) /\ Len(s6) = 6
      /\ s6[3] = On("StartStop") /\ s6[4] = On("StopGo") /\ s6[5] = On("Status") /\ s6[6] = On("Status")
  <2>1. /\ s6 \in Seq(Command) /\ Len(s6) = Len(s5) + 1
        /\ \A i \in 1..Len(s5) : s6[i] = s5[i]
        /\ s6[Len(s5) + 1] = On("Status")
    BY <1>2, <1>f, Snoc
  <2> QED
    BY <1>f, <2>1
<1> HIDE DEF s6
<1>h. s7 \in Seq(Command) /\ Len(s7) = 7
      /\ s7[3] = On("StartStop") /\ s7[4] = On("StopGo") /\ s7[5] = On("Status") /\ s7[6] = On("Status") /\ s7[7] = On("CanDb")
  <2>1. /\ s7 \in Seq(Command) /\ Len(s7) = Len(s6) + 1
        /\ \A i \in 1..Len(s6) : s7[i] = s6[i]
        /\ s7[Len(s6) + 1] = On("CanDb")
    BY <1>2, <1>g, Snoc
  <2> QED
    BY <1>g, <2>1
<1> HIDE DEF s7
<1>i. /\ s7[3].timer = "StartStop" /\ s7[4].timer = "StopGo" /\ s7[5].timer = "Status"
      /\ s7[6].timer = "Status" /\ s7[7].timer = "CanDb"
  BY <1>h DEF On
<1>j. \A t \in Timer : \E i \in 1..7 : s7[i] = On(t) /\ \A j \in (i + 1)..7 : s7[j].timer # t
  <2> SUFFICES ASSUME NEW t \in Timer
               PROVE  \E i \in 1..7 : s7[i] = On(t) /\ \A j \in (i + 1)..7 : s7[j].timer # t
    OBVIOUS
  <2>1. CASE t = "StartStop"
    <3>1. s7[3] = On(t) /\ \A j \in (3 + 1)..7 : s7[j].timer # t
      BY <1>h, <1>i, <2>1
    <3> QED
      BY <3>1
  <2>2. CASE t = "StopGo"
    <3>1. s7[4] = On(t) /\ \A j \in (4 + 1)..7 : s7[j].timer # t
      BY <1>h, <1>i, <2>2
    <3> QED
      BY <3>1
  <2>3. CASE t = "Status"
    <3>1. s7[6] = On(t) /\ \A j \in (6 + 1)..7 : s7[j].timer # t
      BY <1>h, <1>i, <2>3
    <3> QED
      BY <3>1
  <2>4. CASE t = "CanDb"
    <3>1. s7[7] = On(t) /\ \A j \in (7 + 1)..7 : s7[j].timer # t
      BY <1>h, <1>i, <2>4
    <3> QED
      BY <3>1
  <2> QED
    BY <1>1, <2>1, <2>2, <2>3, <2>4
<1> QED
  BY <1>a, <1>h, <1>j

\* They fit into the queue.
LEMMA ArmedSetup ==
  ASSUME IInv, setup
  PROVE  IInv'
<1> DEFINE c == setupCommands
<1>1. c \in Seq(Command) /\ Len(c) = 7
  BY SetupCommands
<1>2. timerQ' = Fits(c)
  <2>1. timerQ = <<>> /\ timerQ' = Fits(timerQ \o c)
    BY DEF setup, Post, IInv, TimersTyped
  <2>2. timerQ \o c = c
    BY <1>1, <2>1
  <2> QED
    BY <2>1, <2>2
<1>3. /\ timerQ' \in Seq(Command) /\ Len(timerQ') <= QueueLength
      /\ QueueLength >= 7 => Len(timerQ') = 7 /\ \A i \in 1..7 : timerQ'[i] = c[i]
  <2> HIDE DEF c
  <2>1. /\ Fits(c) \in Seq(Command)
        /\ Len(Fits(c)) = IF Len(c) < QueueLength THEN Len(c) ELSE QueueLength
        /\ \A i \in 1..Len(Fits(c)) : Fits(c)[i] = c[i]
    BY <1>1, FitsPrefix
  <2>2. Len(Fits(c)) <= QueueLength /\ (QueueLength >= 7 => Len(Fits(c)) = 7)
    BY <1>1, <2>1, BoundAssumption
  <2> QED
    BY <1>2, <2>1, <2>2
<1>4. TimersTyped'
  BY <1>3, BoundAssumption DEF setup, IInv, TimersTyped, SgState, EdState, conVars
<1>5. IndicatorInv'
  BY DEF setup, IndicatorInv
<1>6. QueueLength >= 7 => \A t \in Timer : WillRun(t)'
  <2> SUFFICES ASSUME QueueLength >= 7, NEW t \in Timer PROVE WillRun(t)'
    OBVIOUS
  <2>1. PICK i \in 1..7 : c[i] = On(t) /\ \A j \in (i + 1)..7 : c[j].timer # t
    BY SetupCommands
  <2>2. i \in DOMAIN timerQ' /\ timerQ'[i] = [timer |-> t, run |-> TRUE]
    BY <1>3, <2>1 DEF On
  <2>3. Len(timerQ') = 7 /\ \A j \in 1..7 : timerQ'[j] = c[j]
    BY <1>3
  <2>4. \A j \in (i + 1)..Len(timerQ') : timerQ'[j].timer # t
    BY <2>1, <2>3
  <2> QED
    BY <2>2, <2>4 DEF WillRun
<1> QED
  BY <1>4, <1>5, <1>6 DEF IInv, Armed, Needs

\* What the steps of the loop send.
LEMMA Sends ==
  /\ \A t \in Timer : Spares(Stop(t), {t})
  /\ \A t, u \in Timer : Spares(Stop(t) \o Stop(u), {t, u})
  /\ Spares(StatusCommands(FALSE), {"Status"})
  /\ Spares(StatusCommands(TRUE), {})
  /\ Spares(StatusCommands(TRUE) \o Start("CanDb"), {})
<1>1. \A t \in Timer : Spares(Stop(t), {t})
  <2> SUFFICES ASSUME NEW t \in Timer PROVE Spares(Stop(t), {t})
    OBVIOUS
  <2> DEFINE c == <<Off(t)>>
  <2>1. c \in Seq(Command) /\ Len(c) = 1 /\ c[1] = Off(t) /\ Off(t).timer = t
    BY CommandTypes, Singleton DEF Off
  <2> HIDE DEF c
  <2>2. Spares(c, {t})
    BY <2>1 DEF Spares
  <2> QED
    BY <2>2, StartCommands DEF c
<1>2. \A t, u \in Timer : Spares(Stop(t) \o Stop(u), {t, u})
  <2> SUFFICES ASSUME NEW t \in Timer, NEW u \in Timer PROVE Spares(Stop(t) \o Stop(u), {t, u})
    OBVIOUS
  <2> DEFINE c == <<Off(t)>> \o <<Off(u)>>
  <2>1. c \in Seq(Command) /\ Len(c) = 2 /\ c[1] = Off(t) /\ c[2] = Off(u)
    BY CommandTypes, Pair
  <2>2. Off(t).timer = t /\ Off(u).timer = u
    BY DEF Off
  <2> HIDE DEF c
  <2>3. Spares(c, {t, u})
    BY <2>1, <2>2 DEF Spares
  <2> QED
    BY <2>3, StartCommands DEF c
<1>3. "Status" \in Timer /\ "CanDb" \in Timer
  BY DEF Timer
<1>4. Spares(StatusCommands(FALSE), {"Status"})
  BY <1>1, <1>3 DEF StatusCommands
<1> DEFINE p == <<On("Status")>> \o <<On("Status")>>
           q == p \o <<On("CanDb")>>
<1>5. p \in Seq(Command) /\ Len(p) = 2 /\ p[1] = On("Status") /\ p[2] = On("Status")
  BY <1>3, CommandTypes, Pair
<1>6. StatusCommands(TRUE) = p /\ StatusCommands(TRUE) \o Start("CanDb") = q
  BY <1>3, StartCommands DEF StatusCommands
<1>7. On("Status").run /\ On("CanDb").run
  BY DEF On
<1> HIDE DEF p
<1>8. /\ q \in Seq(Command) /\ Len(q) = Len(p) + 1
      /\ \A i \in 1..Len(p) : q[i] = p[i]
      /\ q[Len(p) + 1] = On("CanDb")
  BY <1>3, <1>5, CommandTypes, Snoc
<1> HIDE DEF q
<1>9. Spares(p, {})
  BY <1>5, <1>7 DEF Spares
<1>10. Spares(q, {})
  <2>1. Len(q) = 3 /\ \A i \in 1..3 : q[i].run
    BY <1>5, <1>7, <1>8
  <2>2. q \in Seq(Command)
    BY <1>8
  <2>3. Len(q) <= 3
    BY <2>1
  <2> QED
    BY <2>1, <2>2, <2>3 DEF Spares
<1> QED
  BY <1>1, <1>2, <1>4, <1>6, <1>9, <1>10

\* The queue keeps its type, whatever is sent.
LEMMA PostType ==
  ASSUME TimersTyped, NEW c, NEW T, Spares(c, T), Post(c)
  PROVE  timerQ' \in Seq(Command) /\ Len(timerQ') <= QueueLength
BY PostAppends DEF Spares

\* A frame of a stream that completes the database switches the indicator off.
LEMMA StreamOutcome ==
  ASSUME NEW a, streamComplete(a)
  PROVE  \/ dbState' = "DOWNLOADING" /\ UNCHANGED <<download, timerQ>>
         \/ /\ dbState' = "COMPLETE" /\ expecting' = FALSE /\ download' = FALSE
            /\ Post(StatusCommands(FALSE))
<1>1. ASSUME NEW d, fetchNextEngine(d)
      PROVE  \/ dbState' = "DOWNLOADING" /\ UNCHANGED <<download, timerQ>>
             \/ /\ dbState' = "COMPLETE" /\ expecting' = FALSE /\ download' = FALSE
                /\ Post(StatusCommands(FALSE))
  BY <1>1, Zenon DEF fetchNextEngine
<1>2. CASE ListComplete(a)
  BY <1>1, <1>2, Zenon DEF ListComplete, fetchEnginesFromOffset
<1>3. CASE ListeComplete(a)
  BY <1>1, <1>3, Zenon DEF ListeComplete
<1>4. CASE LocoComplete(a)
  BY <1>1, <1>4, Zenon DEF LocoComplete
<1> QED
  BY <1>2, <1>3, <1>4, Zenon DEF streamComplete

LEMMA StatusStep ==
  ASSUME IInv, HandleFrame, StatusReceived
  PROVE  IInv'
<1> DEFINE c == Stop("StartStop") \o (IF sg.state # "IDLE" THEN Stop("StopGo") ELSE <<>>)
<1>1. /\ pc = "can" /\ UNCHANGED <<pc, active, typed, download, ed, dbState, expecting>>
      /\ startStop' = "KNOWN" /\ sg' = [sg EXCEPT !.state = "IDLE"] /\ Post(c)
  BY DEF HandleFrame, StatusReceived, conVars, dbVars, rrVars
<1>2. Spares(c, {"StartStop", "StopGo"})
  <2>1. "StartStop" \in Timer /\ "StopGo" \in Timer
    BY DEF Timer
  <2>2. CASE sg.state # "IDLE"
    <3>1. Spares(Stop("StartStop") \o Stop("StopGo"), {"StartStop", "StopGo"})
      BY <2>1, Sends
    <3> QED
      BY <2>2, <3>1
  <2>3. CASE sg.state = "IDLE"
    <3>1. c = Stop("StartStop") \o <<>>
      BY <2>3
    <3>2. Stop("StartStop") \in Seq(Command) /\ Spares(Stop("StartStop"), {"StartStop"})
      BY <2>1, Sends DEF Spares
    <3>3. c = Stop("StartStop")
      BY <3>1, <3>2
    <3> QED
      BY <3>2, <3>3 DEF Spares
  <2> QED
    BY <2>2, <2>3
<1> HIDE DEF c
<1>3. sg' \in [state : SgState, tries : Nat, expired : BOOLEAN] /\ sg'.state = "IDLE"
  BY <1>1 DEF IInv, TimersTyped, SgState
<1>4. TimersTyped'
  BY <1>1, <1>2, <1>3, PostType DEF IInv, TimersTyped
<1>5. IndicatorInv'
  BY <1>1 DEF IInv, IndicatorInv
<1>6. Armed'
  <2>1. Needs' \subseteq Needs /\ \A t \in {"StartStop", "StopGo"} : t \notin Needs'
    BY <1>1, <1>3 DEF Needs
  <2> QED
    BY <1>1, <1>2, <2>1, PostArmed
<1> QED
  BY <1>4, <1>5, <1>6 DEF IInv

LEMMA FrameStep ==
  ASSUME IInv, HandleFrame
  PROVE  IInv'
<1>1. pc = "can" /\ UNCHANGED <<pc, active, typed>>
  BY DEF HandleFrame, conVars
<1>2. CASE StatusReceived
  BY <1>2, StatusStep
<1>3. CASE PingReceived
  <2>1. UNCHANGED <<sg, ed, dbState, expecting, download, startStop, timerQ>>
    BY <1>3 DEF PingReceived, rrVars, ledVars
  <2> QED
    BY <1>1, <2>1, StillArmed DEF IInv, TimersTyped, IndicatorInv, Needs
<1>4. CASE StreamStarts
  <2>1. /\ UNCHANGED <<sg, dbState, expecting, download, startStop, timerQ>>
        /\ ed' = [ed EXCEPT !.state = IF @ = "IDLE" THEN @ ELSE "DOWNLOADING"]
    BY <1>4 DEF StreamStarts, ledVars
  <2>2. /\ ed' \in [state : EdState, tries : Nat, expired : BOOLEAN]
        /\ ed'.state = IF ed.state = "IDLE" THEN "IDLE" ELSE "DOWNLOADING"
    BY <2>1 DEF IInv, TimersTyped, EdState
  <2>3. TimersTyped'
    BY <1>1, <2>1, <2>2 DEF IInv, TimersTyped
  <2>4. IndicatorInv'
    BY <1>1, <2>1, <2>2 DEF IInv, IndicatorInv
  <2>5. Needs' \subseteq Needs
    BY <2>1, <2>2 DEF Needs
  <2> QED
    BY <1>1, <2>1, <2>3, <2>4, <2>5, StillArmed DEF IInv
<1>5. CASE StreamEnds
  <2>1. UNCHANGED <<sg, ed, startStop>>
    BY <1>5 DEF StreamEnds
  <2>2. CASE UNCHANGED <<dbState, expecting, download, timerQ>>
    BY <1>1, <2>1, <2>2, StillArmed DEF IInv, TimersTyped, IndicatorInv, Needs
  <2>3. CASE expecting /\ streamComplete(Head(canRx).of)
    <3>1. CASE dbState' = "DOWNLOADING" /\ UNCHANGED <<download, timerQ>>
      <4>1. IndicatorInv'
        BY <1>1, <2>1, <2>3, <3>1 DEF IInv, IndicatorInv
      <4> QED
        BY <1>1, <2>1, <3>1, <4>1, StillArmed DEF IInv, TimersTyped, Needs
    <3>2. CASE /\ dbState' = "COMPLETE" /\ expecting' = FALSE /\ download' = FALSE
               /\ Post(StatusCommands(FALSE))
      <4>1. TimersTyped'
        BY <1>1, <2>1, <3>2, Sends, PostType DEF IInv, TimersTyped
      <4>2. IndicatorInv'
        BY <1>1, <2>1, <3>2 DEF IInv, IndicatorInv
      <4>3. Needs' \subseteq Needs /\ "Status" \notin Needs'
        BY <2>1, <3>2 DEF Needs
      <4> DEFINE c == StatusCommands(FALSE)
      <4>4. Spares(c, {"Status"}) /\ Post(c)
        BY <3>2, Sends
      <4> HIDE DEF c
      <4>5. \A t \in {"Status"} : t \notin Needs'
        BY <4>3
      <4>6. Armed'
        BY <1>1, <4>3, <4>4, <4>5, PostArmed
      <4> QED
        BY <4>1, <4>2, <4>6 DEF IInv
    <3> QED
      BY <2>3, <3>1, <3>2, StreamOutcome
  <2> QED
    BY <1>5, <2>2, <2>3 DEF StreamEnds, rrVars
<1> QED
  BY <1>2, <1>3, <1>4, <1>5 DEF HandleFrame

\* A step of the loop that changes neither the state machines' states nor the
\* indicators, and sends nothing.
LEMMA QuietStep ==
  ASSUME IInv, pc # "setup", TimersTyped', IndicatorInv',
         UNCHANGED <<timerQ, active>>, Needs' \subseteq Needs
  PROVE  IInv'
BY StillArmed DEF IInv

LEMMA WakeStep ==
  ASSUME IInv, Wake
  PROVE  IInv'
<1>1. /\ pc = "blocked" /\ pc' = "can"
      /\ UNCHANGED <<sg, ed, dbState, expecting, download, startStop, active, timerQ, typed>>
  BY DEF Wake, dbVars, rrVars, ledVars, tmVars, conVars
<1>2. TimersTyped' /\ IndicatorInv' /\ Needs' \subseteq Needs
  BY <1>1 DEF IInv, TimersTyped, IndicatorInv, Needs
<1> QED
  BY <1>1, <1>2, QuietStep

LEMMA CanDoneStep ==
  ASSUME IInv, CanDone
  PROVE  IInv'
<1>1. /\ pc = "can" /\ pc' = "stopgo"
      /\ UNCHANGED <<sg, ed, dbState, expecting, download, startStop, active, timerQ, typed>>
  BY DEF CanDone, dbVars, rrVars, ledVars, tmVars, conVars
<1>2. TimersTyped' /\ IndicatorInv' /\ Needs' \subseteq Needs
  BY <1>1 DEF IInv, TimersTyped, IndicatorInv, Needs
<1> QED
  BY <1>1, <1>2, QuietStep

\* A further try changes no state.
LEMMA Tried ==
  ASSUME NEW S, NEW m \in [state : S, tries : Nat, expired : BOOLEAN]
  PROVE  /\ [m EXCEPT !.tries = @ + 1, !.expired = FALSE] \in [state : S, tries : Nat, expired : BOOLEAN]
         /\ [m EXCEPT !.tries = @ + 1, !.expired = FALSE].state = m.state
<1> DEFINE n == m.tries + 1
<1>1. n \in Nat
  OBVIOUS
<1> HIDE DEF n
<1>2. /\ [m EXCEPT !.tries = n, !.expired = FALSE] \in [state : S, tries : Nat, expired : BOOLEAN]
      /\ [m EXCEPT !.tries = n, !.expired = FALSE].state = m.state
  BY <1>1
<1> QED
  BY <1>2 DEF n

LEMMA ArmedStopGoLoop ==
  ASSUME IInv, StopGoLoop
  PROVE  IInv'
<1>1. /\ pc = "stopgo" /\ pc' = "complete"
      /\ UNCHANGED <<ed, dbState, expecting, download, startStop, active, typed>>
  BY DEF StopGoLoop, dbVars, rrVars, ledVars, conVars
<1>2. IndicatorInv'
  BY <1>1 DEF IInv, IndicatorInv
<1>3. sg \in [state : SgState, tries : Nat, expired : BOOLEAN]
  BY DEF IInv, TimersTyped
<1>4. CASE UNCHANGED timerQ /\ sg' = [sg EXCEPT !.tries = @ + 1, !.expired = FALSE]
  <2>1. sg' \in [state : SgState, tries : Nat, expired : BOOLEAN] /\ sg'.state = sg.state
    BY <1>3, <1>4, Tried
  <2>2. TimersTyped' /\ Needs' \subseteq Needs
    BY <1>1, <1>4, <2>1 DEF IInv, TimersTyped, Needs
  <2> QED
    BY <1>1, <1>2, <1>4, <2>2, QuietStep
<1>5. CASE UNCHANGED timerQ /\ sg' = [sg EXCEPT !.expired = FALSE]
  <2>1. sg' \in [state : SgState, tries : Nat, expired : BOOLEAN] /\ sg'.state = sg.state
    BY <1>3, <1>5
  <2>2. TimersTyped' /\ Needs' \subseteq Needs
    BY <1>1, <1>5, <2>1 DEF IInv, TimersTyped, Needs
  <2> QED
    BY <1>1, <1>2, <1>5, <2>2, QuietStep
<1>6. CASE Post(Stop("StopGo")) /\ sg' = [sg EXCEPT !.state = "IDLE", !.expired = FALSE]
  <2>1. sg' \in [state : SgState, tries : Nat, expired : BOOLEAN] /\ sg'.state = "IDLE"
    BY <1>3, <1>6 DEF SgState
  <2>2. Spares(Stop("StopGo"), {"StopGo"})
    BY Sends DEF Timer
  <2>3. TimersTyped'
    BY <1>1, <1>6, <2>1, <2>2, PostType DEF IInv, TimersTyped
  <2>4. Needs' \subseteq Needs /\ \A t \in {"StopGo"} : t \notin Needs'
    BY <1>1, <2>1 DEF Needs
  <2>5. Armed'
    BY <1>1, <1>6, <2>2, <2>4, PostArmed
  <2> QED
    BY <1>2, <2>3, <2>5 DEF IInv
<1> QED
  BY <1>4, <1>5, <1>6 DEF StopGoLoop

\* The state machine becomes idle, its timer stops and the indicator is told.
LEMMA BecomesIdle ==
  ASSUME IInv, pc # "setup", pc' \in {"blocked", "download"},
         ed' \in [state : {"IDLE"}, tries : Nat, expired : BOOLEAN],
         Post(Stop("CanDb") \o StatusCommands(FALSE)), download' = FALSE,
         UNCHANGED <<sg, startStop, active, typed>>
  PROVE  IInv'
<1> DEFINE c == Stop("CanDb") \o StatusCommands(FALSE)
<1>1. Spares(c, {"CanDb", "Status"}) /\ Post(c)
  <2>1. StatusCommands(FALSE) = Stop("Status")
    BY DEF StatusCommands
  <2>2. "CanDb" \in Timer /\ "Status" \in Timer
    BY DEF Timer
  <2> QED
    BY <2>1, <2>2, Sends
<1> HIDE DEF c
<1>2. ed'.state = "IDLE" /\ ed' \in [state : EdState, tries : Nat, expired : BOOLEAN]
  BY DEF EdState
<1>3. TimersTyped'
  BY <1>1, <1>2, PostType DEF IInv, TimersTyped
<1>4. IndicatorInv'
  BY <1>2 DEF IndicatorInv
<1>5. Needs' \subseteq Needs /\ \A t \in {"CanDb", "Status"} : t \notin Needs'
  BY <1>2 DEF Needs
<1>6. Armed'
  BY <1>1, <1>5, PostArmed
<1> QED
  BY <1>3, <1>4, <1>6 DEF IInv

LEMMA NotifyCompleteStep ==
  ASSUME IInv, NotifyComplete
  PROVE  IInv'
<1>1. /\ pc = "complete" /\ pc' = "download"
      /\ UNCHANGED <<sg, dbState, expecting, startStop, active, typed>>
  BY DEF NotifyComplete, dbVars, rrVars, conVars
<1>2. ed \in [state : EdState, tries : Nat, expired : BOOLEAN]
  BY DEF IInv, TimersTyped
<1>3. CASE /\ ed' = [ed EXCEPT !.state = "IDLE"] /\ download' = FALSE
           /\ Post(Stop("CanDb") \o StatusCommands(FALSE))
  <2>1. ed' \in [state : {"IDLE"}, tries : Nat, expired : BOOLEAN]
    BY <1>2, <1>3
  <2> QED
    BY <1>1, <1>3, <2>1, BecomesIdle
<1>4. CASE ~(dbState = "COMPLETE" /\ ed.state # "IDLE") /\ UNCHANGED <<ed, download, timerQ>>
  <2>1. TimersTyped' /\ IndicatorInv' /\ Needs' \subseteq Needs
    BY <1>1, <1>4 DEF IInv, TimersTyped, IndicatorInv, Needs
  <2> QED
    BY <1>1, <1>4, <2>1, QuietStep
<1> QED
  BY <1>3, <1>4 DEF NotifyComplete

\* The first request of the database: the indicator is on already.
LEMMA ProtocolKnown ==
  ASSUME IInv, pc = "download", pc' = "blocked", ed.state = "REQUESTING_PROTOCOL",
         ed' = [state |-> "REQUESTING", tries |-> 0, expired |-> FALSE],
         download' = TRUE, Post(StatusCommands(TRUE) \o Start("CanDb")),
         UNCHANGED <<sg, startStop, active, typed>>
  PROVE  IInv'
<1> DEFINE c == StatusCommands(TRUE) \o Start("CanDb")
<1>1. Spares(c, {}) /\ Post(c)
  BY Sends
<1> HIDE DEF c
<1>2. ed'.state = "REQUESTING" /\ ed' \in [state : EdState, tries : Nat, expired : BOOLEAN]
  BY DEF EdState
<1>3. TimersTyped'
  BY <1>1, <1>2, PostType DEF IInv, TimersTyped
<1>4. IndicatorInv'
  BY <1>2 DEF IndicatorInv
<1>5. download
  BY DEF IInv, IndicatorInv
<1>6. Needs' \subseteq Needs /\ \A t \in {} : t \notin Needs'
  BY <1>2, <1>5 DEF Needs
<1>7. Armed'
  BY <1>1, <1>6, PostArmed
<1> QED
  BY <1>3, <1>4, <1>7 DEF IInv

\* The states in which the loop leaves the state machine as it is.
LEMMA DownloadGoesOn ==
  ASSUME IInv, pc = "download", pc' = "blocked",
         ed' \in [state : EdState, tries : Nat, expired : BOOLEAN], ed'.state = ed.state,
         UNCHANGED <<sg, startStop, active, typed, download, timerQ>>
  PROVE  IInv'
<1>1. TimersTyped' /\ IndicatorInv' /\ Needs' \subseteq Needs
  BY DEF IInv, TimersTyped, IndicatorInv, Needs
<1> QED
  BY <1>1, QuietStep

LEMMA ArmedDownloadLoop ==
  ASSUME IInv, DownloadLoop
  PROVE  IInv'
<1>1. /\ pc = "download" /\ pc' = "blocked"
      /\ UNCHANGED <<sg, startStop, active, typed>>
  BY DEF DownloadLoop, conVars
<1>2. ed \in [state : EdState, tries : Nat, expired : BOOLEAN]
  BY DEF IInv, TimersTyped
<1>3. CASE /\ ed' = [ed EXCEPT !.state = "IDLE", !.expired = FALSE] /\ download' = FALSE
           /\ Post(Stop("CanDb") \o StatusCommands(FALSE))
  <2>1. ed' \in [state : {"IDLE"}, tries : Nat, expired : BOOLEAN]
    BY <1>2, <1>3
  <2> QED
    BY <1>1, <1>3, <2>1, BecomesIdle
<1>4. CASE UNCHANGED <<download, timerQ>> /\ ed' = [ed EXCEPT !.tries = @ + 1, !.expired = FALSE]
  <2>1. ed' \in [state : EdState, tries : Nat, expired : BOOLEAN] /\ ed'.state = ed.state
    BY <1>2, <1>4, Tried
  <2> QED
    BY <1>1, <1>4, <2>1, DownloadGoesOn
<1>5. CASE UNCHANGED <<download, timerQ>> /\ ed' = [ed EXCEPT !.expired = FALSE]
  <2>1. ed' \in [state : EdState, tries : Nat, expired : BOOLEAN] /\ ed'.state = ed.state
    BY <1>2, <1>5
  <2> QED
    BY <1>1, <1>5, <2>1, DownloadGoesOn
<1>6. CASE LoopProtocol
  BY <1>1, <1>3, <1>4, <1>6, ProtocolKnown, Zenon DEF LoopProtocol, stopRequesting
<1>7. CASE LoopRequest
  BY <1>3, <1>4, <1>7, Zenon DEF LoopRequest, stopRequesting
<1> QED
  BY <1>5, <1>6, <1>7, Zenon DEF DownloadLoop

-----------------------------------------------------------------------------
LEMMA TimerCommandStep ==
  ASSUME IInv, TimerCommand
  PROVE  IInv'
<1>1. /\ pc = "blocked" /\ timerQ # <<>> /\ timerQ' = Tail(timerQ)
      /\ active' = IF Head(timerQ).run THEN active \cup {Head(timerQ).timer}
                                      ELSE active \ {Head(timerQ).timer}
      /\ UNCHANGED <<pc, sg, ed, dbState, expecting, download, startStop, typed>>
  BY DEF TimerCommand, Waits, dbVars, rrVars, ledVars, conVars
<1>2. /\ timerQ' \in Seq(Command) /\ Len(timerQ') <= QueueLength
      /\ Head(timerQ).timer \in Timer
  <2>1. timerQ \in Seq(Command) /\ Len(timerQ) <= QueueLength /\ QueueLength \in Nat
    BY BoundAssumption DEF IInv, TimersTyped
  <2>2. Head(timerQ) \in Command /\ Tail(timerQ) \in Seq(Command) /\ Len(Tail(timerQ)) <= Len(timerQ)
    BY <1>1, <2>1
  <2>3. Len(Tail(timerQ)) \in Nat /\ Len(timerQ) \in Nat
    BY <2>1, <2>2
  <2>4. Len(Tail(timerQ)) <= QueueLength
    BY <2>1, <2>2, <2>3
  <2> QED
    BY <1>1, <2>2, <2>4 DEF Command
<1>3. TimersTyped'
  BY <1>1, <1>2 DEF IInv, TimersTyped
<1>4. IndicatorInv' /\ Needs' \subseteq Needs
  BY <1>1 DEF IInv, IndicatorInv, Needs
<1>5. Armed'
  <2> SUFFICES ASSUME QueueLength >= 7, NEW t \in Needs' PROVE WillRun(t)'
    BY DEF Armed
  <2>1. t \in Timer /\ WillRun(t) /\ TimersTyped
    BY <1>1, <1>4 DEF IInv, Armed, Needs
  <2> QED
    BY <2>1, ObeyKeeps
<1> QED
  BY <1>3, <1>4, <1>5 DEF IInv

LEMMA ExpiresStep ==
  ASSUME IInv, StopGoExpires \/ CanDbExpires
  PROVE  IInv'
<1>1. /\ pc = "blocked"
      /\ UNCHANGED <<pc, dbState, expecting, download, startStop, active, timerQ, typed>>
      /\ \/ UNCHANGED ed /\ sg' = [sg EXCEPT !.expired = TRUE]
         \/ UNCHANGED sg /\ ed' = [ed EXCEPT !.expired = TRUE]
  BY DEF StopGoExpires, CanDbExpires, Waits, dbVars, rrVars, ledVars, tmVars, conVars
<1>2. /\ sg' \in [state : SgState, tries : Nat, expired : BOOLEAN] /\ sg'.state = sg.state
      /\ ed' \in [state : EdState, tries : Nat, expired : BOOLEAN] /\ ed'.state = ed.state
  BY <1>1 DEF IInv, TimersTyped
<1>3. TimersTyped' /\ IndicatorInv' /\ Needs' \subseteq Needs
  BY <1>1, <1>2 DEF IInv, TimersTyped, IndicatorInv, Needs
<1> QED
  BY <1>1, <1>3, QuietStep

\* A command at the console switches the indicator on: its queue is empty then.
LEMMA TypeDownloadStep ==
  ASSUME IInv, TypeDownload
  PROVE  IInv'
<1>1. /\ pc = "blocked" /\ timerQ = <<>> /\ download' = TRUE
      /\ Post(StatusCommands(TRUE)) /\ typed' = typed + 1
      /\ UNCHANGED <<pc, sg, ed, dbState, expecting, startStop, active>>
  BY DEF TypeDownload, ConsoleRuns, Waits, dbVars, rrVars
<1>2. Spares(StatusCommands(TRUE), {})
  BY Sends
<1>3. TimersTyped'
  <2>1. timerQ' \in Seq(Command) /\ Len(timerQ') <= QueueLength
    BY <1>1, <1>2, PostType DEF IInv
  <2>2. typed' \in Nat
    BY <1>1 DEF IInv, TimersTyped
  <2> QED
    BY <1>1, <2>1, <2>2 DEF IInv, TimersTyped
<1>4. IndicatorInv'
  BY <1>1 DEF IInv, TimersTyped, IndicatorInv
<1> DEFINE c == StatusCommands(TRUE)
<1>5. c \in Seq(Command) /\ Len(c) = 2 /\ c[1] = On("Status") /\ c[2] = On("Status")
  <2>1. "Status" \in Timer
    BY DEF Timer
  <2> DEFINE p == <<On("Status")>> \o <<On("Status")>>
  <2>2. c = p
    BY <2>1, StartCommands DEF StatusCommands
  <2>3. p \in Seq(Command) /\ Len(p) = 2 /\ p[1] = On("Status") /\ p[2] = On("Status")
    BY <2>1, CommandTypes, Pair
  <2> HIDE DEF p, c
  <2> QED
    BY <2>2, <2>3
<1>6. timerQ' = Fits(c)
  <2> HIDE DEF c
  <2>1. timerQ \o c = c
    BY <1>1, <1>5
  <2>2. timerQ' = Fits(timerQ \o c)
    BY <1>1 DEF Post, c
  <2> QED
    BY <2>1, <2>2
<1> HIDE DEF c
<1>7. ASSUME QueueLength >= 7
      PROVE  timerQ' \in Seq(Command) /\ Len(timerQ') = 2 /\ \A i \in 1..2 : timerQ'[i] = c[i]
  <2>1. /\ Fits(c) \in Seq(Command)
        /\ Len(Fits(c)) = IF Len(c) < QueueLength THEN Len(c) ELSE QueueLength
        /\ \A i \in 1..Len(Fits(c)) : Fits(c)[i] = c[i]
    BY <1>5, FitsPrefix
  <2>2. Len(Fits(c)) = 2
    BY <1>5, <1>7, <2>1, BoundAssumption
  <2> QED
    BY <1>6, <2>1, <2>2
<1>8. ASSUME QueueLength >= 7 PROVE WillRun("Status")'
  <2>1. 2 \in DOMAIN timerQ' /\ timerQ'[2] = [timer |-> "Status", run |-> TRUE]
    BY <1>5, <1>7, <1>8 DEF On
  <2>2. Len(timerQ') = 2
    BY <1>7, <1>8
  <2>3. \A j \in (2 + 1)..Len(timerQ') : timerQ'[j].timer # "Status"
    BY <2>2
  <2> QED
    BY <2>1, <2>3 DEF WillRun
<1>9. ASSUME QueueLength >= 7 PROVE \A t \in Timer \ {"Status"} : WillRun(t) => WillRun(t)'
  <2> SUFFICES ASSUME NEW t \in Timer, t # "Status", WillRun(t) PROVE WillRun(t)'
    OBVIOUS
  <2>1. t \in active'
    BY <1>1 DEF WillRun
  <2>2. \A i \in DOMAIN timerQ' : timerQ'[i].timer # t
    <3>1. \A i \in 1..2 : timerQ'[i].timer = "Status"
      BY <1>5, <1>7, <1>9 DEF On
    <3> QED
      BY <1>7, <1>9, <3>1
  <2> QED
    BY <2>1, <2>2 DEF WillRun
<1>10. Armed'
  <2> SUFFICES ASSUME QueueLength >= 7, NEW t \in Needs' PROVE WillRun(t)'
    BY DEF Armed
  <2>1. CASE t = "Status"
    BY <1>8, <2>1
  <2>2. CASE t # "Status"
    <3>1. t \in Needs /\ t \in Timer
      BY <1>1, <2>2 DEF Needs
    <3>2. WillRun(t)
      BY <1>1, <3>1 DEF IInv, Armed
    <3> QED
      BY <1>9, <2>2, <3>1, <3>2
  <2> QED
    BY <2>1, <2>2
<1> QED
  BY <1>3, <1>4, <1>10 DEF IInv

\* The other steps of the ConsoleTask and those of the CAN touch neither the state
\* machines nor the indicators, and never run between the last frame of the
\* database and notifyEngineDBComplete() to ask for another stream.
LEMMA OtherStep ==
  ASSUME IInv,
         \/ ConsoleClear \/ ConsoleParser \/ ConsoleRequest
         \/ \E p \in {"UNKNOWN", "LOKNAMEN", "LOKLISTE"} : TypeProtocol(p)
         \/ Can
         \/ UNCHANGED vars
  PROVE  IInv'
<1>1. UNCHANGED <<pc, sg, ed, download, startStop, active, timerQ>>
  BY DEF ConsoleClear, ConsoleParser, ConsoleRequest, TypeProtocol, Can, Answer, AnswerRest,
         PowerSwitched, vars, ledVars, tmVars
<1>2. \/ pc = "blocked"
      \/ UNCHANGED <<dbState, expecting>>
  BY DEF ConsoleClear, ConsoleParser, ConsoleRequest, TypeProtocol, Can, Answer, AnswerRest,
         PowerSwitched, vars, dbVars, rrVars, ConsoleRuns, Waits
<1>3. typed' = typed \/ typed' = typed + 1
  BY DEF ConsoleClear, ConsoleParser, ConsoleRequest, TypeProtocol, Can, Answer, AnswerRest,
         PowerSwitched, vars, conVars
<1>4. TimersTyped' /\ IndicatorInv'
  BY <1>1, <1>2, <1>3 DEF IInv, TimersTyped, IndicatorInv
<1>5. Needs' = Needs
  BY <1>1 DEF Needs
<1>6. Armed'
  BY <1>1, <1>5 DEF IInv, Armed, WillRun
<1> QED
  BY <1>4, <1>6 DEF IInv

LEMMA ArmedStep ==
  ASSUME IInv, [Next]_vars
  PROVE  IInv'
<1>1. CASE setup
  BY <1>1, ArmedSetup
<1>2. CASE RoutingTask
  BY <1>2, WakeStep, FrameStep, CanDoneStep, ArmedStopGoLoop, NotifyCompleteStep, ArmedDownloadLoop,
     Zenon DEF RoutingTask
<1>3. CASE TimerCommand \/ StopGoExpires \/ CanDbExpires
  BY <1>3, TimerCommandStep, ExpiresStep, Zenon
<1>4. CASE ConsoleTask \/ Can \/ UNCHANGED vars
  BY <1>4, TypeDownloadStep, OtherStep, Zenon DEF ConsoleTask
<1> QED
  BY <1>1, <1>2, <1>3, <1>4, Zenon DEF Next

-----------------------------------------------------------------------------
(***************************************************************************)
(* The theorems about the timers and the indicator.                        *)
(***************************************************************************)
\* With a queue that takes the commands of setup(), a timer that a state machine
\* or an indicator needs runs or will run, although nothing waits for a place in
\* the queue (the Start() and Stop() of CanEngineDBStateMachine,
\* StopGoStateMachine and the indicators).
THEOREM TimersArmed == ASSUME QueueLength >= 7 PROVE Spec => []ArmedWhenNeeded
<1>1. Init => IInv
  BY ArmedInit
<1>2. IInv /\ [Next]_vars => IInv'
  BY ArmedStep
<1>3. IInv => ArmedWhenNeeded
  BY ArmedIsArmed DEF IInv
<1> QED
  BY <1>1, <1>2, <1>3, PTL DEF Spec

\* Whenever the RoutingTask waits, the status indicator tells of a download if the
\* state machine is about one (setCanDbDownload() and clearCanDbDownload()).
THEOREM IndicatorTold == Spec => []IndicatorTells
<1>1. Init => IInv
  BY ArmedInit
<1>2. IInv /\ [Next]_vars => IInv'
  BY ArmedStep
<1>3. IInv => IndicatorTells
  BY DEF IInv, IndicatorInv, IndicatorTells, Waits
<1> QED
  BY <1>1, <1>2, <1>3, PTL DEF Spec

-----------------------------------------------------------------------------
(***************************************************************************)
(* The engine database.                                                    *)
(***************************************************************************)
DbKind   == {"list", "lokliste", "loco"}
Req      == [kind : {"ping", "status"} \cup DbKind, at : Nat]
Entry    == [name : Engine \cup {None}, full : Nat]
EdRecord == [state : {"IDLE", "REQUESTING_PROTOCOL", "REQUESTING", "DOWNLOADING"},
             tries : Nat, expired : BOOLEAN]
CanFrame == [kind : {"go"}] \cup [kind : {"ping"}, protocol : {"LOKNAMEN", "LOKLISTE"}]
              \cup [kind : {"first", "rest"}, of : Req]

\* What the proofs need to know of the types.
TypeInv ==
  /\ pc \in {"setup", "blocked", "can", "stopgo", "complete", "download"}
  /\ notified \in BOOLEAN
  /\ ed \in EdRecord
  /\ db \in [Index -> Entry]
  /\ consumer \in [kind : DbKind \cup {"none"}, at : Nat]
  /\ typed \in Nat
  /\ requests \in Seq(Req)
  /\ sending \in Req \cup {NoStream}
  /\ canRx \in Seq(CanFrame)
  /\ env \in Environments

-----------------------------------------------------------------------------
(***************************************************************************)
(* What is still to be answered.  The frames rx, the requests q and the    *)
(* stream s stand for canRx, requests and sending.                         *)
(***************************************************************************)
Rests(rx) == {i \in DOMAIN rx : rx[i].kind = "rest"}
Unanswered(rx, q, s) == {rx[i].of : i \in Rests(rx)} \cup {q[i] : i \in DOMAIN q} \cup {s}
Pending == Unanswered(canRx, requests, sending)

\* Two requests for a page of the list do not ask for the same engines, unless
\* both are for the first page.
Apart(p, r) ==
  p.kind = "list" /\ r.kind = "list" =>
    \/ p.at = 0 /\ r.at = 0
    \/ p.at + Page <= r.at
    \/ r.at + Page <= p.at

AllApart(rx, q, s) ==
  /\ \A i, j \in DOMAIN q : i # j => Apart(q[i], q[j])
  /\ \A i, j \in Rests(rx) : i # j => Apart(rx[i].of, rx[j].of)
  /\ \A i \in DOMAIN q, j \in Rests(rx) : Apart(q[i], rx[j].of)
  /\ \A i \in DOMAIN q : Apart(q[i], s)
  /\ \A j \in Rests(rx) : Apart(rx[j].of, s)

LEMMA ApartSymmetric ==
  ASSUME NEW p \in Req \cup {NoStream}, NEW r \in Req \cup {NoStream}
  PROVE  Apart(p, r) <=> Apart(r, p)
BY SizeAssumption DEF Apart, Req, NoStream

LEMMA FrameTypes ==
  ASSUME NEW f \in CanFrame
  PROVE  /\ f.kind \in {"first", "rest"} => f.of \in Req
         /\ f.kind \in {"go", "ping", "first", "rest"}
         /\ f.kind = "ping" => f.protocol \in {"LOKNAMEN", "LOKLISTE"}
BY DEF CanFrame

LEMMA PendingType == TypeInv => Pending \subseteq Req \cup {NoStream}
<1> SUFFICES ASSUME TypeInv PROVE Pending \subseteq Req \cup {NoStream}
  OBVIOUS
<1>1. ASSUME NEW i \in Rests(canRx) PROVE canRx[i].of \in Req
  <2>1. canRx[i] \in CanFrame /\ canRx[i].kind = "rest"
    BY DEF TypeInv, Rests
  <2> QED
    BY <2>1, FrameTypes
<1>2. \A i \in DOMAIN requests : requests[i] \in Req
  BY DEF TypeInv
<1> QED
  BY <1>1, <1>2 DEF Pending, Unanswered, TypeInv

\* The oldest frame is handled.
LEMMA HeadHandled ==
  ASSUME NEW rx \in Seq(CanFrame), rx # <<>>, NEW q \in Seq(Req), NEW s \in Req \cup {NoStream}
  PROVE  /\ Unanswered(Tail(rx), q, s) \subseteq Unanswered(rx, q, s)
         /\ AllApart(rx, q, s) => AllApart(Tail(rx), q, s)
         /\ Head(rx).kind = "rest" =>
              /\ Head(rx).of \in Unanswered(rx, q, s)
              /\ AllApart(rx, q, s) =>
                   \A p \in Unanswered(Tail(rx), q, s) : Apart(Head(rx).of, p)
<1> DEFINE t == Tail(rx)
<1>1. /\ Len(t) = Len(rx) - 1 /\ Len(rx) \in Nat /\ Len(rx) > 0
      /\ DOMAIN t = 1..(Len(rx) - 1) /\ DOMAIN rx = 1..Len(rx)
      /\ \A i \in DOMAIN t : t[i] = rx[i + 1]
      /\ Head(rx) = rx[1]
  OBVIOUS
<1> HIDE DEF t
<1>2. \A i \in Rests(t) : i + 1 \in Rests(rx) /\ t[i] = rx[i + 1] /\ i + 1 # 1 /\ i \in Nat
  <2> SUFFICES ASSUME NEW i \in Rests(t)
               PROVE  i + 1 \in Rests(rx) /\ t[i] = rx[i + 1] /\ i + 1 # 1 /\ i \in Nat
    OBVIOUS
  <2>1. i \in DOMAIN t /\ t[i].kind = "rest"
    BY DEF Rests
  <2>2. i \in 1..(Len(rx) - 1) /\ t[i] = rx[i + 1] /\ i + 1 \in 1..Len(rx)
    BY <1>1, <2>1
  <2> QED
    BY <1>1, <2>1, <2>2 DEF Rests
<1>3. Head(rx).kind = "rest" => 1 \in Rests(rx)
  BY <1>1 DEF Rests
<1>4. Unanswered(t, q, s) \subseteq Unanswered(rx, q, s)
  <2>1. {t[i].of : i \in Rests(t)} \subseteq {rx[i].of : i \in Rests(rx)}
    BY <1>2
  <2> QED
    BY <2>1 DEF Unanswered
<1>5. ASSUME AllApart(rx, q, s) PROVE AllApart(t, q, s)
  <2>1. \A i, j \in Rests(t) : i # j => Apart(t[i].of, t[j].of)
    BY <1>2, <1>5 DEF AllApart
  <2>2. \A i \in DOMAIN q, j \in Rests(t) : Apart(q[i], t[j].of)
    BY <1>2, <1>5 DEF AllApart
  <2>3. \A j \in Rests(t) : Apart(t[j].of, s)
    BY <1>2, <1>5 DEF AllApart
  <2> QED
    BY <1>5, <2>1, <2>2, <2>3 DEF AllApart
<1>6. ASSUME Head(rx).kind = "rest" PROVE Head(rx).of \in Unanswered(rx, q, s)
  BY <1>1, <1>3, <1>6 DEF Unanswered
<1>7. ASSUME Head(rx).kind = "rest", AllApart(rx, q, s), NEW p \in Unanswered(t, q, s)
      PROVE  Apart(Head(rx).of, p)
  <2>1. CASE \E i \in Rests(t) : p = t[i].of
    BY <1>1, <1>2, <1>3, <1>7, <2>1 DEF AllApart
  <2>2. CASE \E i \in DOMAIN q : p = q[i]
    <3>1. PICK i \in DOMAIN q : p = q[i]
      BY <2>2
    <3>2. Apart(p, Head(rx).of)
      BY <1>1, <1>3, <1>7, <3>1 DEF AllApart
    <3>3. Head(rx) \in CanFrame /\ p \in Req
      BY <1>1, <3>1
    <3> QED
      BY <1>7, <3>2, <3>3, ApartSymmetric, FrameTypes
  <2>3. CASE p = s
    BY <1>1, <1>3, <1>7, <2>3 DEF AllApart
  <2> QED
    BY <1>7, <2>1, <2>2, <2>3 DEF Unanswered
<1> QED
  BY <1>4, <1>5, <1>6, <1>7 DEF t

\* Another request is sent.
LEMMA RequestSent ==
  ASSUME NEW rx \in Seq(CanFrame), NEW q \in Seq(Req), NEW s \in Req \cup {NoStream}, NEW r \in Req
  PROVE  /\ Unanswered(rx, Append(q, r), s) = Unanswered(rx, q, s) \cup {r}
         /\ AllApart(rx, q, s) /\ (\A p \in Unanswered(rx, q, s) : Apart(r, p)) =>
              AllApart(rx, Append(q, r), s)
<1>1. /\ DOMAIN Append(q, r) = DOMAIN q \cup {Len(q) + 1} /\ Len(q) + 1 \notin DOMAIN q
      /\ \A i \in DOMAIN q : Append(q, r)[i] = q[i]
      /\ Append(q, r)[Len(q) + 1] = r
  OBVIOUS
<1>2. Unanswered(rx, Append(q, r), s) = Unanswered(rx, q, s) \cup {r}
  <2>1. {Append(q, r)[i] : i \in DOMAIN Append(q, r)} = {q[i] : i \in DOMAIN q} \cup {r}
    BY <1>1
  <2> QED
    BY <2>1 DEF Unanswered
<1>3. ASSUME AllApart(rx, q, s), \A p \in Unanswered(rx, q, s) : Apart(r, p)
      PROVE  AllApart(rx, Append(q, r), s)
  <2>1. \A i \in DOMAIN q : Apart(r, q[i]) /\ Apart(q[i], r)
    <3>1. \A i \in DOMAIN q : q[i] \in Unanswered(rx, q, s) /\ q[i] \in Req
      BY DEF Unanswered
    <3> QED
      BY <1>3, <3>1, ApartSymmetric
  <2>2. \A j \in Rests(rx) : Apart(r, rx[j].of)
    BY <1>3 DEF Unanswered
  <2>3. Apart(r, s)
    BY <1>3 DEF Unanswered
  <2>4. \A i, j \in DOMAIN Append(q, r) : i # j => Apart(Append(q, r)[i], Append(q, r)[j])
    BY <1>1, <1>3, <2>1 DEF AllApart
  <2>5. /\ \A i \in DOMAIN Append(q, r), j \in Rests(rx) : Apart(Append(q, r)[i], rx[j].of)
        /\ \A i \in DOMAIN Append(q, r) : Apart(Append(q, r)[i], s)
    BY <1>1, <1>3, <2>2, <2>3 DEF AllApart
  <2> QED
    BY <1>3, <2>4, <2>5 DEF AllApart
<1> QED
  BY <1>2, <1>3

\* A frame is received that completes no stream.
LEMMA FrameReceived ==
  ASSUME NEW rx \in Seq(CanFrame), NEW f \in CanFrame, f.kind # "rest"
  PROVE  /\ Rests(Append(rx, f)) = Rests(rx)
         /\ \A i \in Rests(rx) : Append(rx, f)[i] = rx[i]
<1>1. /\ DOMAIN Append(rx, f) = DOMAIN rx \cup {Len(rx) + 1} /\ Len(rx) + 1 \notin DOMAIN rx
      /\ \A i \in DOMAIN rx : Append(rx, f)[i] = rx[i]
      /\ Append(rx, f)[Len(rx) + 1] = f
  OBVIOUS
<1> QED
  BY <1>1 DEF Rests

LEMMA FrameOnly ==
  ASSUME NEW rx \in Seq(CanFrame), NEW q \in Seq(Req), NEW s \in Req \cup {NoStream},
         NEW f \in CanFrame, f.kind # "rest"
  PROVE  /\ Unanswered(Append(rx, f), q, s) = Unanswered(rx, q, s)
         /\ AllApart(rx, q, s) => AllApart(Append(rx, f), q, s)
<1>1. /\ Rests(Append(rx, f)) = Rests(rx)
      /\ \A i \in Rests(rx) : Append(rx, f)[i] = rx[i]
  BY FrameReceived
<1>2. {Append(rx, f)[i].of : i \in Rests(Append(rx, f))} = {rx[i].of : i \in Rests(rx)}
  BY <1>1
<1>3. Unanswered(Append(rx, f), q, s) = Unanswered(rx, q, s)
  BY <1>2 DEF Unanswered
<1> QED
  BY <1>1, <1>3 DEF AllApart

\* The central takes up the oldest request, and sends the stream for it if it
\* has one.
LEMMA RequestTaken ==
  ASSUME NEW rx \in Seq(CanFrame), NEW q \in Seq(Req), q # <<>>, NEW s \in {Head(q), NoStream}
  PROVE  /\ Unanswered(rx, Tail(q), s) \subseteq Unanswered(rx, q, NoStream)
         /\ AllApart(rx, q, NoStream) => AllApart(rx, Tail(q), s)
<1> DEFINE t == Tail(q)
<1>1. /\ DOMAIN t = 1..(Len(q) - 1) /\ DOMAIN q = 1..Len(q) /\ Len(q) \in Nat /\ Len(q) > 0
      /\ \A i \in DOMAIN t : t[i] = q[i + 1]
      /\ Head(q) = q[1] /\ Head(q) \in Req
  OBVIOUS
<1> HIDE DEF t
<1>2. \A i \in DOMAIN t : i + 1 \in DOMAIN q /\ t[i] = q[i + 1] /\ i + 1 # 1 /\ i \in Nat
  BY <1>1
<1>3. 1 \in DOMAIN q
  BY <1>1
<1>4. Unanswered(rx, t, s) \subseteq Unanswered(rx, q, NoStream)
  <2>1. s \in {q[i] : i \in DOMAIN q} \cup {NoStream}
    BY <1>1, <1>3
  <2>2. {t[i] : i \in DOMAIN t} \subseteq {q[i] : i \in DOMAIN q}
    BY <1>2
  <2> QED
    BY <2>1, <2>2 DEF Unanswered
<1>5. ASSUME AllApart(rx, q, NoStream) PROVE AllApart(rx, t, s)
  <2>1. \A i, j \in DOMAIN t : i # j => Apart(t[i], t[j])
    BY <1>2, <1>5 DEF AllApart
  <2>2. \A i \in DOMAIN t, j \in Rests(rx) : Apart(t[i], rx[j].of)
    BY <1>2, <1>5 DEF AllApart
  <2>3. \A i \in DOMAIN t : Apart(t[i], s)
    BY <1>1, <1>2, <1>3, <1>5 DEF AllApart
  <2>4. ASSUME NEW j \in Rests(rx) PROVE Apart(rx[j].of, s)
    <3>1. CASE s = NoStream
      BY <1>5, <3>1 DEF AllApart
    <3>2. CASE s = Head(q)
      <4>1. Apart(q[1], rx[j].of)
        BY <1>3, <1>5 DEF AllApart
      <4>2. rx[j] \in CanFrame /\ rx[j].kind = "rest"
        BY DEF Rests
      <4> QED
        BY <1>1, <3>2, <4>1, <4>2, FrameTypes, ApartSymmetric
    <3> QED
      BY <3>1, <3>2
  <2> QED
    BY <1>5, <2>1, <2>2, <2>3, <2>4 DEF AllApart
<1> QED
  BY <1>4, <1>5 DEF t

\* The stream is complete.
LEMMA StreamSent ==
  ASSUME NEW rx \in Seq(CanFrame), NEW q \in Seq(Req), NEW s \in Req
  PROVE  LET rx2 == Append(rx, [kind |-> "rest", of |-> s])
         IN  /\ rx2 \in Seq(CanFrame)
             /\ Unanswered(rx2, q, NoStream) \subseteq Unanswered(rx, q, s) \cup {NoStream}
             /\ AllApart(rx, q, s) => AllApart(rx2, q, NoStream)
<1> DEFINE f == [kind |-> "rest", of |-> s]
           rx2 == Append(rx, f)
<1>0. f \in CanFrame
  BY DEF CanFrame
<1>1. /\ DOMAIN rx2 = DOMAIN rx \cup {Len(rx) + 1} /\ Len(rx) + 1 \notin DOMAIN rx
      /\ \A i \in DOMAIN rx : rx2[i] = rx[i]
      /\ rx2[Len(rx) + 1] = f
      /\ rx2 \in Seq(CanFrame)
  BY <1>0
<1>2. /\ Rests(rx2) = Rests(rx) \cup {Len(rx) + 1} /\ Len(rx) + 1 \notin Rests(rx)
      /\ \A i \in Rests(rx) : rx2[i] = rx[i]
      /\ rx2[Len(rx) + 1].of = s
  BY <1>1 DEF Rests
<1> HIDE DEF rx2
<1>3. Unanswered(rx2, q, NoStream) \subseteq Unanswered(rx, q, s) \cup {NoStream}
  BY <1>2 DEF Unanswered
<1>4. ASSUME AllApart(rx, q, s) PROVE AllApart(rx2, q, NoStream)
  <2>1. \A j \in Rests(rx) : Apart(rx[j].of, s) /\ Apart(s, rx[j].of)
    <3>1. \A j \in Rests(rx) : rx[j].of \in Req
      <4> SUFFICES ASSUME NEW j \in Rests(rx) PROVE rx[j].of \in Req
        OBVIOUS
      <4>1. rx[j] \in CanFrame /\ rx[j].kind = "rest"
        BY DEF Rests
      <4> QED
        BY <4>1, FrameTypes
    <3> QED
      BY <1>4, <3>1, ApartSymmetric DEF AllApart
  <2>2. \A i, j \in Rests(rx2) : i # j => Apart(rx2[i].of, rx2[j].of)
    BY <1>2, <1>4, <2>1 DEF AllApart
  <2>3. \A i \in DOMAIN q, j \in Rests(rx2) : Apart(q[i], rx2[j].of)
    BY <1>2, <1>4 DEF AllApart
  <2>4. \A p : Apart(p, NoStream)
    BY DEF Apart, NoStream
  <2> QED
    BY <1>4, <2>2, <2>3, <2>4 DEF AllApart
<1> QED
  BY <1>1, <1>3, <1>4 DEF rx2

-----------------------------------------------------------------------------
(***************************************************************************)
(* No engine twice.                                                        *)
(***************************************************************************)
\* The central has one protocol, and whoever is asked is asked in it.
ProtocolInv ==
  /\ protocol \in {"UNKNOWN", env.protocol}
  /\ \A i \in DOMAIN canRx : canRx[i].kind = "ping" => canRx[i].protocol = env.protocol
  /\ \A p \in Pending \cup {consumer} :
       /\ p.kind = "list" => env.protocol = "LOKNAMEN"
       /\ p.kind = "lokliste" => env.protocol = "LOKLISTE"

\* As long as the request may be repeated, which clears the database, nothing
\* of an answer has been taken: the first frame of any stream ends this.
Repeats == pc = "setup" \/ ed.state \in {"REQUESTING_PROTOCOL", "REQUESTING"}
RepeatInv ==
  Repeats =>
    /\ ~receiving
    /\ db = [i \in Index |-> Free]
    /\ \A p \in Pending : p.kind = "list" => p.at = 0

\* The entries of the table d: an engine that the Lokliste names has its own
\* place; no engine is there twice, and none of a page that is still to come.
Entries(d, pending) ==
  /\ env.protocol # "LOKNAMEN" => \A i \in Index : d[i].name \in {None, i + 1}
  /\ \A i, j \in Index : d[i].name # None /\ d[i].name = d[j].name => i = j
  /\ \A p \in pending : p.kind = "list" /\ p.at > 0 =>
       \A i \in Index : d[i].name <= p.at \/ p.at + Page < d[i].name

\* Behind the page that the consumer waits for no page is asked for, and no
\* engine is known; before it the first page is in the table as it was sent, so
\* that a repeated answer for it adds nothing.
ListInv ==
  consumer.kind = "list" =>
    /\ \A p \in Pending : p.kind = "list" => p.at <= consumer.at
    /\ \A i \in Index : db[i].name <= consumer.at
    /\ consumer.at > 0 =>
         /\ consumer.at >= Page
         /\ \A i \in Index : i < Page /\ i < NumEngines => db[i].name = i + 1

Quiet ==
  /\ console = "idle"
  /\ ProtocolInv
  /\ AllApart(canRx, requests, sending)
  /\ RepeatInv
  /\ Entries(db, Pending)
  /\ ListInv

Inv == TypeInv /\ (typed = 0 => Quiet)

-----------------------------------------------------------------------------
LEMMA InitInv == Init => Inv
<1> SUFFICES ASSUME Init PROVE Inv
  OBVIOUS
<1> USE DEF Init
<1>1. TypeInv
  <2>1. [i \in Index |-> Free] \in [Index -> Entry]
    BY DEF Entry, Free, None
  <2>2. <<>> \in Seq(Req) /\ <<>> \in Seq(CanFrame)
    OBVIOUS
  <2> QED
    BY <2>1, <2>2 DEF TypeInv, EdRecord, NoStream
<1>2. Pending = {NoStream}
  BY DEF Pending, Unanswered, Rests
<1>3. ProtocolInv
  BY <1>2 DEF ProtocolInv, NoStream
<1>4. AllApart(canRx, requests, sending)
  BY DEF AllApart, Rests
<1>5. \A i \in Index : db[i].name = None
  BY DEF Free
<1>6. Entries(db, Pending)
  BY <1>2, <1>5 DEF Entries, NoStream
<1> QED
  BY <1>1, <1>2, <1>3, <1>4, <1>6 DEF Inv, Quiet, RepeatInv, ListInv, NoStream

LEMMA LeastNatural ==
  ASSUME NEW T \in SUBSET Nat, T # {}
  PROVE  \E n \in T : \A m \in T : n <= m
<1> DEFINE R == OpToRel(<, Nat)
<1>1. IsWellFoundedOn(R, Nat)
  BY NatLessThanWellFounded
<1> HIDE DEF R
<1>2. PICK n \in T : \A m \in T : <<m, n>> \notin R
  BY <1>1, WFMin, Zenon
<1>3. \A a, b \in Nat : a < b => <<a, b>> \in R
  BY DEF R, OpToRel
<1>4. \A m \in T : n <= m
  <2> SUFFICES ASSUME NEW m \in T PROVE n <= m
    OBVIOUS
  <2>1. n \in Nat /\ m \in Nat /\ n \in T
    OBVIOUS
  <2>2. <<m, n>> \notin R
    BY <1>2
  <2>3. ~(m < n)
    BY <1>3, <2>1, <2>2
  <2> QED
    BY <2>1, <2>3
<1> QED
  BY <1>4

\* What every step leaves of the types is shown action by action.
LEMMA FetchNextType ==
  ASSUME TypeInv, NEW d \in [Index -> Entry], fetchNextEngine(d)
  PROVE  /\ db' \in [Index -> Entry]
         /\ consumer' \in [kind : DbKind \cup {"none"}, at : Nat]
         /\ requests' \in Seq(Req)
<1>1. db' = d
  BY DEF fetchNextEngine
<1>2. CASE Incomplete(d) # {}
  <2> DEFINE i == Least(Incomplete(d))
  <2>1. i \in Incomplete(d)
    <3>1. Incomplete(d) \subseteq Nat
      BY SizeAssumption DEF Incomplete, Index
    <3>2. \E n \in Incomplete(d) : \A m \in Incomplete(d) : n <= m
      BY <1>2, <3>1, LeastNatural
    <3> QED
      BY <3>2 DEF Least
  <2>2. i \in Nat /\ d[i].name \in Nat
    BY <2>1, SizeAssumption DEF Incomplete, Index, Entry, Engine, None
  <2>3. Ask(Request("loco", i), Request("loco", d[i].name))
    BY <1>2 DEF fetchNextEngine
  <2> HIDE DEF i
  <2>4. Request("loco", i) \in [kind : DbKind \cup {"none"}, at : Nat] /\ Request("loco", d[i].name) \in Req
    BY <2>2 DEF Request, DbKind, Req
  <2> QED
    BY <1>1, <2>3, <2>4 DEF Ask, TypeInv
<1>3. CASE Incomplete(d) = {}
  BY <1>1, <1>3 DEF fetchNextEngine, TypeInv
<1> QED
  BY <1>2, <1>3

LEMMA StoredType ==
  ASSUME TypeInv, NEW names \in SUBSET Engine
  PROVE  /\ Stored(names) \in [Index -> Entry]
         /\ \A i \in Index :
              \/ /\ \A e \in names : i # consumer.at + Rank(e, names)
                 /\ Stored(names)[i] = db[i]
              \/ /\ Stored(names)[i].name \in names /\ Stored(names)[i].full = None
                 /\ i = consumer.at + Rank(Stored(names)[i].name, names)
<1> SUFFICES ASSUME NEW i \in Index
             PROVE  /\ Stored(names)[i] \in Entry
                    /\ \/ /\ \A e \in names : i # consumer.at + Rank(e, names)
                          /\ Stored(names)[i] = db[i]
                       \/ /\ Stored(names)[i].name \in names /\ Stored(names)[i].full = None
                          /\ i = consumer.at + Rank(Stored(names)[i].name, names)
  BY DEF Stored
<1>1. CASE \E e \in names : i = consumer.at + Rank(e, names)
  <2> DEFINE f == CHOOSE e \in names : i = consumer.at + Rank(e, names)
  <2>1. f \in names /\ i = consumer.at + Rank(f, names)
    BY <1>1
  <2>2. Stored(names)[i] = [name |-> f, full |-> None]
    BY <1>1 DEF Stored
  <2> HIDE DEF f
  <2>3. [name |-> f, full |-> None] \in Entry
    BY <2>1 DEF Entry, None
  <2> QED
    BY <2>1, <2>2, <2>3
<1>2. CASE ~\E e \in names : i = consumer.at + Rank(e, names)
  <2>1. Stored(names)[i] = db[i]
    BY <1>2 DEF Stored
  <2> QED
    BY <1>2, <2>1 DEF TypeInv
<1> QED
  BY <1>1, <1>2

\* The table that the completed stream leaves.
NewEntries(answer) == {e \in Names(answer) : ~hasEngine(e)}
TableAfter(answer) ==
  CASE consumer.kind = "list" -> Stored(NewEntries(answer))
    [] consumer.kind = "lokliste" ->
         IF answer.kind # "lokliste" THEN db
         ELSE [i \in Index |-> IF i + 1 \in Engine THEN [db[i] EXCEPT !.name = i + 1] ELSE db[i]]
    [] OTHER -> IF answer.kind # "loco" THEN db
                ELSE [db EXCEPT ![consumer.at].full = answer.at]

LEMMA TableAfterType ==
  ASSUME TypeInv, NEW answer \in Req
  PROVE  TableAfter(answer) \in [Index -> Entry]
<1> USE DEF TypeInv
<1>1. CASE consumer.kind = "list"
  <2>1. NewEntries(answer) \subseteq Engine
    BY DEF NewEntries, Names
  <2> QED
    BY <1>1, <2>1, StoredType DEF TableAfter
<1>2. CASE consumer.kind = "lokliste"
  <2>1. \A i \in Index : i + 1 \in Engine => [db[i] EXCEPT !.name = i + 1] \in Entry
    BY DEF Entry
  <2> QED
    BY <1>2, <2>1 DEF TableAfter
<1>3. CASE consumer.kind \notin {"list", "lokliste"}
  <2>1. answer.at \in Nat
    BY DEF Req
  <2>2. \A i \in Index : [db[i] EXCEPT !.full = answer.at] \in Entry
    BY <2>1 DEF Entry
  <2> QED
    BY <1>3, <2>2 DEF TableAfter
<1> QED
  BY <1>1, <1>2, <1>3

\* A completed stream either leads to the next page, or to the next engine, or
\* the database is complete.
LEMMA StreamCompletes ==
  ASSUME NEW answer, streamComplete(answer)
  PROVE  /\ consumer.kind \in DbKind
         /\ \/ fetchNextEngine(TableAfter(answer))
            \/ /\ consumer.kind = "list" /\ db' = TableAfter(answer)
               /\ fetchEnginesFromOffset(consumer.at + Page)
         /\ consumer.kind # "list" => fetchNextEngine(TableAfter(answer))
<1>1. CASE consumer.kind = "list" /\ ListComplete(answer)
  BY <1>1 DEF ListComplete, TableAfter, NewEntries, DbKind
<1>2. CASE consumer.kind = "lokliste" /\ ListeComplete(answer)
  BY <1>2 DEF ListeComplete, TableAfter, DbKind
<1>3. CASE consumer.kind = "loco" /\ LocoComplete(answer)
  BY <1>3 DEF LocoComplete, TableAfter, DbKind
<1> QED
  BY <1>1, <1>2, <1>3 DEF streamComplete

LEMMA StreamType ==
  ASSUME TypeInv, NEW answer \in Req, streamComplete(answer)
  PROVE  /\ db' \in [Index -> Entry]
         /\ consumer' \in [kind : DbKind \cup {"none"}, at : Nat]
         /\ requests' \in Seq(Req)
<1>1. CASE fetchNextEngine(TableAfter(answer))
  BY <1>1, TableAfterType, FetchNextType
<1>2. CASE db' = TableAfter(answer) /\ fetchEnginesFromOffset(consumer.at + Page)
  <2>1. consumer.at + Page \in Nat
    BY SizeAssumption DEF TypeInv
  <2>2. /\ Request("list", consumer.at + Page) \in [kind : DbKind \cup {"none"}, at : Nat]
        /\ Request("list", consumer.at + Page) \in Req
    BY <2>1 DEF Request, Req, DbKind
  <2> QED
    BY <1>2, <2>2, TableAfterType DEF fetchEnginesFromOffset, Ask, TypeInv
<1> QED
  BY <1>1, <1>2, StreamCompletes

LEMMA FetchDBType ==
  ASSUME TypeInv, fetchEngineDB
  PROVE  /\ db' \in [Index -> Entry]
         /\ consumer' \in [kind : DbKind \cup {"none"}, at : Nat]
         /\ requests' \in Seq(Req)
<1>1. db' \in [Index -> Entry]
  BY DEF fetchEngineDB, Free, Entry, None
<1>2. \A k \in {"list", "lokliste"} :
        Request(k, 0) \in Req /\ Request(k, 0) \in [kind : DbKind \cup {"none"}, at : Nat]
  BY DEF Request, Req, DbKind
<1>3. CASE UNCHANGED <<consumer, requests>>
  BY <1>1, <1>3 DEF TypeInv
<1>4. ASSUME NEW k \in {"list", "lokliste"}, Ask(Request(k, 0), Request(k, 0))
      PROVE  /\ consumer' \in [kind : DbKind \cup {"none"}, at : Nat]
             /\ requests' \in Seq(Req)
  BY <1>2, <1>4 DEF Ask, TypeInv
<1>5. \/ UNCHANGED <<consumer, requests>>
      \/ \E k \in {"list", "lokliste"} : Ask(Request(k, 0), Request(k, 0))
  BY DEF fetchEngineDB, fetchEnginesFromOffset
<1> QED
  BY <1>1, <1>3, <1>4, <1>5

LEMMA LoopType ==
  ASSUME TypeInv, DownloadLoop
  PROVE  ed' \in EdRecord /\ notified' \in BOOLEAN
<1>1. [ed EXCEPT !.expired = FALSE] \in EdRecord
  BY DEF TypeInv, EdRecord
<1>2. [ed EXCEPT !.tries = @ + 1, !.expired = FALSE] \in EdRecord
  <2>1. ed.tries + 1 \in Nat
    BY DEF TypeInv, EdRecord
  <2>2. \A n \in Nat : [ed EXCEPT !.tries = n, !.expired = FALSE] \in EdRecord
    BY DEF TypeInv, EdRecord
  <2> QED
    BY <2>1, <2>2
<1>3. [ed EXCEPT !.state = "IDLE", !.expired = FALSE] \in EdRecord
  BY DEF TypeInv, EdRecord
<1>4. [state |-> "REQUESTING", tries |-> 0, expired |-> FALSE] \in EdRecord
  BY DEF EdRecord
<1>5. ed' \in {[ed EXCEPT !.expired = FALSE], [ed EXCEPT !.tries = @ + 1, !.expired = FALSE],
              [ed EXCEPT !.state = "IDLE", !.expired = FALSE],
              [state |-> "REQUESTING", tries |-> 0, expired |-> FALSE]}
  BY DEF DownloadLoop, LoopProtocol, LoopRequest, stopRequesting
<1>6. notified' \in {notified, TRUE}
  BY DEF DownloadLoop, LoopProtocol, LoopRequest
<1> QED
  BY <1>1, <1>2, <1>3, <1>4, <1>5, <1>6 DEF TypeInv

LEMMA ConsoleType ==
  ASSUME TypeInv, ConsoleTask
  PROVE  TypeInv'
<1>0. \A k \in {"list", "lokliste"} :
        Request(k, 0) \in Req /\ Request(k, 0) \in [kind : DbKind \cup {"none"}, at : Nat]
  BY DEF Request, Req, DbKind
<1> USE DEF TypeInv
<1>1. CASE TypeDownload
  BY <1>1 DEF TypeDownload, dbVars, rrVars, busVars
<1>2. CASE ConsoleClear
  <2>1. [i \in Index |-> Free] \in [Index -> Entry]
    BY DEF Free, Entry, None
  <2> QED
    BY <1>2, <2>1 DEF ConsoleClear, rrVars, busVars
<1>3. CASE ConsoleParser
  BY <1>0, <1>3 DEF ConsoleParser, busVars
<1>4. CASE ConsoleRequest
  BY <1>0, <1>4 DEF ConsoleRequest
<1>5. CASE \E p \in {"UNKNOWN", "LOKNAMEN", "LOKLISTE"} : TypeProtocol(p)
  BY <1>5 DEF TypeProtocol, rrVars, busVars
<1> QED
  BY <1>1, <1>2, <1>3, <1>4, <1>5 DEF ConsoleTask

LEMMA TypeStep == TypeInv /\ [Next]_vars => TypeInv'
<1> SUFFICES ASSUME TypeInv, [Next]_vars PROVE TypeInv'
  OBVIOUS
<1> USE DEF TypeInv, EdRecord
<1>1. CASE setup
  <2>1. Request("ping", 0) \in Req
    BY DEF Request, Req
  <2> QED
    BY <1>1, <2>1, SizeAssumption, BoundAssumption DEF setup, dbVars, rrVars, conVars
<1>2. CASE Wake
  BY <1>2 DEF Wake, dbVars, rrVars, ledVars, tmVars, conVars, busVars
<1>3. CASE HandleFrame
  <2>1. /\ canRx' \in Seq(CanFrame) /\ Head(canRx) \in CanFrame
        /\ UNCHANGED <<pc, notified, typed, env, sending>>
    BY <1>3 DEF HandleFrame, conVars
  <2>2. CASE StatusReceived \/ PingReceived
    BY <2>1, <2>2 DEF StatusReceived, PingReceived, dbVars, rrVars
  <2>3. CASE StreamStarts
    BY <2>1, <2>3 DEF StreamStarts
  <2>4. CASE Head(canRx).kind = "rest" /\ StreamEnds
    <3>1. Head(canRx).of \in Req
      BY <2>1, <2>4, FrameTypes
    <3>2. CASE streamComplete(Head(canRx).of)
      BY <2>1, <2>4, <3>1, <3>2, StreamType DEF StreamEnds
    <3>3. CASE UNCHANGED <<dbState, db, rrVars, download, timerQ, requests>>
      BY <2>1, <2>4, <3>3 DEF StreamEnds, rrVars
    <3> QED
      BY <2>4, <3>2, <3>3 DEF StreamEnds
  <2> QED
    BY <1>3, <2>2, <2>3, <2>4 DEF HandleFrame
<1>4. CASE CanDone
  BY <1>4 DEF CanDone, dbVars, rrVars, ledVars, tmVars, conVars, busVars
<1>5. CASE StopGoLoop
  <2>1. Request("status", 0) \in Req
    BY DEF Request, Req
  <2>2. requests' \in Seq(Req)
    BY <1>5, <2>1 DEF StopGoLoop
  <2> QED
    BY <1>5, <2>2 DEF StopGoLoop, dbVars, rrVars, ledVars, conVars
<1>6. CASE NotifyComplete
  BY <1>6 DEF NotifyComplete, dbVars, rrVars, conVars, busVars
<1>7. CASE DownloadLoop
  <2>1. pc' = "blocked" /\ UNCHANGED <<typed, sending, canRx, env>>
    BY <1>7 DEF DownloadLoop, conVars
  <2>2. ed' \in EdRecord /\ notified' \in BOOLEAN
    BY <1>7, LoopType DEF DownloadLoop
  <2>3. CASE ed.expired /\ LoopProtocol
    BY <2>1, <2>2, <2>3 DEF LoopProtocol, dbVars, rrVars
  <2>4. CASE ed.expired /\ LoopRequest
    <3>1. /\ db' \in [Index -> Entry]
          /\ consumer' \in [kind : DbKind \cup {"none"}, at : Nat]
          /\ requests' \in Seq(Req)
      BY <2>4, FetchDBType DEF LoopRequest, dbVars, rrVars
    <3> QED
      BY <2>1, <2>2, <3>1
  <2>5. CASE UNCHANGED <<notified, dbVars, requests>>
    BY <2>1, <2>2, <2>5 DEF dbVars, rrVars
  <2> QED
    BY <1>7, <2>3, <2>4, <2>5 DEF DownloadLoop
<1>8. CASE TimerCommand \/ StopGoExpires \/ CanDbExpires
  BY <1>8 DEF TimerCommand, StopGoExpires, CanDbExpires, dbVars, rrVars, conVars, busVars
<1>9. CASE ConsoleTask
  BY <1>9, ConsoleType
<1>10. CASE Answer
  <2>1. UNCHANGED <<pc, ed, db, consumer, typed, env>>
    BY <1>10 DEF Answer, dbVars, rrVars, conVars
  <2>2. requests' \in Seq(Req) /\ Head(requests) \in Req
    BY <1>10 DEF Answer
  <2>3. env.protocol \in {"UNKNOWN", "LOKNAMEN", "LOKLISTE"}
    BY EnvironmentAssumption
  <2>4. /\ [kind |-> "go"] \in CanFrame /\ [kind |-> "first", of |-> Head(requests)] \in CanFrame
        /\ env.protocol # "UNKNOWN" => [kind |-> "ping", protocol |-> env.protocol] \in CanFrame
    BY <2>2, <2>3 DEF CanFrame
  <2>5. canRx' \in Seq(CanFrame) /\ notified' \in BOOLEAN
    <3>1. ASSUME NEW f \in CanFrame, Receive(f) PROVE canRx' \in Seq(CanFrame) /\ notified' \in BOOLEAN
      BY <3>1 DEF Receive
    <3>2. CASE UNCHANGED <<canRx, notified>>
      BY <3>2
    <3>3. UNCHANGED <<canRx, notified>> \/ \E f \in CanFrame : Receive(f)
      BY <1>10, <2>4 DEF Answer
    <3> QED
      BY <3>1, <3>2, <3>3
  <2>6. sending' \in Req \cup {NoStream}
    BY <1>10, <2>2 DEF Answer
  <2> QED
    BY <2>1, <2>2, <2>5, <2>6
<1>11. CASE AnswerRest
  <2>1. [kind |-> "rest", of |-> sending] \in CanFrame
    BY <1>11 DEF AnswerRest, CanFrame
  <2> QED
    BY <1>11, <2>1 DEF AnswerRest, Receive, dbVars, rrVars, conVars
<1>12. CASE PowerSwitched
  <2>1. [kind |-> "go"] \in CanFrame
    BY DEF CanFrame
  <2> QED
    BY <1>12, <2>1 DEF PowerSwitched, Receive, dbVars, rrVars, conVars
<1>13. CASE UNCHANGED vars
  BY <1>13 DEF vars, dbVars, rrVars, conVars, busVars
<1> QED
  BY <1>1, <1>2, <1>3, <1>4, <1>5, <1>6, <1>7, <1>8, <1>9, <1>10, <1>11, <1>12, <1>13
  DEF Next, RoutingTask, Can

-----------------------------------------------------------------------------
\* Steps that leave the table and the consumer alone, and ask for no list.
NoList == {p \in Req \cup {NoStream} : p.kind \notin {"list", "lokliste"}}

LEMMA QuietKept ==
  ASSUME Quiet, UNCHANGED <<db, consumer, env, console>>,
         protocol' \in {"UNKNOWN", env.protocol},
         \A i \in DOMAIN canRx' : canRx'[i].kind = "ping" => canRx'[i].protocol = env.protocol,
         Repeats' => Repeats /\ receiving' = FALSE,
         Pending' \subseteq Pending \cup NoList,
         AllApart(canRx, requests, sending)'
  PROVE  Quiet'
<1>1. ProtocolInv'
  BY DEF Quiet, ProtocolInv, NoList
<1>2. RepeatInv'
  BY DEF Quiet, RepeatInv, NoList
<1>3. Entries(db, Pending)'
  BY DEF Quiet, Entries, NoList
<1>4. ListInv'
  BY DEF Quiet, ListInv, NoList
<1> QED
  BY <1>1, <1>2, <1>3, <1>4 DEF Quiet

\* Steps that leave the requests alone as well.
LEMMA NothingSent ==
  ASSUME Quiet, UNCHANGED <<db, consumer, protocol, env, console, canRx, requests, sending>>,
         Repeats' => Repeats /\ UNCHANGED receiving
  PROVE  Quiet'
<1>1. Pending' = Pending
  BY DEF Pending
<1>2. AllApart(canRx, requests, sending)' /\ protocol' \in {"UNKNOWN", env.protocol}
  BY DEF Quiet, ProtocolInv
<1>3. \A i \in DOMAIN canRx' : canRx'[i].kind = "ping" => canRx'[i].protocol = env.protocol
  BY DEF Quiet, ProtocolInv
<1>4. Repeats' => Repeats /\ receiving' = FALSE
  BY DEF Quiet, RepeatInv
<1> QED
  BY <1>1, <1>2, <1>3, <1>4, QuietKept

\* A request for something other than a list.
LEMMA OtherSent ==
  ASSUME TypeInv, Quiet, NEW r \in Req, r.kind \notin {"list", "lokliste"},
         requests' = Append(requests, r),
         UNCHANGED <<db, consumer, protocol, env, console, canRx, sending>>,
         Repeats' => Repeats /\ UNCHANGED receiving
  PROVE  Quiet'
<1>1. \A p : Apart(r, p)
  BY DEF Apart
<1>2. Pending' = Pending \cup {r} /\ AllApart(canRx, requests, sending)'
  BY <1>1, RequestSent DEF Pending, TypeInv, Quiet
<1>3. protocol' \in {"UNKNOWN", env.protocol}
  BY DEF Quiet, ProtocolInv
<1>4. \A i \in DOMAIN canRx' : canRx'[i].kind = "ping" => canRx'[i].protocol = env.protocol
  BY DEF Quiet, ProtocolInv
<1>5. Repeats' => Repeats /\ receiving' = FALSE
  BY DEF Quiet, RepeatInv
<1>6. r \in NoList
  BY DEF NoList
<1> QED
  BY <1>2, <1>3, <1>4, <1>5, <1>6, QuietKept

\* A frame of the central arrives: none that completes a stream.
LEMMA FrameArrives ==
  ASSUME TypeInv, Quiet, NEW f \in CanFrame, f.kind # "rest",
         f.kind = "ping" => f.protocol = env.protocol,
         canRx' = Append(canRx, f),
         UNCHANGED <<db, consumer, protocol, env, console, pc, ed, receiving>>,
         Unanswered(canRx, requests', sending') \subseteq Pending \cup NoList,
         AllApart(canRx, requests', sending'),
         requests' \in Seq(Req), sending' \in Req \cup {NoStream}
  PROVE  Quiet'
<1>1. Pending' \subseteq Pending \cup NoList /\ AllApart(canRx, requests, sending)'
  BY FrameOnly DEF Pending, TypeInv
<1>2. protocol' \in {"UNKNOWN", env.protocol}
  BY DEF Quiet, ProtocolInv
<1>3. \A i \in DOMAIN canRx' : canRx'[i].kind = "ping" => canRx'[i].protocol = env.protocol
  <2>1. \A i \in DOMAIN canRx' : (i \in DOMAIN canRx /\ canRx'[i] = canRx[i]) \/ canRx'[i] = f
    BY DEF TypeInv
  <2> QED
    BY <2>1 DEF Quiet, ProtocolInv
<1>4. Repeats' => Repeats /\ receiving' = FALSE
  BY DEF Quiet, RepeatInv, Repeats
<1> QED
  BY <1>1, <1>2, <1>3, <1>4, QuietKept

LEMMA NoStreamIsNoList == NoStream \in NoList
BY DEF NoList, NoStream

LEMMA AnswerFrame ==
  ASSUME TypeInv, Answer
  PROVE  \/ UNCHANGED canRx
         \/ \E f \in CanFrame : /\ f.kind # "rest" /\ canRx' = Append(canRx, f)
                                /\ f.kind = "ping" => f.protocol = env.protocol
<1>1. env.protocol \in {"UNKNOWN", "LOKNAMEN", "LOKLISTE"}
  BY EnvironmentAssumption DEF TypeInv
<1>2. Head(requests) \in Req
  BY DEF TypeInv, Answer
<1>3. CASE Receive([kind |-> "go"])
  <2>1. [kind |-> "go"] \in CanFrame
    BY DEF CanFrame
  <2> QED
    BY <1>3, <2>1 DEF Receive
<1>4. CASE env.protocol # "UNKNOWN" /\ Receive([kind |-> "ping", protocol |-> env.protocol])
  <2>1. [kind |-> "ping", protocol |-> env.protocol] \in CanFrame
    BY <1>1, <1>4 DEF CanFrame
  <2> QED
    BY <1>4, <2>1 DEF Receive
<1>5. CASE Receive([kind |-> "first", of |-> Head(requests)])
  <2>1. [kind |-> "first", of |-> Head(requests)] \in CanFrame
    BY <1>2 DEF CanFrame
  <2> QED
    BY <1>5, <2>1 DEF Receive
<1> QED
  BY <1>3, <1>4, <1>5 DEF Answer

LEMMA AnswerStep == ASSUME TypeInv, TypeInv', Quiet, Answer PROVE Quiet'
<1>1. UNCHANGED <<db, consumer, protocol, env, console, pc, ed, receiving>>
  BY DEF Answer, dbVars, rrVars, conVars
<1>2. requests # <<>> /\ sending = NoStream /\ sending' \in {Head(requests), NoStream}
      /\ requests' = Tail(requests)
  BY DEF Answer
<1>3. Unanswered(canRx, requests', sending') \subseteq Pending
      /\ AllApart(canRx, requests', sending')
  BY <1>2, RequestTaken DEF TypeInv, Pending, Quiet
<1>4. CASE UNCHANGED canRx
  <2>1. Pending' \subseteq Pending \cup NoList /\ AllApart(canRx, requests, sending)'
    BY <1>3, <1>4 DEF Pending
  <2>2. protocol' \in {"UNKNOWN", env.protocol}
    BY <1>1 DEF Quiet, ProtocolInv
  <2>3. \A i \in DOMAIN canRx' : canRx'[i].kind = "ping" => canRx'[i].protocol = env.protocol
    BY <1>4 DEF Quiet, ProtocolInv
  <2>4. Repeats' => Repeats /\ receiving' = FALSE
    BY <1>1 DEF Quiet, RepeatInv, Repeats
  <2> QED
    BY <1>1, <2>1, <2>2, <2>3, <2>4, QuietKept
<1>5. CASE \E f \in CanFrame : /\ f.kind # "rest" /\ canRx' = Append(canRx, f)
                               /\ f.kind = "ping" => f.protocol = env.protocol
  <2>1. PICK f \in CanFrame : /\ f.kind # "rest" /\ canRx' = Append(canRx, f)
                              /\ f.kind = "ping" => f.protocol = env.protocol
    BY <1>5
  <2> QED
    BY <1>1, <1>3, <2>1, FrameArrives DEF TypeInv
<1>6. \/ UNCHANGED canRx
      \/ \E f \in CanFrame : /\ f.kind # "rest" /\ canRx' = Append(canRx, f)
                             /\ f.kind = "ping" => f.protocol = env.protocol
  BY AnswerFrame
<1> QED
  BY <1>4, <1>5, <1>6

LEMMA AnswerRestStep == ASSUME TypeInv, Quiet, AnswerRest PROVE Quiet'
<1>1. UNCHANGED <<db, consumer, protocol, env, console, pc, ed, receiving, requests>>
  BY DEF AnswerRest, dbVars, rrVars, conVars
<1>2. sending \in Req /\ sending' = NoStream /\ canRx' = Append(canRx, [kind |-> "rest", of |-> sending])
  BY DEF AnswerRest, Receive, TypeInv
<1>3. Pending' \subseteq Pending \cup NoList /\ AllApart(canRx, requests, sending)'
  BY <1>1, <1>2, StreamSent, NoStreamIsNoList DEF TypeInv, Pending, Quiet
<1>4. protocol' \in {"UNKNOWN", env.protocol}
  BY <1>1 DEF Quiet, ProtocolInv
<1>5. \A i \in DOMAIN canRx' : canRx'[i].kind = "ping" => canRx'[i].protocol = env.protocol
  <2>1. \A i \in DOMAIN canRx' :
          (i \in DOMAIN canRx /\ canRx'[i] = canRx[i]) \/ canRx'[i] = [kind |-> "rest", of |-> sending]
    BY <1>2 DEF TypeInv
  <2> QED
    BY <2>1 DEF Quiet, ProtocolInv
<1>6. Repeats' => Repeats /\ receiving' = FALSE
  BY <1>1 DEF Quiet, RepeatInv, Repeats
<1> QED
  BY <1>1, <1>3, <1>4, <1>5, <1>6, QuietKept

LEMMA PowerSwitchedStep == ASSUME TypeInv, Quiet, PowerSwitched PROVE Quiet'
<1>1. [kind |-> "go"] \in CanFrame
  BY DEF CanFrame
<1>2. /\ UNCHANGED <<db, consumer, protocol, env, console, pc, ed, receiving, requests, sending>>
      /\ canRx' = Append(canRx, [kind |-> "go"])
  BY DEF PowerSwitched, Receive, dbVars, rrVars, conVars
<1> QED
  BY <1>1, <1>2, FrameArrives DEF TypeInv, Quiet, Pending

\* Steps of the RoutingTask that only send.
LEMMA SetupStep == ASSUME TypeInv, Quiet, setup PROVE Quiet'
<1>1. Request("ping", 0) \in Req /\ Request("ping", 0).kind = "ping"
  BY DEF Request, Req
<1>2. /\ UNCHANGED <<db, consumer, protocol, env, console, canRx, sending, receiving>>
      /\ requests' = Append(requests, Request("ping", 0))
      /\ Repeats
  BY DEF setup, dbVars, rrVars, conVars, Repeats
<1> QED
  BY <1>1, <1>2, OtherSent

LEMMA StopGoLoopStep == ASSUME TypeInv, Quiet, StopGoLoop PROVE Quiet'
<1>1. Request("status", 0) \in Req /\ Request("status", 0).kind = "status"
  BY DEF Request, Req
<1>2. /\ UNCHANGED <<db, consumer, protocol, env, console, canRx, sending, receiving, ed>>
      /\ pc' = "complete"
  BY DEF StopGoLoop, dbVars, rrVars, conVars
<1>3. Repeats' => Repeats
  BY <1>2 DEF Repeats
<1>4. UNCHANGED requests \/ requests' = Append(requests, Request("status", 0))
  BY DEF StopGoLoop
<1> QED
  BY <1>1, <1>2, <1>3, <1>4, OtherSent, NothingSent

LEMMA IdleStep ==
  ASSUME TypeInv, Quiet,
         \/ Wake \/ CanDone \/ NotifyComplete \/ TimerCommand \/ StopGoExpires \/ CanDbExpires
         \/ UNCHANGED vars
  PROVE  Quiet'
<1>1. UNCHANGED <<db, consumer, protocol, env, console, canRx, requests, sending, receiving>>
  BY DEF Wake, CanDone, NotifyComplete, TimerCommand, StopGoExpires, CanDbExpires, vars,
         dbVars, rrVars, ledVars, tmVars, conVars, busVars
<1>2. /\ pc' = "setup" => pc = "setup"
      /\ ed'.state = ed.state \/ ed'.state = "IDLE"
  BY DEF Wake, CanDone, NotifyComplete, TimerCommand, StopGoExpires, CanDbExpires, vars,
         dbVars, rrVars, ledVars, tmVars, conVars, busVars, TypeInv, EdRecord
<1>3. Repeats' => Repeats
  BY <1>2 DEF Repeats
<1> QED
  BY <1>1, <1>3, NothingSent

-----------------------------------------------------------------------------
\* A completed stream.
LEMMA NewEntriesFacts ==
  ASSUME NEW p \in Req
  PROVE  /\ NewEntries(p) \subseteq Engine
         /\ \A e \in NewEntries(p) : p.kind = "list" /\ p.at < e /\ e <= p.at + Page /\ e # None /\ e \in Nat
BY DEF NewEntries, Names, Engine, None

\* The table holds the first page: a repeated answer for it adds nothing.
LEMMA FirstPageKnown ==
  ASSUME TypeInv, Quiet, consumer.kind = "list", consumer.at > 0, NEW p \in Req, p.at = 0
  PROVE  NewEntries(p) = {}
<1> SUFFICES ASSUME NEW e \in NewEntries(p) PROVE FALSE
  OBVIOUS
<1>1. e \in Engine /\ e \in Nat /\ 0 < e /\ e <= Page /\ ~hasEngine(e)
  BY NewEntriesFacts, SizeAssumption DEF NewEntries
<1>2. e - 1 \in Index /\ e - 1 < Page /\ e - 1 < NumEngines
  BY <1>1, SizeAssumption DEF Engine, Index
<1>3. \A i \in Index : i < Page /\ i < NumEngines => db[i].name = i + 1
  BY DEF Quiet, ListInv
<1>4. db[e - 1].name = e
  BY <1>1, <1>2, <1>3
<1>5. \A j \in 0..(e - 1) : db[j].name # None
  <2> SUFFICES ASSUME NEW j \in 0..(e - 1) PROVE db[j].name # None
    OBVIOUS
  <2>1. j \in Index /\ j < Page /\ j < NumEngines /\ j \in Nat
    BY <1>1, <1>2, SizeAssumption DEF Index
  <2> QED
    BY <1>3, <2>1 DEF None
<1> QED
  BY <1>1, <1>2, <1>4, <1>5 DEF hasEngine

\* The names in the table after a page of the list.
LEMMA PageStored ==
  ASSUME TypeInv, Quiet, consumer.kind = "list", NEW p \in Req, p \in Pending
  PROVE  LET d == TableAfter(p)
         IN  /\ \A i \in Index :
                  \/ d[i] = db[i]
                  \/ /\ p.kind = "list" /\ d[i].full = None
                     /\ p.at < d[i].name /\ d[i].name <= p.at + Page
                     /\ \A j \in Index : db[j].name # d[i].name
                     /\ i = consumer.at + Rank(d[i].name, NewEntries(p))
             /\ \A i \in Index : d[i].name <= consumer.at + Page
<1> DEFINE d == TableAfter(p)
           new == NewEntries(p)
<1>1. d = Stored(new)
  BY DEF TableAfter
<1>2. new \subseteq Engine /\ \A e \in new : p.kind = "list" /\ p.at < e /\ e <= p.at + Page /\ e # None /\ e \in Nat
  BY NewEntriesFacts
<1>3. p.kind = "list" => p.at <= consumer.at
  BY DEF Quiet, ListInv
<1>4. p.at \in Nat /\ consumer.at \in Nat /\ Page \in Nat
  BY SizeAssumption DEF Req, TypeInv
<1>5. ASSUME NEW e \in new, NEW j \in Index PROVE db[j].name # e
  <2>1. db[j].name \in Nat
    BY DEF TypeInv, Entry, Engine, None
  <2>2. CASE p.at > 0
    <3>1. db[j].name <= p.at \/ p.at + Page < db[j].name
      BY <1>2, <1>5, <2>2 DEF Quiet, Entries
    <3> QED
      BY <1>2, <1>4, <1>5, <2>1, <3>1
  <2>3. CASE p.at = 0
    <3>1. consumer.at = 0
      BY <1>4, <1>5, <2>3, FirstPageKnown
    <3>2. db[j].name <= 0
      BY <3>1 DEF Quiet, ListInv
    <3> QED
      BY <1>2, <1>5, <2>1, <2>3, <3>2
  <2> QED
    BY <1>4, <2>2, <2>3
<1>6. \A i \in Index :
        \/ d[i] = db[i]
        \/ d[i].name \in new /\ d[i].full = None /\ i = consumer.at + Rank(d[i].name, new)
  BY <1>1, <1>2, StoredType
<1> HIDE DEF d, new
<1>7. \A i \in Index :
        \/ d[i] = db[i]
        \/ /\ p.kind = "list" /\ d[i].full = None
           /\ p.at < d[i].name /\ d[i].name <= p.at + Page
           /\ \A j \in Index : db[j].name # d[i].name
           /\ i = consumer.at + Rank(d[i].name, new)
  BY <1>2, <1>5, <1>6
<1>8. ASSUME NEW i \in Index PROVE d[i].name <= consumer.at + Page
  <2>1. CASE d[i] = db[i]
    <3>1. db[i].name <= consumer.at /\ db[i].name \in Nat
      BY DEF Quiet, ListInv, TypeInv, Entry, Engine, None
    <3> QED
      BY <1>4, <2>1, <3>1
  <2>2. CASE d[i].name \in new
    BY <1>2, <1>3, <1>4, <2>2
  <2> QED
    BY <1>6, <2>1, <2>2
<1> QED
  BY <1>7, <1>8 DEF d, new

LEMMA EntriesAfter ==
  ASSUME TypeInv, Quiet, consumer.kind \in DbKind, NEW p \in Req, p \in Pending,
         NEW rest \in SUBSET Pending, \A r \in rest : Apart(p, r)
  PROVE  Entries(TableAfter(p), rest)
<1> DEFINE d == TableAfter(p)
<1>0. /\ \A i \in Index : db[i].name \in Nat
      /\ p.at \in Nat /\ Page \in Nat
      /\ \A r \in rest : r.at \in Nat
      /\ \A i, j \in Index : db[i].name # None /\ db[i].name = db[j].name => i = j
  <2>1. \A r \in Pending : r.at \in Nat
    <3>1. \A r \in Pending : r \in Req \cup {NoStream}
      BY PendingType
    <3> QED
      BY <3>1 DEF Req, NoStream
  <2> QED
    BY <2>1, SizeAssumption DEF TypeInv, Entry, Engine, None, Req, Quiet, Entries
<1>1. CASE consumer.kind = "list"
  <2>1. env.protocol = "LOKNAMEN"
    BY <1>1 DEF Quiet, ProtocolInv
  <2>2. \A i \in Index :
          \/ d[i] = db[i]
          \/ /\ p.kind = "list" /\ d[i].full = None
             /\ p.at < d[i].name /\ d[i].name <= p.at + Page
             /\ \A j \in Index : db[j].name # d[i].name
             /\ i = consumer.at + Rank(d[i].name, NewEntries(p))
    BY <1>1, PageStored
  <2>3. \A i \in Index : d[i].name \in Nat
    BY TableAfterType DEF Entry, Engine, None
  <2> HIDE DEF d
  <2>4. \A i, j \in Index : d[i].name # None /\ d[i].name = d[j].name => i = j
    BY <1>0, <2>2
  <2>5. ASSUME NEW r \in rest, r.kind = "list", r.at > 0, NEW i \in Index
        PROVE  d[i].name <= r.at \/ r.at + Page < d[i].name
    <3>1. CASE d[i] = db[i]
      BY <2>5, <3>1 DEF Quiet, Entries
    <3>2. CASE p.kind = "list" /\ p.at < d[i].name /\ d[i].name <= p.at + Page
      <4>1. p.at + Page <= r.at \/ r.at + Page <= p.at
        BY <2>5, <3>2 DEF Apart
      <4> QED
        BY <1>0, <2>3, <3>2, <4>1
    <3> QED
      BY <2>2, <3>1, <3>2
  <2> QED
    BY <2>1, <2>4, <2>5 DEF Entries, d
<1>2. CASE consumer.kind = "lokliste"
  <2>1. env.protocol # "LOKNAMEN" /\ \A r \in rest : r.kind # "list"
    BY <1>2 DEF Quiet, ProtocolInv
  <2>2. \A i \in Index : db[i].name \in {None, i + 1}
    BY <2>1 DEF Quiet, Entries
  <2>3. \A i \in Index : d[i].name \in {None, i + 1}
    BY <1>2, <2>2 DEF TableAfter, TypeInv, Entry
  <2> HIDE DEF d
  <2>4. \A i, j \in Index : d[i].name # None /\ d[i].name = d[j].name => i = j
    BY <2>3, SizeAssumption DEF Index
  <2> QED
    BY <2>1, <2>3, <2>4 DEF Entries, d
<1>3. CASE consumer.kind = "loco"
  <2>1. \A i \in Index : d[i].name = db[i].name
    BY <1>3 DEF TableAfter, TypeInv, Entry
  <2> HIDE DEF d
  <2> QED
    BY <2>1 DEF Entries, d, Quiet
<1> QED
  BY <1>1, <1>2, <1>3 DEF DbKind

LEMMA RankType ==
  ASSUME NEW names \in SUBSET Engine, NEW e
  PROVE  Rank(e, names) \in Nat
<1>1. IsFiniteSet(Engine)
  BY FS_Interval, SizeAssumption DEF Engine
<1>2. {f \in names : f < e} \in SUBSET Engine
  OBVIOUS
<1>3. IsFiniteSet({f \in names : f < e})
  BY <1>1, <1>2, FS_Subset
<1> QED
  BY <1>3, FS_CardinalityType DEF Rank

\* The first page fills the start of the table in the order of the list.
LEMMA FirstPageStored ==
  ASSUME TypeInv, Quiet, consumer.kind = "list", NEW p \in Req, p \in Pending, p.kind = "list",
         NEW i \in Index, i < Page, i < NumEngines
  PROVE  TableAfter(p)[i].name = i + 1
<1> DEFINE d == TableAfter(p)
           new == NewEntries(p)
<1>1. d = Stored(new) /\ new \subseteq Engine
  BY NewEntriesFacts DEF TableAfter
<1>2. /\ p.at \in Nat /\ consumer.at \in Nat /\ Page \in Nat /\ i \in Nat /\ NumEngines \in Nat
      /\ p.at <= consumer.at
  BY SizeAssumption DEF Req, TypeInv, Index, Quiet, ListInv
<1>3. CASE consumer.at > 0
  <2>1. consumer.at >= Page /\ db[i].name = i + 1
    BY <1>3 DEF Quiet, ListInv
  <2>2. \A e \in new : Rank(e, new) \in Nat
    BY <1>1, RankType
  <2>3. \A e \in new : i # consumer.at + Rank(e, new)
    BY <1>2, <2>1, <2>2
  <2>4. d[i] = db[i]
    BY <1>1, <2>3, StoredType
  <2> QED
    BY <2>1, <2>4
<1>4. CASE consumer.at = 0
  <2>1. p.at = 0
    BY <1>2, <1>4
  <2>2. \A j \in Index : db[j].name = None
    <3> SUFFICES ASSUME NEW j \in Index PROVE db[j].name = None
      OBVIOUS
    <3>1. db[j].name <= 0 /\ db[j].name \in Nat
      BY <1>4 DEF Quiet, ListInv, TypeInv, Entry, Engine, None
    <3> QED
      BY <3>1 DEF None
  <2>3. \A e \in Engine : ~hasEngine(e)
    BY <2>2 DEF hasEngine, Engine, None
  <2>4. new = {e \in Engine : e <= Page}
    BY <2>1, <2>3, SizeAssumption DEF NewEntries, Names, Engine
  <2>5. ASSUME NEW e \in new PROVE Rank(e, new) = e - 1
    <3>1. e \in Nat /\ e >= 1 /\ e <= NumEngines /\ e <= Page
      BY <2>4, SizeAssumption DEF Engine
    <3>2. {f \in new : f < e} = 1..(e - 1)
      BY <1>2, <2>4, <3>1 DEF Engine
    <3>3. Cardinality(1..(e - 1)) = e - 1
      BY <3>1, FS_Interval
    <3> QED
      BY <3>2, <3>3 DEF Rank
  <2>6. i + 1 \in new /\ i = consumer.at + Rank(i + 1, new)
    <3>1. i + 1 \in new
      BY <1>2, <2>4 DEF Engine
    <3> QED
      BY <1>2, <1>4, <2>5, <3>1
  <2>7. d[i].name \in new /\ i = consumer.at + Rank(d[i].name, new)
    BY <1>1, <2>6, StoredType
  <2>8. d[i].name \in Nat /\ Rank(d[i].name, new) = d[i].name - 1
    BY <1>1, <2>5, <2>7 DEF Engine
  <2> QED
    BY <1>2, <1>4, <2>7, <2>8
<1> QED
  BY <1>2, <1>3, <1>4

LEMMA StreamStep ==
  ASSUME TypeInv, Quiet, canRx # <<>>, Head(canRx).kind = "rest", receiving,
         streamComplete(Head(canRx).of), canRx' = Tail(canRx), pc' # "setup",
         UNCHANGED <<ed, protocol, console, env, sending>>
  PROVE  Quiet'
<1> DEFINE p == Head(canRx).of
           d == TableAfter(p)
           rest == Unanswered(Tail(canRx), requests, sending)
<1>1. p \in Req
  BY FrameTypes DEF TypeInv
<1>2. /\ p \in Pending /\ rest \subseteq Pending /\ \A r \in rest : Apart(p, r)
      /\ AllApart(Tail(canRx), requests, sending)
      /\ Tail(canRx) \in Seq(CanFrame)
  BY HeadHandled DEF TypeInv, Pending, Quiet
<1>3. Entries(d, rest) /\ consumer.kind \in DbKind
  BY <1>1, <1>2, StreamCompletes, EntriesAfter
<1>4. ~Repeats'
  BY DEF Quiet, RepeatInv, Repeats
<1>5. d \in [Index -> Entry]
  BY <1>1, TableAfterType
<1>6. /\ protocol' \in {"UNKNOWN", env'.protocol}
      /\ \A i \in DOMAIN canRx' : canRx'[i].kind = "ping" => canRx'[i].protocol = env'.protocol
  <2>1. \A i \in DOMAIN canRx' : i + 1 \in DOMAIN canRx /\ canRx'[i] = canRx[i + 1]
    BY DEF TypeInv
  <2> QED
    BY <2>1 DEF Quiet, ProtocolInv
<1>7. ASSUME Pending' \subseteq rest \cup {consumer'} \cup NoList,
             db' = d, consumer'.kind = "list" => ListInv' /\ env.protocol = "LOKNAMEN",
             Entries(d, {consumer'}),
             consumer'.kind = "lokliste" => consumer' = consumer,
             AllApart(canRx, requests, sending)'
      PROVE  Quiet'
  <2>1. ProtocolInv'
    <3>1. ASSUME NEW r \in Pending' \cup {consumer'}
          PROVE /\ r.kind = "list" => env.protocol = "LOKNAMEN"
                /\ r.kind = "lokliste" => env.protocol = "LOKLISTE"
      BY <1>2, <1>7 DEF Quiet, ProtocolInv, NoList
    <3> QED
      BY <1>6, <3>1 DEF ProtocolInv
  <2>2. Entries(db, Pending)'
    BY <1>3, <1>7 DEF Entries, NoList
  <2>3. ListInv'
    BY <1>7 DEF ListInv
  <2> QED
    BY <1>4, <1>7, <2>1, <2>2, <2>3 DEF Quiet, RepeatInv
<1>7a. ASSUME NEW r \in Req, \A q \in rest : Apart(r, q), requests' = Append(requests, r)
       PROVE  Pending' = rest \cup {r} /\ AllApart(canRx, requests, sending)'
  <2> DEFINE t == Tail(canRx)
  <2>0. /\ t \in Seq(CanFrame) /\ requests \in Seq(Req) /\ sending \in Req \cup {NoStream}
        /\ AllApart(t, requests, sending)
        /\ \A q \in Unanswered(t, requests, sending) : Apart(r, q)
    BY <1>2, <1>7a DEF TypeInv
  <2> HIDE DEF t
  <2>1. /\ Unanswered(t, Append(requests, r), sending) = Unanswered(t, requests, sending) \cup {r}
        /\ AllApart(t, Append(requests, r), sending)
    BY <2>0, RequestSent
  <2> QED
    BY <1>7a, <2>1 DEF Pending, t
<1>8. CASE fetchNextEngine(d) /\ Incomplete(d) # {}
  <2> DEFINE i == Least(Incomplete(d))
             r == Request("loco", d[i].name)
  <2>1. consumer' = Request("loco", i) /\ requests' = Append(requests, r) /\ db' = d
    BY <1>8 DEF fetchNextEngine, Ask
  <2>2. requests' \in Seq(Req)
    BY <1>5, <1>8, FetchNextType
  <2>3. r \in Req /\ r.kind = "loco"
    <3>1. r = requests'[Len(requests) + 1] /\ Len(requests) + 1 \in 1..Len(requests')
      BY <2>1 DEF TypeInv
    <3> QED
      BY <2>2, <3>1 DEF Request
  <2>4. \A q : Apart(r, q)
    BY <2>3 DEF Apart
  <2>5. Pending' = rest \cup {r} /\ AllApart(canRx, requests, sending)'
    BY <1>7a, <2>1, <2>3, <2>4
  <2>6. Entries(d, {consumer'}) /\ consumer'.kind = "loco"
    BY <1>3, <2>1 DEF Entries, Request
  <2> QED
    BY <1>7, <2>1, <2>3, <2>5, <2>6 DEF NoList
<1>9. CASE fetchNextEngine(d) /\ Incomplete(d) = {}
  <2>1. db' = d /\ UNCHANGED <<consumer, requests>>
    BY <1>9 DEF fetchNextEngine
  <2>2. Pending' = rest /\ AllApart(canRx, requests, sending)'
    BY <1>2, <2>1 DEF Pending
  <2>3. ASSUME consumer.kind = "list" PROVE ListInv' /\ env.protocol = "LOKNAMEN" /\ Entries(d, {consumer})
    <3>1. ASSUME NEW i \in Index PROVE d[i] = db[i]
      <4>1. CASE d[i].full = None /\ p.at < d[i].name
        <5>1. d[i].name # None
          BY <1>1, <1>5, <4>1 DEF Req, Entry, Engine, None
        <5> QED
          BY <1>9, <4>1, <5>1 DEF Incomplete
      <4> QED
        BY <1>1, <1>2, <2>3, <4>1, PageStored
    <3>2. ListInv'
      BY <1>2, <2>1, <2>2, <3>1 DEF ListInv, Quiet
    <3>3. \A i \in Index : d[i].name <= consumer.at
      BY <2>3, <3>1 DEF Quiet, ListInv
    <3> QED
      BY <1>3, <2>3, <3>2, <3>3 DEF Quiet, ProtocolInv, Entries
  <2>4. consumer.kind # "list" => Entries(d, {consumer})
    BY <1>3 DEF Entries
  <2> QED
    BY <1>7, <2>1, <2>2, <2>3, <2>4
<1>10. CASE ~fetchNextEngine(d)
  <2> DEFINE next == consumer.at + Page
             r == Request("list", next)
  <2>1. /\ consumer.kind = "list" /\ db' = d
        /\ consumer' = r /\ requests' = Append(requests, r)
        /\ ListComplete(p)
    BY <1>10, StreamCompletes DEF fetchEnginesFromOffset, Ask, streamComplete
  <2>2. next \in Nat /\ next > 0 /\ next >= Page /\ consumer.at \in Nat /\ Page \in Nat
    BY SizeAssumption DEF TypeInv
  <2>3. p.kind = "list"
    <3>1. next < Total(p)
      BY <1>10, <2>1 DEF ListComplete, TableAfter, NewEntries
    <3> QED
      BY <2>2, <3>1 DEF Total
  <2>4. env.protocol = "LOKNAMEN" /\ \A q \in rest : q.kind = "list" => q.at <= consumer.at
    BY <1>2, <2>1 DEF Quiet, ProtocolInv, ListInv
  <2>5. r \in Req /\ r.kind = "list" /\ r.at = next
    BY <2>2 DEF Request, Req, DbKind
  <2>6. \A q \in rest : q.kind = "list" => q.at \in Nat
    BY <1>2, PendingType DEF Req, NoStream
  <2>7. \A q \in rest : Apart(r, q)
    BY <2>2, <2>4, <2>5, <2>6 DEF Apart
  <2>8. Pending' = rest \cup {r} /\ AllApart(canRx, requests, sending)'
    BY <1>7a, <2>1, <2>5, <2>7
  <2>9. \A i \in Index : d[i].name <= next
    BY <1>1, <1>2, <2>1, PageStored
  <2>10. Entries(d, {consumer'})
    BY <1>3, <2>1, <2>5, <2>9 DEF Entries
  <2>11. \A i \in Index : i < Page /\ i < NumEngines => d[i].name = i + 1
    BY <1>1, <1>2, <2>1, <2>3, FirstPageStored
  <2>12. \A q \in Pending' : q.kind = "list" => q.at <= next
    BY <2>2, <2>4, <2>5, <2>6, <2>8
  <2>13. ListInv'
    <3> HIDE DEF d, next
    <3> QED
      BY <2>1, <2>2, <2>5, <2>9, <2>11, <2>12 DEF ListInv
  <2> QED
    BY <1>7, <2>1, <2>4, <2>5, <2>8, <2>10, <2>13
<1> QED
  BY <1>8, <1>9, <1>10

LEMMA HandleFrameStep == ASSUME TypeInv, Quiet, HandleFrame PROVE Quiet'
<1>1. /\ canRx # <<>> /\ canRx' = Tail(canRx) /\ Head(canRx) \in CanFrame
      /\ pc = "can" /\ UNCHANGED <<pc, console, env, sending>>
  BY DEF HandleFrame, conVars, TypeInv
<1>2. ASSUME UNCHANGED <<db, consumer, requests>>, protocol' \in {"UNKNOWN", env.protocol},
             Repeats' => Repeats /\ UNCHANGED receiving
      PROVE  Quiet'
  <2>1. Pending' \subseteq Pending /\ AllApart(canRx, requests, sending)'
    BY <1>1, <1>2, HeadHandled DEF Pending, TypeInv, Quiet
  <2>2. \A i \in DOMAIN canRx' : canRx'[i].kind = "ping" => canRx'[i].protocol = env.protocol
    <3>1. \A i \in DOMAIN canRx' : i + 1 \in DOMAIN canRx /\ canRx'[i] = canRx[i + 1]
      BY <1>1 DEF TypeInv
    <3> QED
      BY <3>1 DEF Quiet, ProtocolInv
  <2>3. Repeats' => Repeats /\ receiving' = FALSE
    BY <1>2 DEF Quiet, RepeatInv
  <2> QED
    BY <1>1, <1>2, <2>1, <2>2, <2>3, QuietKept
<1>3. CASE StatusReceived
  BY <1>1, <1>2, <1>3 DEF StatusReceived, dbVars, rrVars, Repeats, Quiet, ProtocolInv
<1>4. CASE Head(canRx).kind = "ping" /\ PingReceived
  <2>1. Head(canRx).protocol = env.protocol
    <3>1. 1 \in DOMAIN canRx /\ Head(canRx) = canRx[1]
      BY <1>1 DEF TypeInv
    <3> QED
      BY <1>4, <3>1 DEF Quiet, ProtocolInv
  <2> QED
    BY <1>1, <1>2, <1>4, <2>1 DEF PingReceived, rrVars, Repeats
<1>5. CASE StreamStarts
  <2>1. ~Repeats'
    BY <1>1, <1>5 DEF StreamStarts, Repeats, TypeInv, EdRecord
  <2> QED
    BY <1>2, <1>5, <2>1 DEF StreamStarts, Quiet, ProtocolInv
<1>6. CASE Head(canRx).kind = "rest" /\ StreamEnds
  <2>1. CASE expecting /\ receiving /\ streamComplete(Head(canRx).of)
    BY <1>1, <1>6, <2>1, StreamStep DEF StreamEnds
  <2>2. CASE UNCHANGED <<dbState, db, rrVars, download, timerQ, requests>>
    BY <1>1, <1>2, <1>6, <2>2 DEF StreamEnds, rrVars, Repeats, Quiet, ProtocolInv
  <2> QED
    BY <1>6, <2>1, <2>2 DEF StreamEnds
<1> QED
  BY <1>3, <1>4, <1>5, <1>6 DEF HandleFrame

LEMMA DownloadLoopStep == ASSUME TypeInv, Quiet, DownloadLoop PROVE Quiet'
<1>1. pc = "download" /\ pc' = "blocked" /\ UNCHANGED <<console, canRx, env, sending>>
  BY DEF DownloadLoop, conVars
<1>2. CASE ed.expired /\ LoopProtocol
  BY <1>1, <1>2, NothingSent DEF LoopProtocol, dbVars, rrVars, Repeats
<1>3. CASE ed.expired /\ LoopRequest
  <2>1. CASE UNCHANGED <<dbVars, requests>>
    BY <1>1, <1>3, <2>1, NothingSent DEF LoopRequest, dbVars, rrVars, Repeats
  <2>2. CASE fetchEngineDB
    <3>1. Repeats /\ RepeatInv /\ db' = db /\ UNCHANGED protocol
      BY <1>3, <2>2 DEF LoopRequest, dbVars, Repeats, fetchEngineDB, Quiet, RepeatInv
    <3>2. CASE UNCHANGED <<consumer, receiving, requests>>
      BY <1>1, <3>1, <3>2, NothingSent
    <3>3. ASSUME NEW k \in {"list", "lokliste"}, Ask(Request(k, 0), Request(k, 0)),
                 k = "list" => protocol = "LOKNAMEN", k = "lokliste" => protocol = "LOKLISTE"
          PROVE  Quiet'
      <4> DEFINE r == Request(k, 0)
      <4>1. /\ r \in Req /\ r.kind = k /\ r.at = 0
            /\ consumer' = r /\ receiving' = FALSE /\ requests' = Append(requests, r)
        BY <3>3 DEF Request, Req, DbKind, Ask
      <4>2. \A p \in Pending : p.kind = "list" => p.at = 0
        BY <3>1 DEF RepeatInv
      <4>3. \A p \in Pending : Apart(r, p)
        BY <4>1, <4>2 DEF Apart
      <4>4. Pending' = Pending \cup {r} /\ AllApart(canRx, requests, sending)'
        BY <1>1, <4>1, <4>3, RequestSent DEF Pending, TypeInv, Quiet
      <4>5. env.protocol = protocol
        BY <3>3 DEF Quiet, ProtocolInv
      <4> HIDE DEF r
      <4>6. ProtocolInv'
        BY <1>1, <3>1, <3>3, <4>1, <4>4, <4>5 DEF Quiet, ProtocolInv
      <4>7. \A p \in Pending' : p.kind = "list" => p.at = 0
        BY <4>1, <4>2, <4>4
      <4>8. RepeatInv'
        BY <3>1, <4>1, <4>7 DEF RepeatInv
      <4>9. Entries(db, Pending)'
        BY <1>1, <3>1, <4>7 DEF Entries, Quiet
      <4>10. \A i \in Index : db'[i].name = 0
        BY <3>1 DEF RepeatInv, Free, None
      <4>11. ListInv'
        BY <4>1, <4>7, <4>10 DEF ListInv
      <4> QED
        BY <1>1, <4>4, <4>6, <4>8, <4>9, <4>11 DEF Quiet
    <3> QED
      BY <2>2, <3>2, <3>3 DEF fetchEngineDB, fetchEnginesFromOffset
  <2> QED
    BY <1>3, <2>1, <2>2 DEF LoopRequest
<1>4. CASE /\ ~ed.expired \/ ed.state \in {"IDLE", "DOWNLOADING"}
           /\ ed' = [ed EXCEPT !.expired = FALSE]
           /\ UNCHANGED <<notified, dbVars, download, timerQ, requests>>
  <2>1. ed'.state = ed.state
    BY <1>4 DEF TypeInv, EdRecord
  <2> QED
    BY <1>1, <1>4, <2>1, NothingSent DEF dbVars, rrVars, Repeats
<1> QED
  BY <1>2, <1>3, <1>4 DEF DownloadLoop

\* A command at the console ends the quiet.
LEMMA TypedStep == Inv /\ [Next]_vars => UNCHANGED env /\ (typed' = 0 => typed = 0 /\ ~ConsoleTask)
<1> SUFFICES ASSUME Inv, [Next]_vars PROVE UNCHANGED env /\ (typed' = 0 => typed = 0 /\ ~ConsoleTask)
  OBVIOUS
<1>1. CASE ~ConsoleTask
  BY <1>1 DEF Next, RoutingTask, Can, setup, Wake, HandleFrame, CanDone, StopGoLoop, NotifyComplete,
     DownloadLoop, TimerCommand, StopGoExpires, CanDbExpires, Answer, AnswerRest, PowerSwitched,
     vars, conVars, busVars
<1>2. CASE ConsoleTask
  <2>1. typed \in Nat /\ (typed = 0 => console = "idle")
    BY DEF TypeInv, Inv, Quiet
  <2>2. CASE TypeDownload \/ \E p \in {"UNKNOWN", "LOKNAMEN", "LOKLISTE"} : TypeProtocol(p)
    <3>1. typed' = typed + 1 /\ UNCHANGED env
      BY <2>2 DEF TypeDownload, TypeProtocol, busVars
    <3> QED
      BY <2>1, <3>1
  <2>3. CASE ConsoleClear \/ ConsoleParser \/ ConsoleRequest
    BY <2>1, <2>3 DEF ConsoleClear, ConsoleParser, ConsoleRequest, busVars
  <2> QED
    BY <1>2, <2>2, <2>3 DEF ConsoleTask
<1> QED
  BY <1>1, <1>2

LEMMA StepInv == Inv /\ [Next]_vars => Inv'
<1> SUFFICES ASSUME Inv, [Next]_vars PROVE Inv'
  OBVIOUS
<1>1. TypeInv /\ TypeInv'
  BY TypeStep DEF Inv
<1>2. ASSUME typed' = 0 PROVE Quiet'
  <2>1. typed = 0 /\ ~ConsoleTask /\ Quiet
    BY <1>2, TypedStep DEF Inv
  <2> QED
    BY <1>1, <1>2, <2>1, SetupStep, HandleFrameStep, StopGoLoopStep, DownloadLoopStep, IdleStep,
       AnswerStep, AnswerRestStep, PowerSwitchedStep
    DEF Next, RoutingTask, Can
<1> QED
  BY <1>1, <1>2 DEF Inv

\* However late the answers are and however often a request was repeated, no
\* engine is in the database twice: setEngineName() is never reached with a name
\* that hasEngine() does not find although it is there.
THEOREM NeverTwice == Spec => []NoEngineTwice
<1>1. Inv => NoEngineTwice
  BY DEF Inv, Quiet, Entries, NoEngineTwice
<1> QED
  BY <1>1, InitInv, StepInv, PTL DEF Spec

-----------------------------------------------------------------------------
(***************************************************************************)
(* A complete database is whole, if the central answers in time and nobody *)
(* is at the console.                                                      *)
(***************************************************************************)
\* There is one request of the engine database at a time.
Asked(q) == {i \in DOMAIN q : q[i].kind \in DbKind}
OneAsked(rx, q, s) ==
  /\ \A i, j \in Asked(q) : i = j
  /\ \A i, j \in Rests(rx) : i = j
  /\ Asked(q) # {} => Rests(rx) = {} /\ s = NoStream
  /\ Rests(rx) # {} => s = NoStream
  /\ s # NoStream => s.kind \in DbKind
  /\ \A j \in Rests(rx) : rx[j].of.kind \in DbKind
NoneAsked == \A p \in Pending : p.kind \notin DbKind

LEMMA OneHandled ==
  ASSUME NEW rx \in Seq(CanFrame), rx # <<>>, NEW q \in Seq(Req), NEW s \in Req \cup {NoStream},
         OneAsked(rx, q, s)
  PROVE  /\ OneAsked(Tail(rx), q, s)
         /\ Head(rx).kind = "rest" =>
              /\ Head(rx).of.kind \in DbKind
              /\ \A p \in Unanswered(Tail(rx), q, s) : p.kind \notin DbKind
<1> DEFINE t == Tail(rx)
<1>1. /\ DOMAIN t = 1..(Len(rx) - 1) /\ DOMAIN rx = 1..Len(rx) /\ Len(rx) \in Nat /\ Len(rx) > 0
      /\ \A i \in DOMAIN t : t[i] = rx[i + 1]
      /\ Head(rx) = rx[1]
  OBVIOUS
<1> HIDE DEF t
<1>2. \A i \in Rests(t) : i + 1 \in Rests(rx) /\ t[i] = rx[i + 1] /\ i + 1 # 1 /\ i \in Nat
  <2> SUFFICES ASSUME NEW i \in Rests(t)
               PROVE  i + 1 \in Rests(rx) /\ t[i] = rx[i + 1] /\ i + 1 # 1 /\ i \in Nat
    OBVIOUS
  <2>1. i \in DOMAIN t /\ t[i].kind = "rest"
    BY DEF Rests
  <2>2. i \in 1..(Len(rx) - 1) /\ t[i] = rx[i + 1] /\ i + 1 \in 1..Len(rx)
    BY <1>1, <2>1
  <2> QED
    BY <1>1, <2>1, <2>2 DEF Rests
<1>3. Head(rx).kind = "rest" => 1 \in Rests(rx)
  BY <1>1 DEF Rests
<1>4. OneAsked(t, q, s)
  <2>1. \A i, j \in Rests(t) : i = j
    <3> SUFFICES ASSUME NEW i \in Rests(t), NEW j \in Rests(t) PROVE i = j
      OBVIOUS
    <3>1. i + 1 = j + 1 /\ i \in Nat /\ j \in Nat
      BY <1>2 DEF OneAsked
    <3> QED
      BY <3>1
  <2>2. Rests(rx) = {} => Rests(t) = {}
    BY <1>2
  <2>3. \A j \in Rests(t) : t[j].of.kind \in DbKind
    BY <1>2 DEF OneAsked
  <2>4. Asked(q) # {} => Rests(t) = {} /\ s = NoStream
    BY <2>2 DEF OneAsked
  <2>5. Rests(t) # {} => s = NoStream
    BY <2>2 DEF OneAsked
  <2> QED
    BY <2>1, <2>3, <2>4, <2>5 DEF OneAsked
<1>5. ASSUME Head(rx).kind = "rest"
      PROVE  /\ Head(rx).of.kind \in DbKind
             /\ \A p \in Unanswered(t, q, s) : p.kind \notin DbKind
  <2>1. 1 \in Rests(rx)
    BY <1>3, <1>5
  <2>2. Rests(t) = {}
    BY <1>2, <2>1 DEF OneAsked
  <2>3. Asked(q) = {} /\ s = NoStream
    BY <2>1 DEF OneAsked
  <2>4. \A i \in DOMAIN q : q[i].kind \notin DbKind
    BY <2>3 DEF Asked
  <2>5. NoStream.kind \notin DbKind
    BY DEF NoStream, DbKind
  <2>6. \A p \in Unanswered(t, q, s) : p.kind \notin DbKind
    BY <2>2, <2>3, <2>4, <2>5 DEF Unanswered
  <2> QED
    BY <1>1, <2>1, <2>6 DEF OneAsked
<1> QED
  BY <1>4, <1>5 DEF t

LEMMA OneSent ==
  ASSUME NEW rx \in Seq(CanFrame), NEW q \in Seq(Req), NEW s \in Req \cup {NoStream}, NEW r \in Req,
         OneAsked(rx, q, s),
         r.kind \in DbKind => \A p \in Unanswered(rx, q, s) : p.kind \notin DbKind
  PROVE  OneAsked(rx, Append(q, r), s)
<1>1. /\ DOMAIN Append(q, r) = DOMAIN q \cup {Len(q) + 1} /\ Len(q) + 1 \notin DOMAIN q
      /\ \A i \in DOMAIN q : Append(q, r)[i] = q[i]
      /\ Append(q, r)[Len(q) + 1] = r
  OBVIOUS
<1>2. CASE r.kind \notin DbKind
  <2>1. Asked(Append(q, r)) = Asked(q)
    BY <1>1, <1>2 DEF Asked
  <2> QED
    BY <2>1 DEF OneAsked
<1>3. CASE r.kind \in DbKind
  <2>1. \A p \in Unanswered(rx, q, s) : p.kind \notin DbKind
    BY <1>3
  <2>2. \A i \in DOMAIN q : q[i].kind \notin DbKind
    BY <2>1 DEF Unanswered
  <2>3. Asked(Append(q, r)) = {Len(q) + 1}
    BY <1>1, <1>3, <2>2 DEF Asked
  <2>4. Rests(rx) = {}
    BY <2>1 DEF OneAsked, Unanswered
  <2>5. s = NoStream
    BY <2>1 DEF OneAsked, Unanswered
  <2> QED
    BY <2>3, <2>4, <2>5 DEF OneAsked
<1> QED
  BY <1>2, <1>3

LEMMA OneFrame ==
  ASSUME NEW rx \in Seq(CanFrame), NEW q, NEW s, NEW f \in CanFrame, f.kind # "rest",
         OneAsked(rx, q, s)
  PROVE  OneAsked(Append(rx, f), q, s)
BY FrameReceived DEF OneAsked

LEMMA OneTaken ==
  ASSUME NEW rx \in Seq(CanFrame), NEW q \in Seq(Req), q # <<>>, NEW s \in {Head(q), NoStream},
         OneAsked(rx, q, NoStream), s = Head(q) => s.kind \in DbKind
  PROVE  OneAsked(rx, Tail(q), s)
<1> DEFINE t == Tail(q)
<1>1. /\ DOMAIN t = 1..(Len(q) - 1) /\ DOMAIN q = 1..Len(q) /\ Len(q) \in Nat /\ Len(q) > 0
      /\ \A i \in DOMAIN t : t[i] = q[i + 1]
      /\ Head(q) = q[1]
  OBVIOUS
<1> HIDE DEF t
<1>2. \A i \in Asked(t) : i + 1 \in Asked(q) /\ i + 1 # 1 /\ i \in Nat
  <2> SUFFICES ASSUME NEW i \in Asked(t) PROVE i + 1 \in Asked(q) /\ i + 1 # 1 /\ i \in Nat
    OBVIOUS
  <2>1. i \in DOMAIN t /\ t[i].kind \in DbKind
    BY DEF Asked
  <2>2. i \in 1..(Len(q) - 1) /\ t[i] = q[i + 1] /\ i + 1 \in 1..Len(q)
    BY <1>1, <2>1
  <2> QED
    BY <1>1, <2>1, <2>2 DEF Asked
<1>3. \A i, j \in Asked(t) : i = j
  <2> SUFFICES ASSUME NEW i \in Asked(t), NEW j \in Asked(t) PROVE i = j
    OBVIOUS
  <2>1. i + 1 = j + 1 /\ i \in Nat /\ j \in Nat
    BY <1>2 DEF OneAsked
  <2> QED
    BY <2>1
<1>4. Asked(t) # {} => Rests(rx) = {}
  BY <1>2 DEF OneAsked
<1>5. CASE s = NoStream
  BY <1>3, <1>4, <1>5 DEF OneAsked, t
<1>6. CASE s = Head(q)
  <2>1. 1 \in Asked(q)
    BY <1>1, <1>6 DEF Asked
  <2>2. Asked(t) = {} /\ Rests(rx) = {}
    BY <1>2, <2>1 DEF OneAsked
  <2> QED
    BY <1>6, <2>2 DEF OneAsked, t
<1> QED
  BY <1>5, <1>6

LEMMA OneStream ==
  ASSUME NEW rx \in Seq(CanFrame), NEW q \in Seq(Req), NEW s \in Req, s # NoStream,
         OneAsked(rx, q, s)
  PROVE  OneAsked(Append(rx, [kind |-> "rest", of |-> s]), q, NoStream)
<1> DEFINE f == [kind |-> "rest", of |-> s]
           rx2 == Append(rx, f)
<1>1. /\ DOMAIN rx2 = DOMAIN rx \cup {Len(rx) + 1}
      /\ \A i \in DOMAIN rx : rx2[i] = rx[i]
      /\ rx2[Len(rx) + 1] = f
  OBVIOUS
<1> HIDE DEF rx2
<1>2. Rests(rx) = {} /\ Asked(q) = {} /\ s.kind \in DbKind
  BY DEF OneAsked
<1>3. Rests(rx2) = {Len(rx) + 1}
  BY <1>1, <1>2 DEF Rests
<1> QED
  BY <1>1, <1>2, <1>3 DEF OneAsked, rx2

-----------------------------------------------------------------------------
Named(i) == IF i < NumEngines THEN i + 1 ELSE None

\* The request under way is the one that the consumer waits for.
Answers(p) ==
  /\ p.kind = consumer.kind
  /\ p.kind = "list" => p.at = consumer.at
  /\ p.kind = "loco" => consumer.at \in Index /\ p.at = db[consumer.at].name

\* The table holds the engines of the pages that were read, in their order, and
\* then all of them; each has its own details or none yet.
ShapeInv ==
  /\ consumer.kind = "list" =>
       \A i \in Index : db[i] = IF i < consumer.at /\ i < NumEngines
                                THEN [name |-> i + 1, full |-> None] ELSE Free
  /\ consumer.kind \in {"none", "lokliste"} => db = [i \in Index |-> Free]
  /\ consumer.kind = "loco" =>
       \A i \in Index : db[i].name = Named(i) /\ db[i].full \in {None, db[i].name}
  /\ dbState = "COMPLETE" => \A i \in Index : db[i].name = Named(i) /\ db[i].full = db[i].name

Whole ==
  /\ OneAsked(canRx, requests, sending)
  /\ \A p \in Pending : p.kind \in DbKind => Answers(p)
  /\ ed.state = "REQUESTING" /\ ed.expired => NoneAsked
  /\ ShapeInv

NotifiedInv ==
  /\ canRx # <<>> => notified \/ pc = "can"
  /\ late \in Nat

WholeInv == NotifiedInv /\ (typed = 0 /\ env.late = 0 => Whole)

NoDb == {p \in Req \cup {NoStream} : p.kind \notin DbKind}

LEMMA NoStreamIsNoDb == NoStream \in NoDb
BY DEF NoDb, NoStream, DbKind

LEMMA WholeKept ==
  ASSUME Whole, UNCHANGED <<db, dbState, consumer>>,
         OneAsked(canRx, requests, sending)',
         Pending' \subseteq Pending \cup NoDb,
         ed'.state = "REQUESTING" /\ ed'.expired => (ed.state = "REQUESTING" /\ ed.expired) \/ NoneAsked
  PROVE  Whole'
<1>1. \A p \in Pending' : p.kind \in DbKind => p \in Pending
  BY DEF NoDb
<1>2. \A p \in Pending' : p.kind \in DbKind => Answers(p)'
  BY <1>1 DEF Whole, Answers
<1>3. ed'.state = "REQUESTING" /\ ed'.expired => NoneAsked'
  BY <1>1 DEF Whole, NoneAsked
<1>4. ShapeInv'
  BY DEF Whole, ShapeInv
<1> QED
  BY <1>2, <1>3, <1>4 DEF Whole

LEMMA WholeNothingSent ==
  ASSUME Whole, UNCHANGED <<db, dbState, consumer, canRx, requests, sending>>,
         ed'.state = "REQUESTING" /\ ed'.expired => (ed.state = "REQUESTING" /\ ed.expired) \/ NoneAsked
  PROVE  Whole'
<1>1. Pending' = Pending /\ OneAsked(canRx, requests, sending)'
  BY DEF Pending, Whole
<1> QED
  BY <1>1, WholeKept

LEMMA WholeOtherSent ==
  ASSUME TypeInv, Whole, NEW r \in Req, r.kind \notin DbKind,
         requests' = Append(requests, r),
         UNCHANGED <<db, dbState, consumer, canRx, sending>>,
         ed'.state = "REQUESTING" /\ ed'.expired => (ed.state = "REQUESTING" /\ ed.expired) \/ NoneAsked
  PROVE  Whole'
<1>1. Pending' = Pending \cup {r} /\ OneAsked(canRx, requests, sending)'
  BY RequestSent, OneSent DEF Pending, TypeInv, Whole
<1>2. r \in NoDb
  BY DEF NoDb
<1> QED
  BY <1>1, <1>2, WholeKept

LEMMA WholeCan ==
  ASSUME TypeInv, TypeInv', Whole, Can
  PROVE  Whole'
<1>0. UNCHANGED <<db, dbState, consumer, ed>>
  BY DEF Can, Answer, AnswerRest, PowerSwitched, dbVars, rrVars
<1>1. CASE Answer
  <2>1. /\ requests # <<>> /\ sending = NoStream /\ sending' \in {Head(requests), NoStream}
        /\ requests' = Tail(requests) /\ Head(requests) \in Req
        /\ sending' = Head(requests) => sending'.kind \in DbKind
    <3>1. Head(requests) \in Req
      BY <1>1 DEF Answer, TypeInv
    <3>2. Head(requests) = NoStream => FALSE
      BY <3>1 DEF Req, NoStream, DbKind
    <3> QED
      BY <1>1, <3>1, <3>2 DEF Answer, DbKind
  <2>2. /\ Unanswered(canRx, requests', sending') \subseteq Pending
        /\ OneAsked(canRx, requests', sending')
    BY <2>1, RequestTaken, OneTaken DEF TypeInv, Pending, Whole
  <2>3. UNCHANGED canRx \/ \E f \in CanFrame : f.kind # "rest" /\ canRx' = Append(canRx, f)
    BY <1>1, AnswerFrame
  <2>4. Pending' = Unanswered(canRx, requests', sending') /\ OneAsked(canRx', requests', sending')
    <3>1. CASE UNCHANGED canRx
      BY <2>2, <3>1 DEF Pending
    <3>2. ASSUME NEW f \in CanFrame, f.kind # "rest", canRx' = Append(canRx, f)
          PROVE  /\ Pending' = Unanswered(canRx, requests', sending')
                 /\ OneAsked(canRx', requests', sending')
      BY <2>2, <3>2, FrameOnly, OneFrame DEF Pending, TypeInv
    <3> QED
      BY <2>3, <3>1, <3>2
  <2> QED
    BY <1>0, <2>2, <2>4, WholeKept
<1>2. CASE AnswerRest
  <2>1. /\ sending \in Req /\ sending # NoStream /\ sending' = NoStream /\ UNCHANGED requests
        /\ canRx' = Append(canRx, [kind |-> "rest", of |-> sending])
    BY <1>2 DEF AnswerRest, Receive, TypeInv
  <2>2. Pending' \subseteq Pending \cup NoDb /\ OneAsked(canRx, requests, sending)'
    BY <2>1, StreamSent, OneStream, NoStreamIsNoDb DEF TypeInv, Pending, Whole
  <2> QED
    BY <1>0, <2>2, WholeKept
<1>3. CASE PowerSwitched
  <2>1. [kind |-> "go"] \in CanFrame /\ [kind |-> "go"].kind # "rest"
    BY DEF CanFrame
  <2>2. canRx' = Append(canRx, [kind |-> "go"]) /\ UNCHANGED <<requests, sending>>
    BY <1>3 DEF PowerSwitched, Receive
  <2>3. Pending' = Pending /\ OneAsked(canRx, requests, sending)'
    BY <2>1, <2>2, FrameOnly, OneFrame DEF Pending, TypeInv, Whole
  <2> QED
    BY <1>0, <2>3, WholeKept
<1> QED
  BY <1>1, <1>2, <1>3 DEF Can

\* The table after a completed stream.
LEMMA PageAppended ==
  ASSUME TypeInv, Quiet, ShapeInv, consumer.kind = "list",
         NEW p \in Req, p.kind = "list", p.at = consumer.at, p \in Pending,
         NEW i \in Index
  PROVE  TableAfter(p)[i] = IF i < consumer.at + Page /\ i < NumEngines
                            THEN [name |-> i + 1, full |-> None] ELSE Free
<1> DEFINE d == TableAfter(p)
           new == NewEntries(p)
           c == consumer.at
<1>1. d = Stored(new) /\ new \subseteq Engine
  BY NewEntriesFacts DEF TableAfter
<1>2. p.at = c /\ c \in Nat /\ Page \in Nat /\ i \in Nat /\ NumEngines \in Nat
  BY SizeAssumption DEF TypeInv, Index
<1>3. \A j \in Index : db[j].name <= c /\ db[j].name \in Nat
  BY DEF Quiet, ListInv, TypeInv, Entry, Engine, None
<1>4. \A e \in Engine : c < e => ~hasEngine(e)
  <2> SUFFICES ASSUME NEW e \in Engine, c < e, NEW j \in Index, db[j].name = e PROVE FALSE
    BY DEF hasEngine
  <2>1. e \in Nat
    BY DEF Engine
  <2> QED
    BY <1>2, <1>3, <2>1
<1>5. new = {e \in Engine : c < e /\ e <= c + Page}
  BY <1>2, <1>4 DEF NewEntries, Names
<1>6. ASSUME NEW e \in new PROVE Rank(e, new) = e - 1 - c
  <2>1. e \in Nat /\ e >= 1 /\ e <= NumEngines /\ c < e /\ e <= c + Page
    BY <1>5, SizeAssumption DEF Engine
  <2>2. {f \in new : f < e} = (c + 1)..(e - 1)
    BY <1>2, <1>5, <2>1 DEF Engine
  <2>3. Cardinality((c + 1)..(e - 1)) = e - 1 - c
    <3>1. c + 1 \in Int /\ e - 1 \in Int
      BY <1>2, <2>1
    <3>2. Cardinality((c + 1)..(e - 1)) = IF c + 1 > e - 1 THEN 0 ELSE (e - 1) - (c + 1) + 1
      BY <3>1, FS_Interval
    <3> QED
      BY <1>2, <2>1, <3>2
  <2> QED
    BY <2>2, <2>3 DEF Rank
<1>7. CASE c <= i /\ i < c + Page /\ i < NumEngines
  <2>1. i + 1 \in new /\ i = c + Rank(i + 1, new)
    <3>1. i + 1 \in new
      BY <1>2, <1>5, <1>7 DEF Engine
    <3>2. Rank(i + 1, new) = i - c
      BY <1>2, <1>6, <3>1
    <3> QED
      BY <1>2, <3>1, <3>2
  <2>2. d[i].name \in new /\ d[i].full = None /\ i = c + Rank(d[i].name, new)
    BY <1>1, <2>1, StoredType
  <2>3. d[i].name \in Nat /\ Rank(d[i].name, new) = d[i].name - 1 - c
    BY <1>1, <1>6, <2>2 DEF Engine
  <2>4. d[i].name = i + 1
    BY <1>2, <2>2, <2>3
  <2>5. d[i] \in Entry
    BY TableAfterType
  <2>6. d[i] = [name |-> i + 1, full |-> None]
    BY <2>2, <2>4, <2>5 DEF Entry
  <2> QED
    BY <1>2, <1>7, <2>6
<1>8. CASE ~(c <= i /\ i < c + Page /\ i < NumEngines)
  <2>1. \A e \in new : i # c + Rank(e, new)
    <3> SUFFICES ASSUME NEW e \in new, i = c + Rank(e, new) PROVE FALSE
      OBVIOUS
    <3>1. e \in Nat /\ e <= NumEngines /\ c < e /\ e <= c + Page
      BY <1>5, SizeAssumption DEF Engine
    <3>2. i = e - 1
      BY <1>2, <1>6, <3>1
    <3> QED
      BY <1>2, <1>8, <3>1, <3>2
  <2>2. d[i] = db[i]
    BY <1>1, <2>1, StoredType
  <2>3. db[i] = IF i < c /\ i < NumEngines THEN [name |-> i + 1, full |-> None] ELSE Free
    BY DEF ShapeInv
  <2>4. i < c => i < c + Page
    BY <1>2
  <2>5. (i < c + Page /\ i < NumEngines) => i < c
    BY <1>2, <1>8
  <2> QED
    BY <2>2, <2>3, <2>4, <2>5
<1> QED
  BY <1>7, <1>8

\* With all names known the next engine is asked for, or all is there.
LEMMA NextEngine ==
  ASSUME TypeInv, NEW d \in [Index -> Entry], fetchNextEngine(d),
         \A i \in Index : d[i].name = Named(i) /\ d[i].full \in {None, d[i].name}
  PROVE  /\ db' = d
         /\ \/ /\ consumer'.kind = "loco" /\ consumer'.at \in Index /\ dbState' # "COMPLETE"
               /\ \E r \in Req : /\ r.kind = "loco" /\ r.at = d[consumer'.at].name
                                 /\ requests' = Append(requests, r)
            \/ /\ UNCHANGED <<consumer, requests>>
               /\ \A i \in Index : d[i].full = d[i].name
<1>1. CASE Incomplete(d) # {}
  <2> DEFINE i == Least(Incomplete(d))
  <2>1. i \in Incomplete(d)
    <3>1. Incomplete(d) \subseteq Nat
      BY SizeAssumption DEF Incomplete, Index
    <3>2. \E n \in Incomplete(d) : \A m \in Incomplete(d) : n <= m
      BY <1>1, <3>1, LeastNatural
    <3> QED
      BY <3>2 DEF Least
  <2>2. i \in Index /\ d[i].name \in Nat
    BY <2>1, SizeAssumption DEF Incomplete, Entry, Engine, None
  <2>3. db' = d /\ dbState' = "DOWNLOADING" /\ Ask(Request("loco", i), Request("loco", d[i].name))
    BY <1>1 DEF fetchNextEngine
  <2> HIDE DEF i
  <2>4. consumer' = [kind |-> "loco", at |-> i] /\ requests' = Append(requests, Request("loco", d[i].name))
    BY <2>3 DEF Ask, Request
  <2>5. Request("loco", d[i].name) \in Req /\ Request("loco", d[i].name).kind = "loco"
        /\ Request("loco", d[i].name).at = d[i].name
    BY <2>2 DEF Request, Req, DbKind
  <2> QED
    BY <2>2, <2>3, <2>4, <2>5
<1>2. CASE Incomplete(d) = {}
  <2>1. db' = d /\ UNCHANGED <<consumer, requests>>
    BY <1>2 DEF fetchNextEngine
  <2>2. \A i \in Index : d[i].full = d[i].name
    BY <1>2 DEF Incomplete
  <2> QED
    BY <2>1, <2>2
<1> QED
  BY <1>1, <1>2

LEMMA WholeStream ==
  ASSUME TypeInv, Quiet, Whole, canRx # <<>>, Head(canRx).kind = "rest", receiving,
         streamComplete(Head(canRx).of), canRx' = Tail(canRx), UNCHANGED <<ed, sending>>
  PROVE  Whole'
<1> DEFINE p == Head(canRx).of
           d == TableAfter(p)
           t == Tail(canRx)
           rest == Unanswered(t, requests, sending)
<1>1. p \in Req /\ t \in Seq(CanFrame) /\ requests \in Seq(Req) /\ sending \in Req \cup {NoStream}
  BY FrameTypes DEF TypeInv
<1>2. /\ p \in Pending /\ p.kind \in DbKind /\ Answers(p)
      /\ OneAsked(t, requests, sending) /\ \A r \in rest : r.kind \notin DbKind
  BY HeadHandled, OneHandled DEF TypeInv, Pending, Whole
<1>3. ~(ed'.state = "REQUESTING" /\ ed'.expired)
  BY DEF Quiet, RepeatInv, Repeats
<1>4. d \in [Index -> Entry]
  BY <1>1, TableAfterType
<1>5. p.kind = consumer.kind
  BY <1>2 DEF Answers
<1>6. ASSUME NEW r \in Req, requests' = Append(requests, r)
      PROVE  /\ Pending' \subseteq rest \cup {r} /\ OneAsked(canRx, requests, sending)'
  <2> HIDE DEF t
  <2>1. /\ Unanswered(t, Append(requests, r), sending) = rest \cup {r}
        /\ OneAsked(t, Append(requests, r), sending)
    BY <1>1, <1>2, RequestSent, OneSent
  <2> QED
    BY <1>6, <2>1 DEF Pending, t
<1>7. ASSUME fetchNextEngine(d), \A i \in Index : d[i].name = Named(i) /\ d[i].full \in {None, d[i].name},
             consumer.kind = "list" =>
               \A i \in Index : d[i] = IF i < NumEngines THEN [name |-> i + 1, full |-> None] ELSE Free,
             consumer.kind = "lokliste" => \A i \in Index : d[i].full = None
      PROVE  Whole'
  <2>1. db' = d
    BY <1>4, <1>7, NextEngine
  <2>2. CASE /\ consumer'.kind = "loco" /\ consumer'.at \in Index /\ dbState' # "COMPLETE"
             /\ \E r \in Req : /\ r.kind = "loco" /\ r.at = d[consumer'.at].name
                               /\ requests' = Append(requests, r)
    <3>1. PICK r \in Req : /\ r.kind = "loco" /\ r.at = d[consumer'.at].name
                           /\ requests' = Append(requests, r)
      BY <2>2
    <3>2. Pending' \subseteq rest \cup {r} /\ OneAsked(canRx, requests, sending)'
      BY <1>6, <3>1
    <3>3. \A q \in Pending' : q.kind \in DbKind => Answers(q)'
      BY <1>2, <2>1, <2>2, <3>1, <3>2 DEF Answers
    <3>4. ShapeInv'
      BY <1>7, <2>1, <2>2 DEF ShapeInv
    <3> QED
      BY <1>3, <3>2, <3>3, <3>4 DEF Whole
  <2>3. CASE UNCHANGED <<consumer, requests>> /\ \A i \in Index : d[i].full = d[i].name
    <3>1. Pending' = rest /\ OneAsked(canRx, requests, sending)'
      BY <1>2, <2>3 DEF Pending
    <3>2. \A i \in Index : consumer.kind \in {"list", "lokliste"} => d[i] = Free /\ ~(i < NumEngines)
      <4> SUFFICES ASSUME NEW i \in Index, consumer.kind \in {"list", "lokliste"}
                   PROVE  d[i] = Free /\ ~(i < NumEngines)
        OBVIOUS
      <4>1. d[i] \in Entry /\ d[i].full = d[i].name /\ d[i].name = Named(i) /\ i \in Nat
        BY <1>4, <1>7, <2>3, SizeAssumption DEF Index
      <4>2. d[i].full = None
        <5>1. Free.full = None /\ [name |-> i + 1, full |-> None].full = None
          BY DEF Free
        <5>2. d[i] = Free \/ d[i] = [name |-> i + 1, full |-> None] \/ d[i].full = None
          BY <1>7
        <5> QED
          BY <5>1, <5>2
      <4>3. ~(i < NumEngines)
        BY <4>1, <4>2 DEF Named, None
      <4>4. d[i] = [name |-> None, full |-> None]
        BY <4>1, <4>2 DEF Entry
      <4> QED
        BY <4>3, <4>4 DEF Free
    <3>3. consumer.kind = "lokliste" => d = [i \in Index |-> Free]
      BY <1>4, <3>2
    <3>4. ShapeInv'
      BY <1>2, <1>5, <1>7, <2>1, <2>3, <3>2, <3>3 DEF ShapeInv, DbKind
    <3> QED
      BY <1>2, <1>3, <3>1, <3>4 DEF Whole
  <2> QED
    BY <1>4, <1>7, <2>2, <2>3, NextEngine
<1>8. CASE consumer.kind = "list"
  <2>1. p.at = consumer.at /\ p.kind = "list"
    BY <1>2, <1>5, <1>8 DEF Answers
  <2>2. \A i \in Index : d[i] = IF i < consumer.at + Page /\ i < NumEngines
                               THEN [name |-> i + 1, full |-> None] ELSE Free
    BY <1>1, <1>2, <1>8, <2>1, PageAppended DEF Whole
  <2>3. ListComplete(p) /\ Total(p) = NumEngines
    BY <1>8, <2>1 DEF streamComplete, Total
  <2>4. consumer.at \in Nat /\ Page \in Nat /\ Page > 0 /\ NumEngines \in Nat /\ Index \subseteq Nat
    BY SizeAssumption DEF TypeInv, Index
  <2>5. CASE consumer.at + Page >= NumEngines /\ fetchNextEngine(d)
    <3>1. \A i \in Index : d[i] = IF i < NumEngines THEN [name |-> i + 1, full |-> None] ELSE Free
      <4> HIDE DEF d
      <4> QED
        BY <2>2, <2>4, <2>5
    <3>2. \A i \in Index : d[i].name = Named(i) /\ d[i].full \in {None, d[i].name}
      <4> SUFFICES ASSUME NEW i \in Index
                   PROVE  d[i].name = Named(i) /\ d[i].full \in {None, d[i].name}
        OBVIOUS
      <4>1. CASE i < NumEngines
        <5>1. d[i] = [name |-> i + 1, full |-> None]
          BY <3>1, <4>1
        <5> QED
          BY <4>1, <5>1 DEF Named
      <4>2. CASE ~(i < NumEngines)
        <5>1. d[i] = Free
          BY <3>1, <4>2
        <5> QED
          BY <4>2, <5>1 DEF Named, Free
      <4> QED
        BY <4>1, <4>2
    <3> QED
      BY <1>7, <1>8, <2>5, <3>1, <3>2
  <2>6. CASE db' = d /\ fetchEnginesFromOffset(consumer.at + Page)
    <3> DEFINE r == Request("list", consumer.at + Page)
    <3>1. /\ r \in Req /\ r.kind = "list" /\ r.at = consumer.at + Page
          /\ consumer' = r /\ requests' = Append(requests, r) /\ dbState' = "DOWNLOADING"
      BY <2>4, <2>6 DEF fetchEnginesFromOffset, Ask, Request, Req, DbKind
    <3> HIDE DEF r
    <3>2. Pending' \subseteq rest \cup {r} /\ OneAsked(canRx, requests, sending)'
      BY <1>6, <3>1
    <3>3. \A q \in Pending' : q.kind \in DbKind => Answers(q)'
      BY <1>2, <3>1, <3>2 DEF Answers
    <3>4. ShapeInv'
      BY <2>2, <2>6, <3>1 DEF ShapeInv
    <3> QED
      BY <1>3, <3>2, <3>3, <3>4 DEF Whole
  <2> QED
    BY <1>8, <2>3, <2>5, <2>6 DEF ListComplete, TableAfter, NewEntries
<1>9. CASE consumer.kind = "lokliste"
  <2>1. fetchNextEngine(d)
    BY <1>9, StreamCompletes
  <2>2. \A i \in Index : db[i] = Free
    BY <1>9 DEF Whole, ShapeInv
  <2>3. \A i \in Index : i + 1 \in Engine <=> i < NumEngines
    BY SizeAssumption DEF Engine, Index
  <2>4. \A i \in Index : d[i].name = Named(i) /\ d[i].full = None
    BY <1>5, <1>9, <2>2, <2>3 DEF TableAfter, Named, Free
  <2> QED
    BY <1>7, <1>9, <2>1, <2>4
<1>10. CASE consumer.kind = "loco"
  <2>1. fetchNextEngine(d)
    BY <1>10, StreamCompletes
  <2>2. consumer.at \in Index /\ p.at = db[consumer.at].name
    BY <1>2, <1>5, <1>10 DEF Answers
  <2>3. \A i \in Index : db[i].name = Named(i) /\ db[i].full \in {None, db[i].name}
    BY <1>10 DEF Whole, ShapeInv
  <2>4. d = [db EXCEPT ![consumer.at].full = p.at]
    BY <1>5, <1>10 DEF TableAfter
  <2>5. \A i \in Index : d[i].name = Named(i) /\ d[i].full \in {None, d[i].name}
    <3> SUFFICES ASSUME NEW i \in Index PROVE d[i].name = Named(i) /\ d[i].full \in {None, d[i].name}
      OBVIOUS
    <3>1. CASE i = consumer.at
      BY <2>2, <2>3, <2>4, <3>1 DEF TypeInv, Entry
    <3>2. CASE i # consumer.at
      BY <2>3, <2>4, <3>2 DEF TypeInv
    <3> QED
      BY <3>1, <3>2
  <2> QED
    BY <1>7, <1>10, <2>1, <2>5
<1> QED
  BY <1>2, <1>5, <1>8, <1>9, <1>10 DEF DbKind

LEMMA WholeFrame == ASSUME TypeInv, Quiet, Whole, HandleFrame PROVE Whole'
<1>1. /\ canRx # <<>> /\ canRx' = Tail(canRx) /\ UNCHANGED <<pc, sending>>
  BY DEF HandleFrame, conVars
<1>2. ASSUME UNCHANGED <<db, dbState, consumer, requests>>,
             ed'.state = "REQUESTING" /\ ed'.expired => ed.state = "REQUESTING" /\ ed.expired
      PROVE  Whole'
  <2>1. Pending' \subseteq Pending /\ OneAsked(canRx, requests, sending)'
    BY <1>1, <1>2, HeadHandled, OneHandled DEF Pending, TypeInv, Whole
  <2> QED
    BY <1>2, <2>1, WholeKept
<1>3. CASE StatusReceived
  BY <1>2, <1>3 DEF StatusReceived, dbVars, rrVars
<1>4. CASE PingReceived
  BY <1>2, <1>4 DEF PingReceived, rrVars
<1>5. CASE StreamStarts
  <2>1. ed'.state # "REQUESTING"
    BY <1>5 DEF StreamStarts, TypeInv, EdRecord
  <2> QED
    BY <1>2, <1>5, <2>1 DEF StreamStarts
<1>6. CASE Head(canRx).kind = "rest" /\ StreamEnds
  <2>1. CASE expecting /\ receiving /\ streamComplete(Head(canRx).of)
    BY <1>1, <1>6, <2>1, WholeStream DEF StreamEnds
  <2>2. CASE UNCHANGED <<dbState, db, rrVars, download, timerQ, requests>>
    BY <1>2, <1>6, <2>2 DEF StreamEnds, rrVars
  <2> QED
    BY <1>6, <2>1, <2>2 DEF StreamEnds
<1> QED
  BY <1>3, <1>4, <1>5, <1>6 DEF HandleFrame

LEMMA WholeLoop == ASSUME TypeInv, Quiet, Whole, DownloadLoop PROVE Whole'
<1>1. UNCHANGED <<canRx, sending>>
  BY DEF DownloadLoop
<1>2. ed'.state = "REQUESTING" => ed'.expired = FALSE
  <2>1. ed' \in {[ed EXCEPT !.expired = FALSE], [ed EXCEPT !.tries = @ + 1, !.expired = FALSE],
                [ed EXCEPT !.state = "IDLE", !.expired = FALSE],
                [state |-> "REQUESTING", tries |-> 0, expired |-> FALSE]}
    BY DEF DownloadLoop, LoopProtocol, LoopRequest, stopRequesting
  <2>2. DOMAIN ed = {"state", "tries", "expired"}
    BY DEF TypeInv, EdRecord
  <2>3. /\ [ed EXCEPT !.expired = FALSE].expired = FALSE
        /\ [ed EXCEPT !.tries = @ + 1, !.expired = FALSE].expired = FALSE
        /\ [ed EXCEPT !.state = "IDLE", !.expired = FALSE].expired = FALSE
    BY <2>2
  <2>4. [state |-> "REQUESTING", tries |-> 0, expired |-> FALSE].expired = FALSE
    OBVIOUS
  <2> QED
    BY <2>1, <2>3, <2>4, Zenon
<1>3. CASE ed.expired /\ LoopProtocol
  BY <1>1, <1>2, <1>3, WholeNothingSent DEF LoopProtocol, dbVars, rrVars
<1>4. CASE ed.expired /\ LoopRequest
  <2>1. CASE UNCHANGED <<dbVars, requests>>
    BY <1>1, <1>2, <2>1, WholeNothingSent DEF dbVars, rrVars
  <2>2. CASE fetchEngineDB
    <3>1. NoneAsked /\ db' = db /\ db = [i \in Index |-> Free]
      BY <1>4, <2>2 DEF LoopRequest, Whole, fetchEngineDB, Quiet, RepeatInv, Repeats
    <3>2. CASE UNCHANGED <<dbState, consumer, receiving, requests>>
      BY <1>1, <1>2, <3>1, <3>2, WholeNothingSent
    <3>3. ASSUME NEW k \in {"list", "lokliste"}, Ask(Request(k, 0), Request(k, 0)),
                 dbState' = "DOWNLOADING"
          PROVE  Whole'
      <4> DEFINE r == Request(k, 0)
      <4>1. /\ r \in Req /\ r.kind = k /\ r.at = 0
            /\ consumer' = r /\ requests' = Append(requests, r)
        BY <3>3 DEF Request, Req, DbKind, Ask
      <4> HIDE DEF r
      <4>2. Pending' = Pending \cup {r} /\ OneAsked(canRx, requests, sending)'
        BY <1>1, <3>1, <4>1, RequestSent, OneSent DEF NoneAsked, Pending, TypeInv, Whole
      <4>3. \A p \in Pending' : p.kind \in DbKind => Answers(p)'
        BY <3>1, <4>1, <4>2 DEF NoneAsked, Answers
      <4>4. \A i \in Index : ~(i < 0)
        BY SizeAssumption DEF Index
      <4>5. ShapeInv'
        BY <3>1, <3>3, <4>1, <4>4 DEF ShapeInv
      <4> QED
        BY <1>2, <4>2, <4>3, <4>5 DEF Whole
    <3> QED
      BY <2>2, <3>2, <3>3 DEF fetchEngineDB, fetchEnginesFromOffset
  <2> QED
    BY <1>4, <2>1, <2>2 DEF LoopRequest
<1>5. CASE UNCHANGED <<notified, dbVars, download, timerQ, requests>>
  BY <1>1, <1>2, <1>5, WholeNothingSent DEF dbVars, rrVars
<1> QED
  BY <1>3, <1>4, <1>5 DEF DownloadLoop

\* The other steps of the firmware.
LEMMA WholeOther ==
  ASSUME TypeInv, NotifiedInv, Whole, env.late = 0,
         \/ setup \/ Wake \/ CanDone \/ StopGoLoop \/ NotifyComplete
         \/ TimerCommand \/ StopGoExpires \/ CanDbExpires \/ UNCHANGED vars
  PROVE  Whole'
<1>1. CASE setup
  <2>1. Request("ping", 0) \in Req /\ Request("ping", 0).kind \notin DbKind
    BY DEF Request, Req, DbKind
  <2> QED
    BY <1>1, <2>1, WholeOtherSent DEF setup, dbVars, rrVars
<1>2. CASE StopGoLoop
  <2>1. Request("status", 0) \in Req /\ Request("status", 0).kind \notin DbKind
    BY DEF Request, Req, DbKind
  <2>2. UNCHANGED <<db, dbState, consumer, canRx, sending, ed>>
    BY <1>2 DEF StopGoLoop, dbVars, rrVars
  <2>3. UNCHANGED requests \/ requests' = Append(requests, Request("status", 0))
    BY <1>2 DEF StopGoLoop
  <2> QED
    BY <2>1, <2>2, <2>3, WholeOtherSent, WholeNothingSent
<1>3. CASE CanDbExpires
  <2>1. UNCHANGED <<db, dbState, consumer, canRx, requests, sending>>
    BY <1>3 DEF CanDbExpires, dbVars, rrVars
  <2>2. ASSUME ed'.state = "REQUESTING" PROVE NoneAsked
    <3>1. ed.state = "REQUESTING"
      BY <1>3, <2>2 DEF CanDbExpires, TypeInv, EdRecord
    <3>2. InTime /\ canRx = <<>>
      BY <1>3, <3>1 DEF CanDbExpires, Waits, NotifiedInv
    <3>3. requests = <<>> /\ sending = NoStream
      <4>1. ~(late < 0)
        BY DEF NotifiedInv
      <4> QED
        BY <3>2, <4>1 DEF InTime, Answered
    <3>4. Pending = {NoStream}
      BY <3>2, <3>3 DEF Pending, Unanswered, Rests
    <3> QED
      BY <3>4 DEF NoneAsked, NoStream, DbKind
  <2> QED
    BY <2>1, <2>2, WholeNothingSent
<1>4. CASE Wake \/ CanDone \/ NotifyComplete \/ TimerCommand \/ StopGoExpires \/ UNCHANGED vars
  <2>1. UNCHANGED <<db, dbState, consumer, canRx, requests, sending>>
    BY <1>4 DEF Wake, CanDone, NotifyComplete, TimerCommand, StopGoExpires, vars,
         dbVars, rrVars, ledVars, tmVars, conVars, busVars
  <2>2. ed'.state = "REQUESTING" => ed' = ed
    BY <1>4 DEF Wake, CanDone, NotifyComplete, TimerCommand, StopGoExpires, vars, TypeInv, EdRecord
  <2> QED
    BY <2>1, <2>2, WholeNothingSent
<1> QED
  BY <1>1, <1>2, <1>3, <1>4

\* The RoutingTask does not sleep over a frame.
LEMMA NotifiedStep == TypeInv /\ NotifiedInv /\ [Next]_vars => NotifiedInv'
<1> SUFFICES ASSUME TypeInv, NotifiedInv, [Next]_vars PROVE NotifiedInv'
  OBVIOUS
<1>1. CASE setup \/ Wake \/ CanDone \/ StopGoLoop \/ NotifyComplete
  BY <1>1 DEF setup, Wake, CanDone, StopGoLoop, NotifyComplete, NotifiedInv, busVars
<1>2. CASE HandleFrame
  BY <1>2 DEF HandleFrame, NotifiedInv, busVars
<1>3. CASE DownloadLoop
  <2>1. UNCHANGED <<canRx, late>> /\ pc = "download" /\ notified' \in {notified, TRUE}
    BY <1>3 DEF DownloadLoop, LoopProtocol, LoopRequest
  <2> QED
    BY <2>1 DEF NotifiedInv
<1>4. CASE TimerCommand \/ StopGoExpires \/ CanDbExpires
  <2>1. late' \in {late, late + 1}
    BY <1>4 DEF TimerCommand, StopGoExpires, CanDbExpires, InTime, busVars
  <2>2. late' \in Nat
    BY <2>1 DEF NotifiedInv
  <2> QED
    BY <1>4, <2>2 DEF TimerCommand, StopGoExpires, CanDbExpires, NotifiedInv, busVars
<1>5. CASE ConsoleTask
  BY <1>5 DEF ConsoleTask, TypeDownload, ConsoleClear, ConsoleParser, ConsoleRequest, TypeProtocol,
              NotifiedInv, busVars
<1>6. CASE Can
  BY <1>6 DEF Can, Answer, AnswerRest, PowerSwitched, Receive, NotifiedInv
<1>7. CASE UNCHANGED vars
  BY <1>7 DEF vars, busVars, NotifiedInv
<1> QED
  BY <1>1, <1>2, <1>3, <1>4, <1>5, <1>6, <1>7 DEF Next, RoutingTask

LEMMA WholeInit == Init => WholeInv
<1> SUFFICES ASSUME Init PROVE WholeInv
  OBVIOUS
<1>1. Pending = {NoStream}
  BY DEF Init, Pending, Unanswered, Rests
<1>2. OneAsked(canRx, requests, sending)
  BY DEF Init, OneAsked, Asked, Rests
<1> QED
  BY <1>1, <1>2 DEF Init, WholeInv, Whole, NotifiedInv, ShapeInv, NoStream, DbKind

LEMMA WholeStep == Inv /\ WholeInv /\ [Next]_vars => WholeInv'
<1> SUFFICES ASSUME Inv, WholeInv, [Next]_vars PROVE WholeInv'
  OBVIOUS
<1>1. TypeInv /\ TypeInv' /\ NotifiedInv /\ NotifiedInv'
  BY TypeStep, NotifiedStep DEF Inv, WholeInv
<1>2. UNCHANGED env /\ (typed' = 0 => typed = 0 /\ ~ConsoleTask)
  BY TypedStep DEF Inv
<1>3. ASSUME typed' = 0, env.late = 0 PROVE Whole'
  <2>1. typed = 0 /\ ~ConsoleTask /\ Quiet /\ Whole
    BY <1>2, <1>3 DEF Inv, WholeInv
  <2> QED
    BY <1>1, <1>3, <2>1, WholeFrame, WholeLoop, WholeOther, WholeCan DEF Next, RoutingTask
<1> QED
  BY <1>1, <1>2, <1>3 DEF WholeInv

\* With a central that answers in time and nobody at the console, dbState_ is
\* COMPLETE only when each engine of the central's list is in the table once,
\* with the details of its own answer and not of another's.
THEOREM CompleteWhole == Spec => []CompleteIsWhole
<1>1. Inv /\ WholeInv => CompleteIsWhole
  <2> SUFFICES ASSUME Inv, WholeInv, dbState = "COMPLETE", env.late = 0, typed = 0
               PROVE  /\ \A e \in Engine : \E i \in Index : db[i].name = e
                      /\ \A i \in Index : db[i].full = db[i].name
    BY DEF CompleteIsWhole
  <2>1. \A i \in Index : db[i].name = Named(i) /\ db[i].full = db[i].name
    BY DEF WholeInv, Whole, ShapeInv
  <2>2. ASSUME NEW e \in Engine PROVE \E i \in Index : db[i].name = e
    <3>1. e - 1 \in Index /\ e - 1 < NumEngines /\ (e - 1) + 1 = e
      BY SizeAssumption DEF Engine, Index
    <3> QED
      BY <2>1, <3>1 DEF Named
  <2> QED
    BY <2>1, <2>2
<1> QED
  BY <1>1, InitInv, StepInv, WholeInit, WholeStep, PTL DEF Spec
=============================================================================
