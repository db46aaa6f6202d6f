----------------------- MODULE StatelessRoutingProofs -----------------------
(***************************************************************************)
(* Proofs about StatelessRouting, for any scenarios, turnouts and length   *)
(* of the LocoNet queue.                                                   *)
(*                                                                         *)
(* StopInv: a stop of the stop line waits at the line, or is the last      *)
(* power command on the way to both buses (StopReaches).                   *)
(*                                                                         *)
(* ReachInv: what has been sent to a bus begins the history of the bus it  *)
(* came from, and the queues in between carry the rest of this history, in *)
(* its order (EachArrives).                                                *)
(*                                                                         *)
(* LampsInv: the answers that are under way lead the lamps to the          *)
(* positions of the turnouts, and the power-offs that are under way find   *)
(* them as they leave them (LampsAgree).                                   *)
(*                                                                         *)
(* IInv: the indicator follows the central (IndicatorSettles).  Here       *)
(* nothing is needed of the commands, so that the queues are sequences of  *)
(* whatever they hold.                                                     *)
(***************************************************************************)
EXTENDS StatelessRouting, TLAPS

IsSeq(s) == \E S : s \in Seq(S)
IsFrame(f) == f = Frame(f.cmd, f.rail, f.response, f.from)

IsPower(f) == f.cmd.kind \in PowerKinds

\* No power command is in the queue.
NoPower(q) == \A i \in 1..Len(q) : ~IsPower(q[i])

\* The last power command in the queue, if there is one, is p.
EndsWith(q, p) ==
  \A i \in 1..Len(q) :
    IsPower(q[i]) => q[i].cmd.kind = p \/ \E j \in (i + 1)..Len(q) : IsPower(q[j])

-----------------------------------------------------------------------------
(***************************************************************************)
(* Queues.                                                                 *)
(***************************************************************************)
LEMMA Appended ==
  ASSUME NEW q, IsSeq(q), NEW f
  PROVE  /\ IsSeq(Append(q, f))
         /\ Len(q) \in Nat /\ Len(Append(q, f)) = Len(q) + 1
         /\ \A i \in 1..Len(q) : Append(q, f)[i] = q[i]
         /\ Append(q, f)[Len(q) + 1] = f
<1>1. PICK S : q \in Seq(S)
  BY DEF IsSeq
<1> DEFINE T == S \cup {f}
<1>2. q \in Seq(T) /\ f \in T
  <2>1. Len(q) \in Nat /\ \A i \in 1..Len(q) : q[i] \in T
    BY <1>1
  <2>2. q = [i \in 1..Len(q) |-> q[i]]
    BY <1>1
  <2> HIDE DEF T
  <2>3. [i \in 1..Len(q) |-> q[i]] \in Seq(T)
    BY <2>1
  <2> QED
    BY <2>2, <2>3 DEF T
<1> HIDE DEF T
<1>3. Append(q, f) \in Seq(T)
  BY <1>2
<1> QED
  BY <1>2, <1>3 DEF IsSeq

LEMMA Removed ==
  ASSUME NEW q, IsSeq(q), q # <<>>
  PROVE  /\ IsSeq(Tail(q))
         /\ Len(q) \in Nat /\ Len(q) >= 1 /\ Len(Tail(q)) = Len(q) - 1
         /\ Head(q) = q[1]
         /\ \A i \in 1..Len(Tail(q)) : Tail(q)[i] = q[i + 1]
<1>1. PICK S : q \in Seq(S)
  BY DEF IsSeq
<1>2. Tail(q) \in Seq(S)
  BY <1>1
<1> QED
  BY <1>1, <1>2 DEF IsSeq

LEMMA AppendedPower ==
  ASSUME NEW q, IsSeq(q), NEW f
  PROVE  /\ IsPower(f) => ~NoPower(Append(q, f)) /\ EndsWith(Append(q, f), f.cmd.kind)
         /\ ~IsPower(f) => /\ NoPower(Append(q, f)) <=> NoPower(q)
                           /\ \A p : EndsWith(q, p) => EndsWith(Append(q, f), p)
<1> DEFINE r == Append(q, f)
           n == Len(q)
<1>1. /\ n \in Nat /\ Len(r) = n + 1 /\ r[n + 1] = f
      /\ \A i \in 1..n : r[i] = q[i]
  BY Appended
<1> HIDE DEF r, n
<1>2. ASSUME IsPower(f) PROVE ~NoPower(r) /\ EndsWith(r, f.cmd.kind)
  <2>1. n + 1 \in 1..Len(r) /\ IsPower(r[n + 1])
    BY <1>1, <1>2
  <2>2. ~NoPower(r)
    BY <2>1 DEF NoPower
  <2>3. ASSUME NEW i \in 1..Len(r), i # n + 1 PROVE n + 1 \in (i + 1)..Len(r)
    BY <1>1, <2>3
  <2>4. EndsWith(r, f.cmd.kind)
    BY <1>1, <2>1, <2>3 DEF EndsWith
  <2> QED
    BY <2>2, <2>4
<1>3. ASSUME ~IsPower(f) PROVE NoPower(r) <=> NoPower(q)
  BY <1>1, <1>3 DEF NoPower, n
<1>4. ASSUME ~IsPower(f), NEW p, EndsWith(q, p) PROVE EndsWith(r, p)
  <2> SUFFICES ASSUME NEW i \in 1..Len(r), IsPower(r[i])
               PROVE  r[i].cmd.kind = p \/ \E j \in (i + 1)..Len(r) : IsPower(r[j])
    BY DEF EndsWith
  <2>1. i \in 1..n /\ r[i] = q[i]
    BY <1>1, <1>4
  <2>2. CASE q[i].cmd.kind = p
    BY <2>1, <2>2
  <2>3. CASE \E j \in (i + 1)..n : IsPower(q[j])
    BY <1>1, <2>1, <2>3
  <2> QED
    BY <1>4, <2>1, <2>2, <2>3 DEF EndsWith, n
<1> QED
  BY <1>2, <1>3, <1>4 DEF r

LEMMA RemovedPower ==
  ASSUME NEW q, IsSeq(q), q # <<>>
  PROVE  /\ \A p : EndsWith(q, p) => EndsWith(Tail(q), p)
         /\ NoPower(Tail(q)) /\ ~IsPower(Head(q)) => NoPower(q)
         /\ \A p : EndsWith(q, p) /\ NoPower(Tail(q)) /\ IsPower(Head(q)) => Head(q).cmd.kind = p
<1> DEFINE r == Tail(q)
           n == Len(q)
<1>1. /\ n \in Nat /\ n >= 1 /\ Len(r) = n - 1 /\ Head(q) = q[1]
      /\ \A i \in 1..(n - 1) : r[i] = q[i + 1]
  BY Removed
<1>2. \A i \in 2..n : i - 1 \in 1..(n - 1) /\ q[i] = r[i - 1]
  <2> HIDE DEF r, n
  <2> SUFFICES ASSUME NEW i \in 2..n PROVE i - 1 \in 1..(n - 1) /\ q[i] = r[i - 1]
    OBVIOUS
  <2>1. i - 1 \in 1..(n - 1) /\ (i - 1) + 1 = i
    BY <1>1
  <2> QED
    BY <1>1, <2>1
<1> HIDE DEF r, n
<1>3. ASSUME NEW p, EndsWith(q, p) PROVE EndsWith(r, p)
  <2> SUFFICES ASSUME NEW i \in 1..Len(r), IsPower(r[i])
               PROVE  r[i].cmd.kind = p \/ \E j \in (i + 1)..Len(r) : IsPower(r[j])
    BY DEF EndsWith
  <2>1. i + 1 \in 1..n /\ r[i] = q[i + 1]
    BY <1>1
  <2>2. CASE q[i + 1].cmd.kind = p
    BY <2>1, <2>2
  <2>3. CASE \E j \in ((i + 1) + 1)..n : IsPower(q[j])
    <3>1. PICK j \in ((i + 1) + 1)..n : IsPower(q[j])
      BY <2>3
    <3>2. j \in 2..n /\ j - 1 \in (i + 1)..Len(r)
      BY <1>1, <3>1
    <3> QED
      BY <1>2, <3>1, <3>2
  <2> QED
    BY <1>3, <2>1, <2>2, <2>3 DEF EndsWith, n
<1>4. ASSUME NoPower(r), ~IsPower(Head(q)) PROVE NoPower(q)
  <2> SUFFICES ASSUME NEW i \in 1..n PROVE ~IsPower(q[i])
    BY DEF NoPower, n
  <2>1. CASE i = 1
    BY <1>1, <1>4, <2>1
  <2>2. CASE i \in 2..n
    BY <1>1, <1>2, <1>4, <2>2 DEF NoPower
  <2> QED
    BY <1>1, <2>1, <2>2
<1>5. ASSUME NEW p, EndsWith(q, p), NoPower(r), IsPower(Head(q)) PROVE Head(q).cmd.kind = p
  <2>1. 1 \in 1..n /\ IsPower(q[1])
    BY <1>1, <1>5
  <2>2. ~\E j \in (1 + 1)..n : IsPower(q[j])
    BY <1>1, <1>2, <1>5 DEF NoPower
  <2> QED
    BY <1>1, <1>5, <2>1, <2>2 DEF EndsWith, n
<1> QED
  BY <1>3, <1>4, <1>5 DEF r

-----------------------------------------------------------------------------
(***************************************************************************)
(* The indicator.                                                          *)
(***************************************************************************)
QueueInv ==
  /\ IsSeq(canRx) /\ IsSeq(toCentral)
  /\ \A i \in 1..Len(toCentral) : IsFrame(toCentral[i])

\* Once the central has no power command left to handle, its state is that of
\* the last one which the gateway has not seen, or else that of the indicator.
LedInv ==
  NoPower(toCentral) => /\ EndsWith(canRx, track)
                        /\ NoPower(canRx) => led \in {track, "unknown"}

IInv == QueueInv /\ LedInv

LEMMA InitInv == Init => IInv
<1> SUFFICES ASSUME Init PROVE IInv
  OBVIOUS
<1>1. canRx = <<>> /\ toCentral = <<>> /\ led = "unknown"
  BY DEF Init
<1>2. <<>> \in Seq({}) /\ Len(<<>>) = 0
  OBVIOUS
<1>3. IsSeq(canRx) /\ IsSeq(toCentral) /\ Len(canRx) = 0 /\ Len(toCentral) = 0
  BY <1>1, <1>2 DEF IsSeq
<1> QED
  BY <1>1, <1>3 DEF IInv, QueueInv, LedInv, EndsWith

LEMMA FrameOf == \A c, r, b, w : IsFrame(Frame(c, r, b, w)) /\ Frame(c, r, b, w).cmd = c
BY DEF IsFrame, Frame

\* The gateway sends a frame; it tells the indicator if it is a power command.
LEMMA SendStep ==
  ASSUME IInv, NEW f, IsFrame(f), toCentral' = Append(toCentral, f),
         ~IsPower(f) => led' = led, UNCHANGED <<canRx, track>>
  PROVE  IInv'
<1>1. /\ IsSeq(toCentral') /\ Len(toCentral) \in Nat /\ Len(toCentral') = Len(toCentral) + 1
      /\ \A i \in 1..Len(toCentral) : toCentral'[i] = toCentral[i]
      /\ toCentral'[Len(toCentral) + 1] = f
  BY Appended DEF IInv, QueueInv
<1>2. \A i \in 1..Len(toCentral') : IsFrame(toCentral'[i])
  <2> SUFFICES ASSUME NEW i \in 1..Len(toCentral') PROVE IsFrame(toCentral'[i])
    OBVIOUS
  <2>1. CASE i \in 1..Len(toCentral)
    BY <1>1, <2>1 DEF IInv, QueueInv
  <2>2. CASE i = Len(toCentral) + 1
    BY <1>1, <2>2
  <2> QED
    BY <1>1, <2>1, <2>2
<1>3. QueueInv'
  BY <1>1, <1>2 DEF IInv, QueueInv
<1>4. CASE IsPower(f)
  <2>1. ~NoPower(toCentral')
    BY <1>4, AppendedPower DEF IInv, QueueInv
  <2> QED
    BY <1>3, <2>1 DEF IInv, LedInv
<1>5. CASE ~IsPower(f)
  <2>1. NoPower(toCentral') <=> NoPower(toCentral)
    BY <1>5, AppendedPower DEF IInv, QueueInv
  <2> QED
    BY <1>3, <1>5, <2>1 DEF IInv, LedInv
<1> QED
  BY <1>4, <1>5

LEMMA KeepStep ==
  ASSUME IInv, UNCHANGED <<toCentral, canRx, led, track>>
  PROVE  IInv'
BY DEF IInv, QueueInv, LedInv

LEMMA StopGoStep ==
  ASSUME IInv, processI2CStopGo
  PROVE  IInv'
<1> DEFINE f == Frame(MakeRR32CanPowerMsg, "none", FALSE, "line")
<1>1. IsFrame(f)
  BY FrameOf
<1>2. UNCHANGED <<canRx, track>>
  BY DEF processI2CStopGo
<1>3. CASE SendPacket(f) /\ HandlePacket(f)
  <2>1. toCentral' = Append(toCentral, f) /\ (~IsPower(f) => led' = led)
    BY <1>3 DEF SendPacket, HandlePacket, IsPower
  <2> HIDE DEF f
  <2> QED
    BY <1>1, <1>2, <2>1, SendStep
<1>4. CASE UNCHANGED <<toCentral, led>>
  BY <1>2, <1>4, KeepStep
<1> QED
  BY <1>3, <1>4 DEF processI2CStopGo

LEMMA I2CStep ==
  ASSUME IInv, processI2CMessages
  PROVE  IInv'
<1> DEFINE f == MakeRR32CanMsg(Head(i2cRx))
<1>1. IsFrame(f)
  BY FrameOf DEF MakeRR32CanMsg
<1>2. UNCHANGED <<canRx, track, led>> /\ toCentral' = Append(toCentral, f)
  BY DEF processI2CMessages, SendPacket
<1> HIDE DEF f
<1> QED
  BY <1>1, <1>2, SendStep

LEMMA LocoNetStep ==
  ASSUME IInv, processLocoNet
  PROVE  IInv'
<1> DEFINE f == FromLn(Head(lnRx))
<1>1. IsFrame(f)
  BY FrameOf DEF FromLn
<1>2. /\ UNCHANGED <<canRx, track>> /\ toCentral' = Append(toCentral, f)
      /\ ~IsPower(f) => led' = led
  BY DEF processLocoNet, SendPacket, HandlePacket, IsPower
<1> HIDE DEF f
<1> QED
  BY <1>1, <1>2, SendStep

\* The gateway sees a frame of the central or of another device.
LEMMA CanStep ==
  ASSUME IInv, processCAN
  PROVE  IInv'
<1>1. /\ canRx # <<>> /\ canRx' = Tail(canRx) /\ UNCHANGED <<toCentral, track>>
      /\ led' = IF IsPower(Head(canRx)) THEN Head(canRx).cmd.kind ELSE led
  BY DEF processCAN, HandlePacket, IsPower
<1>2. IsSeq(canRx) /\ IsSeq(canRx')
  BY <1>1, Removed DEF IInv, QueueInv
<1>3. QueueInv'
  BY <1>1, <1>2 DEF IInv, QueueInv
<1>4. ASSUME NoPower(toCentral)
      PROVE  EndsWith(canRx', track) /\ (NoPower(canRx') => led' \in {track, "unknown"})
  <2>1. EndsWith(canRx, track) /\ (NoPower(canRx) => led \in {track, "unknown"})
    BY <1>4 DEF IInv, LedInv
  <2>2. /\ EndsWith(canRx', track)
        /\ NoPower(canRx') /\ ~IsPower(Head(canRx)) => NoPower(canRx)
        /\ NoPower(canRx') /\ IsPower(Head(canRx)) => Head(canRx).cmd.kind = track
    BY <1>1, <1>2, <2>1, RemovedPower
  <2> QED
    BY <1>1, <2>1, <2>2
<1> QED
  BY <1>1, <1>3, <1>4 DEF IInv, LedInv

\* The central handles a request.
LEMMA CentralStep ==
  ASSUME IInv, Central
  PROVE  IInv'
<1> DEFINE f == Head(toCentral)
           g == [f EXCEPT !.response = TRUE]
<1>1. /\ toCentral # <<>> /\ toCentral' = Tail(toCentral) /\ led' = led
      /\ track' = IF IsPower(f) THEN f.cmd.kind ELSE track
      /\ canRx' = Append(canRx, g) \/ (~IsPower(f) /\ canRx' = canRx)
  BY DEF Central, IsPower, taskVars
<1>2. /\ IsSeq(toCentral') /\ Len(toCentral) \in Nat /\ Len(toCentral) >= 1
      /\ Len(toCentral') = Len(toCentral) - 1
      /\ f = toCentral[1]
      /\ \A i \in 1..Len(toCentral') : toCentral'[i] = toCentral[i + 1]
  BY <1>1, Removed DEF IInv, QueueInv
<1>3. g.cmd = f.cmd
  <2>1. IsFrame(f)
    BY <1>2 DEF IInv, QueueInv
  <2> QED
    BY <2>1 DEF IsFrame, Frame
<1>4. IsPower(g) = IsPower(f)
  BY <1>3 DEF IsPower
<1> HIDE DEF g
<1>5. QueueInv'
  <2>1. IsSeq(canRx')
    <3>1. IsSeq(canRx)
      BY DEF IInv, QueueInv
    <3>2. IsSeq(Append(canRx, g))
      BY <3>1, Appended
    <3> QED
      BY <1>1, <3>1, <3>2
  <2>2. \A i \in 1..Len(toCentral') : IsFrame(toCentral'[i])
    BY <1>2 DEF IInv, QueueInv
  <2> QED
    BY <1>2, <2>1, <2>2 DEF QueueInv
<1> HIDE DEF f
<1>6. CASE IsPower(f)
  <2>1. canRx' = Append(canRx, g) /\ track' = g.cmd.kind /\ IsPower(g)
    BY <1>1, <1>3, <1>4, <1>6
  <2>2. ~NoPower(canRx') /\ EndsWith(canRx', track')
    BY <2>1, AppendedPower DEF IInv, QueueInv
  <2> QED
    BY <1>5, <2>2 DEF IInv, LedInv
<1>7. CASE ~IsPower(f)
  <2>1. track' = track
    BY <1>1, <1>7
  <2>2. NoPower(toCentral') => NoPower(toCentral)
    BY <1>1, <1>7, RemovedPower DEF IInv, QueueInv, f
  <2>3. /\ EndsWith(canRx, track) => EndsWith(canRx', track)
        /\ NoPower(canRx') => NoPower(canRx)
    <3>1. CASE canRx' = canRx
      BY <3>1
    <3>2. CASE canRx' = Append(canRx, g)
      <4>1. IsSeq(canRx) /\ ~IsPower(g)
        BY <1>4, <1>7 DEF IInv, QueueInv
      <4> QED
        BY <3>2, <4>1, AppendedPower
    <3> QED
      BY <1>1, <3>1, <3>2
  <2> QED
    BY <1>1, <1>5, <2>1, <2>2, <2>3 DEF IInv, LedInv
<1> QED
  BY <1>6, <1>7

\* Another CAN device sends a command, which the gateway sees as well.
LEMMA CanUserStep ==
  ASSUME IInv, NEW c, NEW rail, CanUser(c, rail)
  PROVE  IInv'
<1> DEFINE f == Frame(c, rail, c.kind = "sensor", "can")
<1>1. /\ IsFrame(f)
      /\ canRx' = Append(canRx, f) /\ toCentral' = Append(toCentral, f)
      /\ UNCHANGED <<led, track>>
  BY FrameOf DEF CanUser
<1> HIDE DEF f
<1>2. IsSeq(canRx) /\ IsSeq(canRx') /\ IsSeq(toCentral)
  BY <1>1, Appended DEF IInv, QueueInv
<1>3. QueueInv'
  <2>1. /\ IsSeq(toCentral') /\ Len(toCentral) \in Nat /\ Len(toCentral') = Len(toCentral) + 1
        /\ \A i \in 1..Len(toCentral) : toCentral'[i] = toCentral[i]
        /\ toCentral'[Len(toCentral) + 1] = f
    BY <1>1, <1>2, Appended
  <2>2. \A i \in 1..Len(toCentral') : i \in 1..Len(toCentral) \/ i = Len(toCentral) + 1
    BY <2>1
  <2>3. \A i \in 1..Len(toCentral') : IsFrame(toCentral'[i])
    BY <1>1, <2>1, <2>2 DEF IInv, QueueInv
  <2> QED
    BY <1>2, <2>1, <2>3 DEF QueueInv
<1>4. CASE IsPower(f)
  <2>1. ~NoPower(toCentral')
    BY <1>1, <1>2, <1>4, AppendedPower
  <2> QED
    BY <1>3, <2>1 DEF IInv, LedInv
<1>5. CASE ~IsPower(f)
  <2>1. /\ NoPower(toCentral') <=> NoPower(toCentral)
        /\ NoPower(canRx') <=> NoPower(canRx)
        /\ EndsWith(canRx, track) => EndsWith(canRx', track)
    BY <1>1, <1>2, <1>5, AppendedPower
  <2> QED
    BY <1>1, <1>3, <2>1 DEF IInv, LedInv
<1> QED
  BY <1>4, <1>5

LEMMA OtherStep ==
  ASSUME IInv,
         \/ Wake \/ HandleDummyMessages \/ NextQueue \/ DoBlockingSend \/ KeyboardReceives
         \/ \E k \in Keyboard : Release(k) \/ Repeat(k) \/ \E c : Press(k, c)
         \/ \E c : LnUser(c) \/ Edge(c)
         \/ \E line \in PowerKinds : CooldownEnds(line)
         \/ UNCHANGED vars
  PROVE  IInv'
<1>1. UNCHANGED <<toCentral, canRx, led, track>>
  BY DEF Wake, HandleDummyMessages, NextQueue, DoBlockingSend, KeyboardReceives, Release, Repeat,
         Press, LnUser, Edge, CooldownEnds, vars, canVars, taskVars
<1> QED
  BY <1>1, KeepStep

LEMMA StepInv ==
  ASSUME IInv, [Next]_vars
  PROVE  IInv'
<1>1. CASE RoutingTask
  BY <1>1, StopGoStep, CanStep, I2CStep, LocoNetStep, OtherStep, Zenon DEF RoutingTask
<1>2. CASE Users
  BY <1>2, CanUserStep, OtherStep, Zenon DEF Users
<1>3. CASE DoBlockingSend \/ Central \/ KeyboardReceives \/ UNCHANGED vars
  BY <1>3, CentralStep, OtherStep, Zenon
<1> QED
  BY <1>1, <1>2, <1>3, Zenon DEF Next

\* Once all is quiet the indicator shows the power state of the central, however
\* power commands of the buses and the lines crossed (setSystemState() for
\* every power command that the RoutingTask handles).
THEOREM IndicatorSettles == Spec => []IndicatorAgrees
<1>1. Init => IInv
  BY InitInv
<1>2. IInv /\ [Next]_vars => IInv'
  BY StepInv
<1>3. IInv => IndicatorAgrees
  <2> SUFFICES ASSUME IInv, Rest PROVE led = "unknown" \/ led = track
    BY DEF IndicatorAgrees
  <2>1. canRx = <<>> /\ toCentral = <<>>
    BY DEF Rest
  <2>2. NoPower(canRx) /\ NoPower(toCentral)
    BY <2>1 DEF NoPower
  <2> QED
    BY <2>2 DEF IInv, LedInv
<1> QED
  BY <1>1, <1>2, <1>3, PTL DEF Spec

-----------------------------------------------------------------------------
(***************************************************************************)
(* Types.                                                                  *)
(***************************************************************************)
Bus == {"i2c", "can", "ln", "line"}
Value == {"red", "green", "open", "closed", "none"}
Rails == {Rail, "none"} \cup {u.rail : u \in UNION {s.commands : s \in Scenarios}}
Frames == [cmd : Command, rail : Rails, response : BOOLEAN, from : Bus]
Message == [keyboard : 0..15, decoder : 0..3, output : 0..3, value : Value, on : BOOLEAN]
OutMessage ==
  {m \in [cmd : Command, from : Bus \cup {"own"}] : m.from = "own" => m.cmd.kind = "query"}

\* What a key asks for.
KeyCommand == {c \in Command : c.kind = "turnout" /\ c.at <= 255}
Key == [held : KeyCommand \cup {Nothing}, asking : KeyCommand \cup {Nothing}]

QueueType ==
  /\ canRx \in Seq(Frames) /\ toCentral \in Seq(Frames)
  /\ lnRx \in Seq(Command) /\ lnTx \in Seq(OutMessage) /\ i2cRx \in Seq(Message)

LogType == issued \in [Bus -> Seq(Command)]

SentType == got \in [can : [Bus -> Seq(Command)], ln : [Bus -> Seq(Command)]]

TypeInv ==
  /\ QueueType /\ LogType /\ SentType
  /\ scenario \in Scenarios
  /\ keyboard \in [Keyboard -> Key]
  /\ last \in [at : Nat, value : Value]

LEMMA PowerType == \A k \in PowerKinds : Power(k) \in Command
BY DEF Power, PowerKinds, Command

LEMMA GivenType ==
  ASSUME TypeInv, NEW u \in scenario.commands
  PROVE  /\ u.cmd \in GivenBy(u.from) /\ u.rail \in Rails
         /\ u.from = "i2c" => u.cmd \in Command /\ u.cmd.kind = "turnout" /\ u.cmd.on
         /\ u.from = "can" => u.cmd \in Command /\ u.cmd.kind # "query"
         /\ u.from = "ln" => u.cmd \in Command
         /\ u.from = "line" => u.cmd.kind \in PowerKinds
         /\ u.cmd.kind = "turnout" => u.cmd.at < 2048
         /\ u.cmd.kind = "sensor" => u.cmd.at < 4096
<1>1. scenario \in Scenarios
  BY DEF TypeInv
<1>2. u.cmd \in GivenBy(u.from)
  BY <1>1, ScenarioAssumption
<1>3. u.rail \in Rails
  BY <1>1 DEF Rails
<1>4. u.from = "line" => u.cmd.kind \in PowerKinds
  BY <1>2 DEF GivenBy, Power
<1>5. u.from = "i2c" => u.cmd \in Command /\ u.cmd.kind = "turnout" /\ u.cmd.on
  BY <1>2 DEF GivenBy
<1>6. u.from = "can" => u.cmd \in Command /\ u.cmd.kind # "query"
  BY <1>2 DEF GivenBy
<1>7. u.from = "ln" => u.cmd \in Command
  BY <1>2 DEF GivenBy
<1>8. /\ u.cmd.kind = "turnout" => u.cmd.at < 2048
      /\ u.cmd.kind = "sensor" => u.cmd.at < 4096
  BY <1>1, AddressAssumption
<1> QED
  BY <1>2, <1>3, <1>4, <1>5, <1>6, <1>7, <1>8

\* How a keyboard words a command, and what it means again.
LEMMA MessageType ==
  ASSUME NEW c \in Command
  PROVE  OfKeyboard(c) \in Message
<1>1. c.at \in Nat /\ c.value \in Value /\ c.on \in BOOLEAN
  BY DEF Command, Value
<1>2. (c.at \div 16) % 16 \in 0..15 /\ (c.at \div 4) % 4 \in 0..3 /\ c.at % 4 \in 0..3
  BY <1>1
<1> HIDE <1>1
<1>3. c.value \in Value /\ c.on \in BOOLEAN
  BY <1>1
<1> DEFINE a == (c.at \div 16) % 16
           b == (c.at \div 4) % 4
           d == c.at % 4
<1>4. OfKeyboard(c) = [keyboard |-> a, decoder |-> b,
                       output |-> IF c.on THEN d ELSE 0, value |-> IF c.on THEN c.value ELSE "red",
                       on |-> c.on]
  BY DEF OfKeyboard, makeMsg
<1>5. a \in 0..15 /\ b \in 0..3 /\ d \in 0..3
  BY <1>2
<1> HIDE DEF a, b, d
<1> QED
  BY <1>3, <1>4, <1>5 DEF Message, Value

LEMMA CanMsgType ==
  ASSUME NEW m \in Message, last \in [at : Nat, value : Value]
  PROVE  /\ MakeRR32CanMsg(m) \in Frames
         /\ MakeRR32CanMsg(m).cmd.kind = "turnout" /\ ~MakeRR32CanMsg(m).response
         /\ MakeRR32CanMsg(m).from = "i2c"
         /\ TurnoutAddr(m) \in Nat
<1>1. TurnoutAddr(m) \in Nat /\ m.value \in Value
  BY DEF Message, TurnoutAddr
<1>2. \A at \in Nat, v \in Value, on \in BOOLEAN : Switch(at, v, on) \in Command
  BY DEF Switch, Command, Value
<1>3. \A c \in Command : \A r \in Rails, w \in Bus, b \in BOOLEAN : Frame(c, r, b, w) \in Frames
  BY DEF Frame, Frames
<1>4. Rail \in Rails /\ "none" \in Rails /\ "i2c" \in Bus /\ "red" \in Value /\ 0 \in Nat
  BY DEF Rails, Bus, Value
<1>5. last.at \in Nat /\ last.value \in Value
  OBVIOUS
<1>6. PICK at \in Nat, v \in Value, on \in BOOLEAN, r \in Rails :
        MakeRR32CanMsg(m) = Frame(Switch(at, v, on), r, FALSE, "i2c")
  BY <1>1, <1>4, <1>5, Zenon DEF MakeRR32CanMsg
<1>7. Frame(Switch(at, v, on), r, FALSE, "i2c") \in Frames
  BY <1>2, <1>3, <1>4
<1> QED
  BY <1>1, <1>6, <1>7 DEF Frame, Switch

LEMMA FromLnType ==
  ASSUME NEW c \in Command
  PROVE  /\ FromLn(c) \in Frames /\ FromLn(c).cmd = c /\ FromLn(c).from = "ln"
         /\ FromLn(c).response = (c.kind = "sensor")
<1>1. Rail \in Rails /\ "none" \in Rails /\ "ln" \in Bus
  BY DEF Rails, Bus
<1> QED
  BY <1>1 DEF FromLn, Frame, Frames

\* The forwarder makes at most one message, of the same kind, and an equal one
\* if LocoNet can name the address.
LEMMA LnForm ==
  ASSUME NEW f \in Frames
  PROVE  \/ LnMessages(f) = <<>>
         \/ \E c \in Command :
              /\ LnMessages(f) = <<c>> /\ c.kind = f.cmd.kind
              /\ f.response = (c.kind = "sensor")
              /\ (c.kind = "turnout" => f.cmd.at < 2048) /\ (c.kind = "sensor" => f.cmd.at < 4096)
                   => c = f.cmd
<1> DEFINE c == f.cmd
<1>1. c \in Command /\ f.response \in BOOLEAN
  BY DEF Frames
<1>2. c.at \in Nat /\ c = [kind |-> c.kind, at |-> c.at, value |-> c.value, on |-> c.on]
  BY <1>1 DEF Command
<1>3. ASSUME NEW n \in {2048, 4096}
      PROVE  /\ [c EXCEPT !.at = @ % n] \in Command /\ [c EXCEPT !.at = @ % n].kind = c.kind
             /\ c.at < n => [c EXCEPT !.at = @ % n] = c
  <2>1. c.at % n \in Nat /\ (c.at < n => c.at % n = c.at)
    BY <1>2
  <2> DEFINE a == c.at % n
  <2>2. a \in Nat /\ (c.at < n => a = c.at)
    BY <2>1
  <2>3. [c EXCEPT !.at = @ % n] = [c EXCEPT !.at = a]
    OBVIOUS
  <2> HIDE DEF a
  <2>4. [c EXCEPT !.at = a] = [kind |-> c.kind, at |-> a, value |-> c.value, on |-> c.on]
    BY <1>1 DEF Command
  <2>5. [c EXCEPT !.at = a] \in Command /\ [c EXCEPT !.at = a].kind = c.kind
    BY <1>1, <2>2, <2>4 DEF Command
  <2>6. c.at < n => [c EXCEPT !.at = a] = c
    BY <1>2, <2>2, <2>4
  <2> QED
    BY <2>3, <2>5, <2>6
<1>4. CASE c.kind = "turnout" /\ ~f.response
  <2>1. LnMessages(f) = <<Ln_Turnout(c)>>
    BY <1>4 DEF LnMessages
  <2> DEFINE d == Ln_Turnout(c)
  <2>2. d \in Command /\ d.kind = c.kind /\ (c.at < 2048 => d = c)
    BY <1>3 DEF Ln_Turnout
  <2> HIDE DEF d
  <2>3. LnMessages(f) = <<d>> /\ f.response = (d.kind = "sensor")
    BY <1>1, <1>4, <2>1, <2>2 DEF d
  <2>4. (d.kind = "turnout" => f.cmd.at < 2048) /\ (d.kind = "sensor" => f.cmd.at < 4096)
           => d = f.cmd
    BY <1>4, <2>2
  <2>5. d.kind = f.cmd.kind
    BY <2>2
  <2>6. d \in Command
    BY <2>2
  <2> QED
    BY <2>3, <2>4, <2>5, <2>6
<1>5. CASE c.kind \in PowerKinds /\ ~f.response
  <2>1. LnMessages(f) = <<c>>
    BY <1>5 DEF LnMessages, PowerKinds
  <2> QED
    BY <1>1, <1>5, <2>1 DEF PowerKinds
<1>6. CASE c.kind = "sensor" /\ f.response
  <2>1. LnMessages(f) = <<Ln_Sensor(c)>>
    BY <1>6 DEF LnMessages, PowerKinds
  <2> DEFINE d == Ln_Sensor(c)
  <2>2. d \in Command /\ d.kind = c.kind /\ (c.at < 4096 => d = c)
    BY <1>3 DEF Ln_Sensor
  <2> HIDE DEF d
  <2>3. LnMessages(f) = <<d>> /\ f.response = (d.kind = "sensor")
    BY <1>1, <1>6, <2>1, <2>2 DEF d
  <2>4. (d.kind = "turnout" => f.cmd.at < 2048) /\ (d.kind = "sensor" => f.cmd.at < 4096)
           => d = f.cmd
    BY <1>6, <2>2
  <2>5. d.kind = f.cmd.kind
    BY <2>2
  <2>6. d \in Command
    BY <2>2
  <2> QED
    BY <2>3, <2>4, <2>5, <2>6
<1>7. CASE /\ ~(c.kind = "turnout" /\ ~f.response) /\ ~(c.kind \in PowerKinds /\ ~f.response)
           /\ ~(c.kind = "sensor" /\ f.response)
  BY <1>7 DEF LnMessages
<1> QED
  BY <1>4, <1>5, <1>6, <1>7

LEMMA LoggedType ==
  ASSUME NEW log \in [Bus -> Seq(Command)], NEW w, NEW c \in Command,
         w \in Bus \/ c.kind = "query"
  PROVE  /\ Logged(log, w, c) \in [Bus -> Seq(Command)]
         /\ c.kind = "query" => Logged(log, w, c) = log
         /\ c.kind # "query" =>
              /\ Logged(log, w, c)[w] = Append(log[w], c)
              /\ \A b \in Bus \ {w} : Logged(log, w, c)[b] = log[b]
<1>1. CASE c.kind = "query"
  BY <1>1 DEF Logged
<1>2. CASE c.kind # "query"
  <2>1. w \in Bus /\ log[w] \in Seq(Command)
    BY <1>2
  <2> DEFINE s == Append(log[w], c)
  <2>2. s \in Seq(Command)
    BY <2>1
  <2>3. Logged(log, w, c) = [log EXCEPT ![w] = s]
    BY <1>2 DEF Logged
  <2> HIDE DEF s
  <2>4. [log EXCEPT ![w] = s] \in [Bus -> Seq(Command)]
    BY <2>1, <2>2
  <2>5. /\ [log EXCEPT ![w] = s][w] = s
        /\ \A b \in Bus \ {w} : [log EXCEPT ![w] = s][b] = log[b]
    BY <2>1
  <2> QED
    BY <1>2, <2>3, <2>4, <2>5 DEF s
<1> QED
  BY <1>1, <1>2

LEMMA AsyncType ==
  ASSUME QueueType, NEW ms, NEW w \in Bus \cup {"own"},
         ms = <<>> \/ \E c \in Command : ms = <<c>> /\ (w = "own" => c.kind = "query"),
         AsyncSend(ms, w)
  PROVE  lnTx' \in Seq(OutMessage)
<1>1. lnTx \in Seq(OutMessage)
  BY DEF QueueType
<1>2. lnTx' = lnTx \/ (ms # <<>> /\ lnTx' = Append(lnTx, [cmd |-> ms[1], from |-> w]))
  BY DEF AsyncSend
<1>3. CASE ms # <<>>
  <2>1. PICK c \in Command : ms = <<c>> /\ (w = "own" => c.kind = "query")
    BY <1>3
  <2>2. ms[1] = c /\ [cmd |-> c, from |-> w] \in OutMessage
    BY <2>1 DEF OutMessage
  <2> QED
    BY <1>1, <1>2, <2>2
<1> QED
  BY <1>1, <1>2, <1>3

LEMMA LnAsyncType ==
  ASSUME QueueType, NEW f \in Frames, NEW w \in Bus, AsyncSend(LnMessages(f), w)
  PROVE  lnTx' \in Seq(OutMessage)
<1>1. w # "own"
  BY DEF Bus
<1>2. LnMessages(f) = <<>> \/ \E c \in Command : LnMessages(f) = <<c>>
  BY LnForm
<1> QED
  BY <1>1, <1>2, AsyncType

LEMMA SendType ==
  ASSUME QueueType, SentType, NEW f \in Frames, SendPacket(f)
  PROVE  /\ toCentral' \in Seq(Frames) /\ SentType'
         /\ got'.ln = got.ln /\ got'.can = Logged(got.can, f.from, f.cmd)
<1>1. toCentral' = Append(toCentral, f) /\ toCentral \in Seq(Frames)
  BY DEF SendPacket, QueueType
<1> DEFINE g == Logged(got.can, f.from, f.cmd)
<1>2. g \in [Bus -> Seq(Command)]
  <2>1. f.from \in Bus /\ f.cmd \in Command /\ got.can \in [Bus -> Seq(Command)]
    BY DEF Frames, SentType
  <2> QED
    BY <2>1, LoggedType
<1>3. got' = [got EXCEPT !.can = g]
  BY DEF SendPacket
<1> HIDE DEF g
<1>4. got' = [can |-> g, ln |-> got.ln] /\ got.ln \in [Bus -> Seq(Command)]
  BY <1>3 DEF SentType
<1>5. SentType'
  BY <1>2, <1>4 DEF SentType
<1> QED
  BY <1>1, <1>4, <1>5 DEF g

LEMMA TypeInit == Init => TypeInv
<1> SUFFICES ASSUME Init PROVE TypeInv
  OBVIOUS
<1>1. <<>> \in Seq(Frames) /\ <<>> \in Seq(Command) /\ <<>> \in Seq(OutMessage) /\ <<>> \in Seq(Message)
  OBVIOUS
<1>2. QueueType
  BY <1>1 DEF Init, QueueType
<1> DEFINE none == [from \in Bus |-> <<>>]
<1>3. none \in [Bus -> Seq(Command)]
  BY <1>1
<1>4. issued = none /\ got = [can |-> none, ln |-> none]
  BY DEF Init, Bus
<1> HIDE DEF none
<1>5. LogType /\ SentType
  BY <1>3, <1>4 DEF LogType, SentType
<1>6. keyboard \in [Keyboard -> Key] /\ last \in [at : Nat, value : Value] /\ scenario \in Scenarios
  BY DEF Init, Key, Value
<1> QED
  BY <1>2, <1>5, <1>6 DEF TypeInv

LEMMA TypeRouting ==
  ASSUME TypeInv, RoutingTask
  PROVE  TypeInv'
<1>1. UNCHANGED <<keyboard, scenario, issued>>
  BY DEF RoutingTask, Wake, processI2CStopGo, processCAN, processI2CMessages, processLocoNet,
         HandleDummyMessages, NextQueue, i2cVars, userVars, history
<1>2. QueueType /\ SentType /\ last \in [at : Nat, value : Value]
  BY DEF TypeInv
<1>3. LogType' /\ keyboard' \in [Keyboard -> Key] /\ scenario' \in Scenarios
  BY <1>1 DEF TypeInv, LogType
<1> SUFFICES QueueType' /\ SentType' /\ last' \in [at : Nat, value : Value]
  BY <1>3 DEF TypeInv
<1>4. CASE Wake \/ NextQueue
  BY <1>2, <1>4 DEF Wake, NextQueue, i2cVars, canVars, lnVars, history, taskVars, QueueType, SentType
<1>5. CASE processI2CStopGo
  <2> DEFINE f == Frame(MakeRR32CanPowerMsg, "none", FALSE, "line")
  <2>1. f \in Frames /\ f.from = "line" /\ "line" \in Bus
    BY PowerType DEF MakeRR32CanPowerMsg, Frame, Frames, Rails, Bus, PowerKinds
  <2>2. UNCHANGED <<last, canRx, lnRx, i2cRx>>
    BY <1>5 DEF processI2CStopGo, i2cVars
  <2>3. CASE SendPacket(f) /\ AsyncSend(LnMessages(f), f.from)
    <3> HIDE DEF f
    <3>1. lnTx' \in Seq(OutMessage)
      BY <1>2, <2>1, <2>3, LnAsyncType
    <3>2. toCentral' \in Seq(Frames) /\ SentType'
      BY <1>2, <2>1, <2>3, SendType
    <3> QED
      BY <1>2, <2>2, <3>1, <3>2 DEF QueueType
  <2>4. CASE UNCHANGED <<toCentral, got, lnTx>>
    BY <1>2, <2>2, <2>4 DEF QueueType, SentType
  <2> QED
    BY <1>5, <2>3, <2>4 DEF processI2CStopGo
<1>6. CASE processCAN
  <2> DEFINE f == Head(canRx)
  <2>1. canRx # <<>> /\ canRx' = Tail(canRx) /\ AsyncSend(LnMessages(f), f.from)
        /\ UNCHANGED <<toCentral, lnRx, i2cRx, got, last>>
    BY <1>6 DEF processCAN
  <2>2. f \in Frames /\ canRx' \in Seq(Frames)
    BY <1>2, <2>1 DEF QueueType
  <2>3. f.from \in Bus
    BY <2>2 DEF Frames
  <2> HIDE DEF f
  <2>4. lnTx' \in Seq(OutMessage)
    BY <1>2, <2>1, <2>2, <2>3, LnAsyncType
  <2> QED
    BY <1>2, <2>1, <2>2, <2>4 DEF QueueType, SentType
<1>7. CASE processI2CMessages
  <2> DEFINE m == Head(i2cRx)
             f == MakeRR32CanMsg(m)
  <2>1. /\ i2cRx # <<>> /\ i2cRx' = Tail(i2cRx) /\ AsyncSend(LnMessages(f), f.from) /\ SendPacket(f)
        /\ UNCHANGED <<canRx, lnRx>>
        /\ last' = IF m.on THEN [at |-> TurnoutAddr(m), value |-> m.value] ELSE last
    BY <1>7 DEF processI2CMessages
  <2>2. m \in Message /\ i2cRx' \in Seq(Message)
    BY <1>2, <2>1 DEF QueueType
  <2> HIDE DEF m
  <2>3. f \in Frames /\ f.from = "i2c" /\ TurnoutAddr(m) \in Nat
    BY <1>2, <2>2, CanMsgType
  <2>4. last' \in [at : Nat, value : Value]
    BY <1>2, <2>1, <2>2, <2>3 DEF Message
  <2> HIDE DEF f
  <2>5. lnTx' \in Seq(OutMessage)
    BY <1>2, <2>1, <2>3, LnAsyncType DEF Bus
  <2>6. toCentral' \in Seq(Frames) /\ SentType'
    BY <1>2, <2>1, <2>3, SendType
  <2> QED
    BY <1>2, <2>1, <2>2, <2>4, <2>5, <2>6 DEF QueueType
<1>8. CASE processLocoNet
  <2> DEFINE f == FromLn(Head(lnRx))
  <2>1. /\ lnRx # <<>> /\ lnRx' = Tail(lnRx) /\ SendPacket(f)
        /\ UNCHANGED <<canRx, i2cRx, lnTx, last>>
    BY <1>8 DEF processLocoNet
  <2>2. Head(lnRx) \in Command /\ lnRx' \in Seq(Command)
    BY <1>2, <2>1 DEF QueueType
  <2>3. f \in Frames
    BY <2>2, FromLnType
  <2> HIDE DEF f
  <2>4. toCentral' \in Seq(Frames) /\ SentType'
    BY <1>2, <2>1, <2>3, SendType
  <2> QED
    BY <1>2, <2>1, <2>2, <2>4 DEF QueueType
<1>9. CASE HandleDummyMessages
  <2>1. /\ lnRx # <<>> /\ lnRx' = Tail(lnRx)
        /\ AsyncSend(<<Query>>, "own") \/ lnTx' = lnTx
        /\ UNCHANGED <<canRx, toCentral, i2cRx, last, got>>
    BY <1>9 DEF HandleDummyMessages, i2cVars, canVars
  <2>2. lnRx' \in Seq(Command)
    BY <1>2, <2>1 DEF QueueType
  <2>3. Query \in Command /\ Query.kind = "query"
    BY DEF Query, Command
  <2>4. lnTx' \in Seq(OutMessage)
    BY <1>2, <2>1, <2>3, AsyncType DEF QueueType
  <2> QED
    BY <1>2, <2>1, <2>2, <2>4 DEF QueueType, SentType
<1> QED
  BY <1>4, <1>5, <1>6, <1>7, <1>8, <1>9 DEF RoutingTask

LEMMA KeyboardSmall == \A k \in Keyboard : k \in 0..15
<1> SUFFICES ASSUME NEW t \in Turnout, t <= 255 PROVE t \div 16 \in 0..15
  BY DEF Keyboard
<1>1. t \in 0..255
  BY TurnoutAssumption
<1> QED
  BY <1>1

\* A key that can be pressed, and a key that is released.
LEMMA KeyType ==
  ASSUME NEW c \in Command, c.kind = "turnout", NEW k \in Keyboard, c.at \div 16 = k
  PROVE  c \in KeyCommand
<1>1. k \in 0..15 /\ c.at \in Nat
  BY KeyboardSmall DEF Command
<1>2. c.at <= 255
  BY <1>1
<1> QED
  BY <1>2 DEF KeyCommand

LEMMA ReleasedType ==
  ASSUME NEW h \in KeyCommand
  PROVE  /\ [h EXCEPT !.on = FALSE] = Switch(h.at, h.value, FALSE)
         /\ [h EXCEPT !.on = FALSE] \in KeyCommand
<1>1. h \in [kind : PowerKinds \cup {"turnout", "sensor", "query"}, at : Nat,
             value : {"red", "green", "open", "closed", "none"}, on : BOOLEAN]
      /\ h.kind = "turnout" /\ h.at <= 255
  BY DEF KeyCommand, Command
<1> DEFINE r == [h EXCEPT !.on = FALSE]
<1>2. r \in Command /\ r.kind = h.kind /\ r.at = h.at /\ r.value = h.value /\ r.on = FALSE
  BY <1>1 DEF Command
<1> HIDE DEF r
<1>5. r = [kind |-> r.kind, at |-> r.at, value |-> r.value, on |-> r.on]
  BY <1>2 DEF Command
<1>3. r = Switch(h.at, h.value, FALSE)
  BY <1>1, <1>2, <1>5 DEF Switch
<1>4. Switch(h.at, h.value, FALSE) \in KeyCommand
  BY <1>1 DEF Switch, KeyCommand, Command
<1> QED
  BY <1>3, <1>4 DEF r

\* The history and the bus after a command of a user.
LEMMA LogStep ==
  ASSUME LogType, NEW w \in Bus, NEW c \in Command, issued' = Logged(issued, w, c)
  PROVE  LogType'
BY LoggedType DEF LogType

LEMMA LogMore ==
  ASSUME LogType, NEW w \in Bus, NEW c \in Command, c.kind # "query", issued' = Logged(issued, w, c)
  PROVE  issued'[w] = Append(issued[w], c) /\ \A b \in Bus \ {w} : issued'[b] = issued[b]
<1>1. issued \in [Bus -> Seq(Command)]
  BY DEF LogType
<1> QED
  BY <1>1, LoggedType

LEMMA TypePress ==
  ASSUME TypeInv, NEW k \in Keyboard, NEW u \in scenario.commands, u.from = "i2c", Press(k, u.cmd)
  PROVE  TypeInv'
<1> DEFINE c == u.cmd
<1>1. c \in Command /\ c.kind = "turnout"
  BY GivenType
<1>2. c.at \div 16 = k
  BY DEF Press
<1> HIDE DEF c
<1>3. c \in KeyCommand
  BY <1>1, <1>2, KeyType
<1>4. OfKeyboard(c) \in Message
  BY <1>1, MessageType
<1>5. /\ issued' = Logged(issued, "i2c", c)
      /\ i2cRx' = Append(i2cRx, OfKeyboard(c))
      /\ keyboard' = [keyboard EXCEPT ![k] = [held |-> c, asking |-> c]]
      /\ UNCHANGED <<canRx, toCentral, lnRx, lnTx, last, scenario, got>>
  BY DEF Press, Give, Send, canVars, lnVars, c
<1>6. keyboard \in [Keyboard -> Key] /\ QueueType /\ LogType
  BY DEF TypeInv
<1>7. keyboard' \in [Keyboard -> Key]
  BY <1>3, <1>5, <1>6 DEF Key
<1>8. LogType'
  BY <1>1, <1>5, <1>6, LogStep DEF Bus
<1>9. i2cRx' \in Seq(Message)
  BY <1>4, <1>5, <1>6 DEF QueueType
<1> QED
  BY <1>5, <1>7, <1>8, <1>9 DEF TypeInv, QueueType, SentType

LEMMA TypeRelease ==
  ASSUME TypeInv, NEW k \in Keyboard, Release(k)
  PROVE  TypeInv'
<1> DEFINE h == keyboard[k].held
           c == [h EXCEPT !.on = FALSE]
<1>1. /\ h # Nothing
      /\ issued' = Logged(issued, "i2c", c)
      /\ i2cRx' = Append(i2cRx, OfKeyboard(c))
      /\ keyboard' = [keyboard EXCEPT ![k] = [held |-> Nothing, asking |-> c]]
      /\ UNCHANGED <<canRx, toCentral, lnRx, lnTx, last, scenario, got>>
  BY DEF Release, Send, canVars, lnVars, userVars
<1>2. keyboard \in [Keyboard -> Key] /\ QueueType /\ LogType
  BY DEF TypeInv
<1>3. h \in KeyCommand
  BY <1>1, <1>2 DEF Key
<1> HIDE DEF h
<1>4. c \in KeyCommand
  BY <1>3, ReleasedType
<1> HIDE DEF c
<1>5. c \in Command
  BY <1>4 DEF KeyCommand
<1>6. OfKeyboard(c) \in Message
  BY <1>5, MessageType
<1>7. keyboard' \in [Keyboard -> Key]
  BY <1>1, <1>2, <1>4 DEF Key
<1>8. LogType'
  BY <1>1, <1>2, <1>5, LogStep DEF Bus
<1>9. i2cRx' \in Seq(Message)
  BY <1>1, <1>2, <1>6 DEF QueueType
<1> QED
  BY <1>1, <1>7, <1>8, <1>9 DEF TypeInv, QueueType, SentType

LEMMA TypeRepeat ==
  ASSUME TypeInv, NEW k \in Keyboard, Repeat(k)
  PROVE  TypeInv'
<1> DEFINE c == keyboard[k].asking
<1>1. /\ c # Nothing
      /\ issued' = Logged(issued, "i2c", c)
      /\ i2cRx' = Append(i2cRx, OfKeyboard(c))
      /\ UNCHANGED <<keyboard, canRx, toCentral, lnRx, lnTx, last, scenario, got>>
  BY DEF Repeat, Send, canVars, lnVars
<1>2. keyboard \in [Keyboard -> Key] /\ QueueType /\ LogType
  BY DEF TypeInv
<1>3. c \in KeyCommand
  BY <1>1, <1>2 DEF Key
<1> HIDE DEF c
<1>4. c \in Command
  BY <1>3 DEF KeyCommand
<1>5. OfKeyboard(c) \in Message
  BY <1>4, MessageType
<1>6. LogType'
  BY <1>1, <1>2, <1>4, LogStep DEF Bus
<1>7. i2cRx' \in Seq(Message)
  BY <1>1, <1>2, <1>5 DEF QueueType
<1> QED
  BY <1>1, <1>2, <1>6, <1>7 DEF TypeInv, QueueType, SentType

LEMMA CanFrameType ==
  ASSUME NEW c \in Command, NEW rail \in Rails
  PROVE  Frame(c, rail, c.kind = "sensor", "can") \in Frames
BY DEF Frame, Frames, Bus

LEMMA TypeCanUser ==
  ASSUME TypeInv, NEW u \in scenario.commands, u.from = "can", CanUser(u.cmd, u.rail)
  PROVE  TypeInv'
<1> DEFINE c == u.cmd
           f == Frame(c, u.rail, c.kind = "sensor", "can")
<1>1. c \in Command /\ u.rail \in Rails
  BY GivenType
<1>2. f \in Frames
  BY <1>1, CanFrameType
<1>3. /\ issued' = Logged(issued, "can", c)
      /\ canRx' = Append(canRx, f) /\ toCentral' = Append(toCentral, f)
      /\ UNCHANGED <<keyboard, i2cRx, lnRx, lnTx, last, scenario, got>>
  BY DEF CanUser, Give, i2cVars, lnVars
<1> HIDE DEF f, c
<1>4. QueueType /\ LogType
  BY DEF TypeInv
<1>5. LogType'
  BY <1>1, <1>3, <1>4, LogStep DEF Bus
<1>6. QueueType'
  BY <1>2, <1>3, <1>4 DEF QueueType
<1> QED
  BY <1>3, <1>5, <1>6 DEF TypeInv, SentType

LEMMA TypeLnUser ==
  ASSUME TypeInv, NEW u \in scenario.commands, u.from = "ln", LnUser(u.cmd)
  PROVE  TypeInv'
<1> DEFINE c == u.cmd
<1>1. c \in Command
  BY GivenType
<1>2. /\ issued' = Logged(issued, "ln", c)
      /\ lnRx' = Append(lnRx, c)
      /\ UNCHANGED <<keyboard, i2cRx, canRx, toCentral, lnTx, last, scenario, got>>
  BY DEF LnUser, Give, i2cVars, canVars
<1> HIDE DEF c
<1>3. QueueType /\ LogType
  BY DEF TypeInv
<1>4. LogType'
  BY <1>1, <1>2, <1>3, LogStep DEF Bus
<1>5. QueueType'
  BY <1>1, <1>2, <1>3 DEF QueueType
<1> QED
  BY <1>2, <1>4, <1>5 DEF TypeInv, SentType

LEMMA TypeLine ==
  ASSUME TypeInv, NEW line \in PowerKinds, Edge(line) \/ CooldownEnds(line)
  PROVE  TypeInv'
<1>1. /\ issued' = issued \/ issued' = Logged(issued, "line", Power(line))
      /\ UNCHANGED <<keyboard, i2cRx, canRx, toCentral, lnRx, lnTx, last, scenario, got>>
  BY DEF Edge, CooldownEnds, Give, i2cVars, canVars, lnVars, taskVars, userVars, history
<1>2. LogType'
  BY <1>1, LogStep, PowerType DEF TypeInv, LogType, Bus
<1> QED
  BY <1>1, <1>2 DEF TypeInv, QueueType, SentType

LEMMA TypeOthers ==
  ASSUME TypeInv, DoBlockingSend \/ Central \/ KeyboardReceives \/ UNCHANGED vars
  PROVE  TypeInv'
<1>1. QueueType /\ LogType /\ SentType /\ keyboard \in [Keyboard -> Key]
  BY DEF TypeInv
<1>2. CASE DoBlockingSend
  <2> DEFINE m == Head(lnTx)
             g == Logged(got.ln, m.from, m.cmd)
  <2>1. /\ lnTx # <<>> /\ lnTx' = Tail(lnTx)
        /\ got' = [got EXCEPT !.ln = g]
        /\ UNCHANGED <<keyboard, i2cRx, canRx, toCentral, lnRx, last, scenario, issued>>
    BY <1>2 DEF DoBlockingSend, taskVars, i2cVars, canVars, userVars
  <2>2. m \in OutMessage /\ lnTx' \in Seq(OutMessage)
    BY <1>1, <2>1 DEF QueueType
  <2>3. got.ln \in [Bus -> Seq(Command)] /\ m.cmd \in Command /\ (m.from \in Bus \/ m.cmd.kind = "query")
    BY <1>1, <2>2 DEF SentType, OutMessage
  <2>4. g \in [Bus -> Seq(Command)]
    BY <2>3, LoggedType
  <2> HIDE DEF g, m
  <2>5. SentType'
    BY <1>1, <2>1, <2>4 DEF SentType
  <2> QED
    BY <1>1, <2>1, <2>2, <2>5 DEF TypeInv, QueueType, LogType
<1>3. CASE Central
  <2> DEFINE f == Head(toCentral)
             g == [f EXCEPT !.response = TRUE]
  <2>1. /\ toCentral # <<>> /\ toCentral' = Tail(toCentral)
        /\ canRx' = canRx \/ canRx' = Append(canRx, g)
        /\ UNCHANGED <<keyboard, i2cRx, lnRx, lnTx, last, scenario, issued, got>>
    BY <1>3 DEF Central, i2cVars, lnVars, userVars, history
  <2>2. f \in Frames /\ toCentral' \in Seq(Frames)
    BY <1>1, <2>1 DEF QueueType
  <2> HIDE DEF f
  <2>3. g \in Frames
    BY <2>2 DEF Frames
  <2> HIDE DEF g
  <2>4. canRx \in Seq(Frames) /\ Append(canRx, g) \in Seq(Frames)
    BY <1>1, <2>3 DEF QueueType
  <2>5. canRx' \in Seq(Frames)
    BY <2>1, <2>4
  <2> QED
    BY <1>1, <2>1, <2>2, <2>5 DEF TypeInv, QueueType, LogType, SentType
<1>4. CASE KeyboardReceives
  <2>1. UNCHANGED <<i2cRx, canRx, toCentral, lnRx, lnTx, last, scenario, issued, got>>
    BY <1>4 DEF KeyboardReceives, taskVars, canVars, lnVars, userVars, history
  <2>2. \/ keyboard' = keyboard
        \/ \E k \in Keyboard : keyboard' = [keyboard EXCEPT ![k].asking = Nothing]
    BY <1>4, Zenon DEF KeyboardReceives
  <2>3. keyboard' \in [Keyboard -> Key]
    BY <1>1, <2>2 DEF Key
  <2> QED
    BY <1>1, <2>1, <2>3 DEF TypeInv, QueueType, LogType, SentType
<1>5. CASE UNCHANGED vars
  BY <1>1, <1>5 DEF TypeInv, vars, taskVars, i2cVars, canVars, lnVars, userVars, history, QueueType,
                    LogType, SentType
<1> QED
  BY <1>2, <1>3, <1>4, <1>5

LEMMA TypeStep ==
  ASSUME TypeInv, [Next]_vars
  PROVE  TypeInv'
<1>1. CASE Users
  <2>1. ASSUME NEW u \in scenario.commands, u.from = "line", Edge(u.cmd.kind) PROVE TypeInv'
    BY <2>1, GivenType, TypeLine
  <2> QED
    BY <1>1, <2>1, TypePress, TypeCanUser, TypeLnUser, TypeRelease, TypeRepeat, TypeLine, Zenon
       DEF Users
<1> QED
  BY <1>1, TypeRouting, TypeOthers, Zenon DEF Next

-----------------------------------------------------------------------------
(***************************************************************************)
(* The stop line.  As long as no power command was given after the stop,   *)
(* it waits at the line, and the RoutingTask is about to look; or it is    *)
(* the last one on the way to the central and to the LocoNet devices.      *)
(***************************************************************************)
\* The last power command in a queue, or else the state it leads to, is p.
FinalIs(q, state, p) == EndsWith(q, p) /\ (NoPower(q) => state = p)

Clean == passed \cap {"wiped", "overtaken", "dropped"} = {}
StopGiven == power = [kind |-> "stop", from |-> "line"]

\* No power command waits that would be handled later than the stop.
NoneWaits ==
  /\ \A i \in 1..Len(canRx) : IsPower(canRx[i]) => canRx[i].response
  /\ \A i \in 1..Len(lnRx) : lnRx[i].kind \notin PowerKinds

AtLine == "stop" \in request /\ IF pc = "power" THEN "stop" \in seen ELSE notified
OnTheWay ==
  /\ request = {} /\ seen = {}
  /\ FinalIs(toCentral, track, "stop") /\ FinalIs(lnTx, lnTrack, "stop")

StopInv == Clean /\ StopGiven => NoneWaits /\ (AtLine \/ OnTheWay)

LEMMA QueuesAreSeq ==
  ASSUME TypeInv
  PROVE  IsSeq(canRx) /\ IsSeq(toCentral) /\ IsSeq(lnRx) /\ IsSeq(lnTx) /\ IsSeq(i2cRx)
BY DEF TypeInv, QueueType, IsSeq

LEMMA FinalTail ==
  ASSUME NEW q, IsSeq(q), q # <<>>, NEW state, NEW p, FinalIs(q, state, p)
  PROVE  FinalIs(Tail(q), IF IsPower(Head(q)) THEN Head(q).cmd.kind ELSE state, p)
<1>1. /\ EndsWith(Tail(q), p)
      /\ NoPower(Tail(q)) /\ ~IsPower(Head(q)) => NoPower(q)
      /\ NoPower(Tail(q)) /\ IsPower(Head(q)) => Head(q).cmd.kind = p
  BY RemovedPower DEF FinalIs
<1> QED
  BY <1>1 DEF FinalIs

LEMMA FinalAppend ==
  ASSUME NEW q, IsSeq(q), NEW f, NEW state, NEW p,
         IF IsPower(f) THEN f.cmd.kind = p ELSE FinalIs(q, state, p)
  PROVE  FinalIs(Append(q, f), state, p)
<1>1. CASE IsPower(f)
  BY <1>1, AppendedPower DEF FinalIs
<1>2. CASE ~IsPower(f)
  <2>1. /\ NoPower(Append(q, f)) <=> NoPower(q)
        /\ EndsWith(q, p) => EndsWith(Append(q, f), p)
    BY <1>2, AppendedPower
  <2> QED
    BY <1>2, <2>1 DEF FinalIs
<1> QED
  BY <1>1, <1>2

\* A power command is put into the LocoNet queue only if it is a stop.
LEMMA FinalAsync ==
  ASSUME IsSeq(lnTx), NEW ms, NEW w, AsyncSend(ms, w), lnTrack' = lnTrack, Clean',
         \/ FinalIs(lnTx, lnTrack, "stop") /\ ms = <<>>
         \/ \E c : ms = <<c>> /\ IF c.kind \in PowerKinds THEN c.kind = "stop"
                                 ELSE FinalIs(lnTx, lnTrack, "stop")
  PROVE  FinalIs(lnTx', lnTrack', "stop")
<1>1. CASE ms = <<>>
  BY <1>1 DEF AsyncSend
<1>2. CASE ms # <<>>
  <2>1. PICK c : ms = <<c>> /\ IF c.kind \in PowerKinds THEN c.kind = "stop"
                                 ELSE FinalIs(lnTx, lnTrack, "stop")
    BY <1>2
  <2>2. Fits
    BY <1>2 DEF AsyncSend, Clean
  <2> DEFINE m == [cmd |-> c, from |-> w]
  <2>3. lnTx' = Append(lnTx, m)
    BY <1>2, <2>1, <2>2 DEF AsyncSend
  <2>4. IF IsPower(m) THEN m.cmd.kind = "stop" ELSE FinalIs(lnTx, lnTrack, "stop")
    BY <2>1 DEF IsPower
  <2> HIDE DEF m
  <2> QED
    BY <2>3, <2>4, FinalAppend
<1> QED
  BY <1>1, <1>2

\* The messages of a frame that is no power command.
LEMMA NoPowerMessages ==
  ASSUME NEW f \in Frames, IsPower(f) => f.response
  PROVE  \/ LnMessages(f) = <<>>
         \/ \E c : LnMessages(f) = <<c>> /\ c.kind \notin PowerKinds
<1>1. CASE LnMessages(f) = <<>>
  BY <1>1
<1>2. CASE LnMessages(f) # <<>>
  <2>1. PICK c \in Command : LnMessages(f) = <<c>> /\ c.kind = f.cmd.kind /\ f.response = (c.kind = "sensor")
    BY <1>2, LnForm
  <2>2. c.kind \notin PowerKinds
    BY <2>1 DEF IsPower, PowerKinds
  <2> QED
    BY <2>1, <2>2
<1> QED
  BY <1>1, <1>2

LEMMA NoneWaitsTail ==
  ASSUME NoneWaits, IsSeq(canRx), IsSeq(lnRx),
         canRx' = canRx \/ (canRx # <<>> /\ canRx' = Tail(canRx)),
         lnRx' = lnRx \/ (lnRx # <<>> /\ lnRx' = Tail(lnRx))
  PROVE  NoneWaits'
<1>1. \A i \in 1..Len(canRx') : \E j \in 1..Len(canRx) : canRx'[i] = canRx[j]
  <2>1. CASE canRx' = canRx
    BY <2>1
  <2>2. CASE canRx # <<>> /\ canRx' = Tail(canRx)
    <3>1. /\ Len(canRx) \in Nat /\ Len(canRx') = Len(canRx) - 1
          /\ \A i \in 1..Len(canRx') : canRx'[i] = canRx[i + 1]
      BY <2>2, Removed
    <3> QED
      BY <3>1
  <2> QED
    BY <2>1, <2>2
<1>2. \A i \in 1..Len(lnRx') : \E j \in 1..Len(lnRx) : lnRx'[i] = lnRx[j]
  <2>1. CASE lnRx' = lnRx
    BY <2>1
  <2>2. CASE lnRx # <<>> /\ lnRx' = Tail(lnRx)
    <3>1. /\ Len(lnRx) \in Nat /\ Len(lnRx') = Len(lnRx) - 1
          /\ \A i \in 1..Len(lnRx') : lnRx'[i] = lnRx[i + 1]
      BY <2>2, Removed
    <3> QED
      BY <3>1
  <2> QED
    BY <2>1, <2>2
<1>3. \A i \in 1..Len(canRx') : IsPower(canRx'[i]) => canRx'[i].response
  BY <1>1 DEF NoneWaits
<1>4. \A i \in 1..Len(lnRx') : lnRx'[i].kind \notin PowerKinds
  BY <1>2 DEF NoneWaits
<1>5. \A i : canRx[i]' = canRx'[i] /\ lnRx[i]' = lnRx'[i]
  OBVIOUS
<1> QED
  BY <1>3, <1>4 DEF NoneWaits, IsPower

LEMMA NoneWaitsCan ==
  ASSUME NoneWaits, IsSeq(canRx), NEW f, IsPower(f) => f.response, canRx' = Append(canRx, f),
         lnRx' = lnRx
  PROVE  NoneWaits'
<1>1. /\ Len(canRx) \in Nat /\ Len(canRx') = Len(canRx) + 1 /\ canRx'[Len(canRx) + 1] = f
      /\ \A i \in 1..Len(canRx) : canRx'[i] = canRx[i]
  BY Appended
<1>2. \A i \in 1..Len(canRx') : i \in 1..Len(canRx) \/ i = Len(canRx) + 1
  BY <1>1
<1>3. \A i \in 1..Len(canRx') : IsPower(canRx'[i]) => canRx'[i].response
  BY <1>1, <1>2 DEF NoneWaits
<1> QED
  BY <1>3 DEF NoneWaits, IsPower

LEMMA NoneWaitsLn ==
  ASSUME NoneWaits, IsSeq(lnRx), NEW c, c.kind \notin PowerKinds, lnRx' = Append(lnRx, c),
         canRx' = canRx
  PROVE  NoneWaits'
<1>1. /\ Len(lnRx) \in Nat /\ Len(lnRx') = Len(lnRx) + 1 /\ lnRx'[Len(lnRx) + 1] = c
      /\ \A i \in 1..Len(lnRx) : lnRx'[i] = lnRx[i]
  BY Appended
<1>2. \A i \in 1..Len(lnRx') : i \in 1..Len(lnRx) \/ i = Len(lnRx) + 1
  BY <1>1
<1>3. \A i \in 1..Len(lnRx') : lnRx'[i].kind \notin PowerKinds
  BY <1>1, <1>2 DEF NoneWaits
<1> QED
  BY <1>3 DEF NoneWaits, IsPower

\* Whatever was passed over stays on record.
LEMMA CleanKept ==
  ASSUME Clean', passed \subseteq passed'
  PROVE  Clean
BY DEF Clean

LEMMA StopInit == Init => StopInv
BY DEF Init, StopInv, StopGiven

\* What the RoutingTask does with the lines.
LEMMA StopWake ==
  ASSUME StopInv, Wake \/ NextQueue
  PROVE  StopInv'
<1>1. UNCHANGED <<request, canRx, lnRx, toCentral, track, lnTx, lnTrack, passed, power>>
  BY DEF Wake, NextQueue, lineVars, canVars, lnVars, history
<1>2. OnTheWay => OnTheWay'
  BY <1>1 DEF Wake, NextQueue, OnTheWay
<1>3. AtLine => AtLine'
  BY <1>1 DEF Wake, NextQueue, AtLine
<1>4. Clean' = Clean /\ StopGiven' = StopGiven /\ NoneWaits' = NoneWaits
  BY <1>1 DEF Clean, StopGiven, NoneWaits, IsPower
<1> QED
  BY <1>2, <1>3, <1>4 DEF StopInv

LEMMA StopLines ==
  ASSUME TypeInv, StopInv, processI2CStopGo
  PROVE  StopInv'
<1> DEFINE f == Frame(MakeRR32CanPowerMsg, "none", FALSE, "line")
<1>1. /\ pc = "power" /\ request' = {} /\ seen' = {}
      /\ UNCHANGED <<canRx, lnRx, track, lnTrack, power>>
      /\ \/ seen # {} /\ toCentral' = Append(toCentral, f) /\ AsyncSend(LnMessages(f), f.from)
         \/ seen = {} /\ UNCHANGED <<toCentral, lnTx, passed>>
  BY DEF processI2CStopGo, SendPacket
<1> SUFFICES ASSUME Clean', StopGiven' PROVE NoneWaits' /\ OnTheWay'
  BY DEF StopInv
<1>2. Clean
  BY <1>1, CleanKept DEF AsyncSend
<1>3. NoneWaits /\ (AtLine \/ OnTheWay)
  BY <1>1, <1>2 DEF StopInv, StopGiven
<1>4. NoneWaits'
  BY <1>1, <1>3 DEF NoneWaits, IsPower
<1>5. CASE AtLine
  <2>1. "stop" \in seen
    BY <1>1, <1>5 DEF AtLine
  <2>2. MakeRR32CanPowerMsg = Power("stop")
    BY <2>1 DEF MakeRR32CanPowerMsg
  <2>3. f = Frame(Power("stop"), "none", FALSE, "line")
    BY <2>2
  <2>4. f.cmd = Power("stop") /\ IsPower(f) /\ f.cmd.kind = "stop"
    BY <2>3 DEF Frame, Power, IsPower, PowerKinds
  <2>5. f.response = FALSE
    BY <2>3 DEF Frame
  <2> HIDE DEF f
  <2>6. LnMessages(f) = <<f.cmd>>
    BY <2>4, <2>5 DEF LnMessages, IsPower, PowerKinds
  <2>7. \E c : LnMessages(f) = <<c>> /\ IF c.kind \in PowerKinds THEN c.kind = "stop"
                                        ELSE FinalIs(lnTx, lnTrack, "stop")
    BY <2>4, <2>6 DEF IsPower
  <2>8. toCentral' = Append(toCentral, f) /\ AsyncSend(LnMessages(f), f.from)
    BY <1>1, <2>1
  <2>9. FinalIs(toCentral', track', "stop")
    BY <1>1, <2>4, <2>8, FinalAppend, QueuesAreSeq
  <2>10. FinalIs(lnTx', lnTrack', "stop")
    BY <1>1, <2>8, <2>7, FinalAsync, QueuesAreSeq
  <2> QED
    BY <1>1, <1>4, <2>9, <2>10 DEF OnTheWay
<1>6. CASE OnTheWay
  BY <1>1, <1>4, <1>6 DEF OnTheWay
<1> QED
  BY <1>3, <1>5, <1>6

\* The gateway handles a message that is no new power command.
LEMMA StopForward ==
  ASSUME TypeInv, StopInv, UNCHANGED <<pc, request, seen, notified, track, lnTrack, power>>,
         passed \subseteq passed',
         NoneWaits => NoneWaits',
         NoneWaits /\ Clean' => toCentral' = toCentral \/ \E f : toCentral' = Append(toCentral, f) /\ ~IsPower(f),
         NoneWaits /\ Clean' /\ FinalIs(lnTx, lnTrack, "stop") => FinalIs(lnTx', lnTrack, "stop")
  PROVE  StopInv'
<1> SUFFICES ASSUME Clean', StopGiven' PROVE NoneWaits' /\ (AtLine' \/ OnTheWay')
  BY DEF StopInv
<1>1. Clean
  BY CleanKept
<1>2. NoneWaits /\ (AtLine \/ OnTheWay)
  BY <1>1 DEF StopInv, StopGiven
<1>3. AtLine => AtLine'
  BY DEF AtLine
<1>4. ASSUME OnTheWay PROVE OnTheWay'
  <2>1. FinalIs(toCentral, track, "stop") /\ FinalIs(lnTx, lnTrack, "stop")
    BY <1>4 DEF OnTheWay
  <2>2. FinalIs(toCentral', track, "stop")
    BY <1>2, <2>1, FinalAppend, QueuesAreSeq
  <2>3. FinalIs(lnTx', lnTrack, "stop")
    BY <1>2, <2>1
  <2> QED
    BY <1>4, <2>2, <2>3 DEF OnTheWay
<1> QED
  BY <1>2, <1>3, <1>4

LEMMA StopCAN ==
  ASSUME TypeInv, StopInv, processCAN
  PROVE  StopInv'
<1> DEFINE f == Head(canRx)
<1>1. /\ canRx # <<>> /\ canRx' = Tail(canRx) /\ AsyncSend(LnMessages(f), f.from)
      /\ UNCHANGED <<pc, request, seen, notified, track, lnTrack, power, toCentral, lnRx>>
  BY DEF processCAN, lineVars
<1>2. f \in Frames
  BY <1>1 DEF TypeInv, QueueType
<1>3. NoneWaits => (IsPower(f) => f.response)
  <2>1. Len(canRx) \in Nat /\ Len(canRx) >= 1 /\ f = canRx[1]
    BY <1>1, Removed, QueuesAreSeq
  <2> QED
    BY <2>1 DEF NoneWaits
<1>4. NoneWaits => NoneWaits'
  BY <1>1, NoneWaitsTail, QueuesAreSeq
<1> HIDE DEF f
<1>5. ASSUME NoneWaits, Clean', FinalIs(lnTx, lnTrack, "stop") PROVE FinalIs(lnTx', lnTrack, "stop")
  <2>1. \/ LnMessages(f) = <<>>
        \/ \E c : LnMessages(f) = <<c>> /\ c.kind \notin PowerKinds
    BY <1>2, <1>3, <1>5, NoPowerMessages
  <2>2. FinalIs(lnTx', lnTrack', "stop")
    BY <1>1, <1>5, <2>1, FinalAsync, QueuesAreSeq
  <2> QED
    BY <1>1, <2>2
<1>6. passed \subseteq passed'
  BY <1>1 DEF AsyncSend
<1> QED
  BY <1>1, <1>4, <1>5, <1>6, StopForward

LEMMA StopI2C ==
  ASSUME TypeInv, StopInv, processI2CMessages
  PROVE  StopInv'
<1> DEFINE f == MakeRR32CanMsg(Head(i2cRx))
<1>1. /\ i2cRx # <<>> /\ toCentral' = Append(toCentral, f) /\ AsyncSend(LnMessages(f), f.from)
      /\ UNCHANGED <<pc, request, seen, notified, track, lnTrack, power, canRx, lnRx>>
  BY DEF processI2CMessages, lineVars, SendPacket
<1>2. f \in Frames /\ ~IsPower(f)
  <2>1. Head(i2cRx) \in Message
    BY <1>1 DEF TypeInv, QueueType
  <2>2. f \in Frames /\ f.cmd.kind = "turnout"
    BY <2>1, CanMsgType DEF TypeInv
  <2> QED
    BY <2>2 DEF IsPower, PowerKinds
<1> HIDE DEF f
<1>3. NoneWaits => NoneWaits'
  BY <1>1 DEF NoneWaits, IsPower
<1>4. ASSUME Clean', FinalIs(lnTx, lnTrack, "stop") PROVE FinalIs(lnTx', lnTrack, "stop")
  <2>1. \/ LnMessages(f) = <<>>
        \/ \E c : LnMessages(f) = <<c>> /\ c.kind \notin PowerKinds
    BY <1>2, NoPowerMessages
  <2>2. FinalIs(lnTx', lnTrack', "stop")
    BY <1>1, <1>4, <2>1, FinalAsync, QueuesAreSeq
  <2> QED
    BY <1>1, <2>2
<1>5. passed \subseteq passed'
  BY <1>1 DEF AsyncSend
<1> QED
  BY <1>1, <1>2, <1>3, <1>4, <1>5, StopForward

LEMMA StopLocoNet ==
  ASSUME TypeInv, StopInv, processLocoNet \/ HandleDummyMessages
  PROVE  StopInv'
<1>1. /\ lnRx # <<>> /\ lnRx' = Tail(lnRx)
      /\ UNCHANGED <<pc, request, seen, notified, track, lnTrack, power, canRx>>
  BY DEF processLocoNet, HandleDummyMessages, lineVars, canVars
<1>2. NoneWaits => NoneWaits'
  BY <1>1, NoneWaitsTail, QueuesAreSeq
<1>3. CASE processLocoNet
  <2> DEFINE f == FromLn(Head(lnRx))
  <2>1. toCentral' = Append(toCentral, f) /\ UNCHANGED <<lnTx, passed>>
    BY <1>3 DEF processLocoNet, SendPacket
  <2>2. ASSUME NoneWaits PROVE ~IsPower(f)
    <3>1. Len(lnRx) \in Nat /\ Len(lnRx) >= 1 /\ Head(lnRx) = lnRx[1]
      BY <1>1, Removed, QueuesAreSeq
    <3>2. Head(lnRx) \in Command /\ Head(lnRx).kind \notin PowerKinds
      BY <1>1, <2>2, <3>1 DEF NoneWaits, TypeInv, QueueType
    <3> QED
      BY <3>2, FromLnType DEF IsPower
  <2> HIDE DEF f
  <2>3. NoneWaits => \E g : toCentral' = Append(toCentral, g) /\ ~IsPower(g)
    BY <2>1, <2>2
  <2> QED
    BY <1>1, <1>2, <2>1, <2>3, StopForward
<1>4. CASE HandleDummyMessages
  <2>1. toCentral' = toCentral /\ (AsyncSend(<<Query>>, "own") \/ UNCHANGED <<lnTx, passed>>)
    BY <1>4 DEF HandleDummyMessages, canVars
  <2>2. Query.kind \notin PowerKinds
    BY DEF Query, PowerKinds
  <2>3. ASSUME Clean', FinalIs(lnTx, lnTrack, "stop") PROVE FinalIs(lnTx', lnTrack, "stop")
    <3>1. CASE AsyncSend(<<Query>>, "own")
      <4>1. FinalIs(lnTx', lnTrack', "stop")
        BY <1>1, <2>2, <2>3, <3>1, FinalAsync, QueuesAreSeq
      <4> QED
        BY <1>1, <4>1
    <3> QED
      BY <2>1, <2>3, <3>1
  <2>4. passed \subseteq passed'
    BY <2>1 DEF AsyncSend
  <2> QED
    BY <1>1, <1>2, <2>1, <2>3, <2>4, StopForward
<1> QED
  BY <1>3, <1>4

\* The devices take a command from their queue.
LEMMA StopDevices ==
  ASSUME TypeInv, StopInv, DoBlockingSend \/ Central
  PROVE  StopInv'
<1>1. UNCHANGED <<pc, request, seen, power, passed, lnRx>> /\ (notified => notified')
  BY DEF DoBlockingSend, Central, taskVars, lineVars, history, lnVars
<1>2. NoneWaits => NoneWaits'
  <2>1. CASE DoBlockingSend
    <3>1. canRx' = canRx
      BY <2>1 DEF DoBlockingSend, canVars
    <3> QED
      BY <1>1, <3>1 DEF NoneWaits, IsPower
  <2>2. CASE Central
    <3> DEFINE f == Head(toCentral)
               g == [f EXCEPT !.response = TRUE]
    <3>1. toCentral # <<>> /\ (canRx' = canRx \/ canRx' = Append(canRx, g))
      BY <2>2 DEF Central
    <3>2. f \in Frames
      BY <3>1 DEF TypeInv, QueueType
    <3> HIDE DEF f
    <3>3. g.response
      BY <3>2 DEF Frames
    <3> HIDE DEF g
    <3>4. CASE canRx' = canRx
      BY <1>1, <3>4 DEF NoneWaits, IsPower
    <3> QED
      BY <1>1, <3>1, <3>3, <3>4, NoneWaitsCan, QueuesAreSeq
  <2> QED
    BY <2>1, <2>2
<1>3. FinalIs(toCentral, track, "stop") => FinalIs(toCentral', track', "stop")
  <2>1. CASE DoBlockingSend
    BY <2>1 DEF DoBlockingSend, canVars
  <2>2. CASE Central
    <3>1. /\ toCentral # <<>> /\ toCentral' = Tail(toCentral)
          /\ track' = IF IsPower(Head(toCentral)) THEN Head(toCentral).cmd.kind ELSE track
      BY <2>2 DEF Central, IsPower
    <3> QED
      BY <3>1, FinalTail, QueuesAreSeq
  <2> QED
    BY <2>1, <2>2
<1>4. FinalIs(lnTx, lnTrack, "stop") => FinalIs(lnTx', lnTrack', "stop")
  <2>1. CASE Central
    BY <2>1 DEF Central, lnVars
  <2>2. CASE DoBlockingSend
    <3>1. /\ lnTx # <<>> /\ lnTx' = Tail(lnTx)
          /\ lnTrack' = IF IsPower(Head(lnTx)) THEN Head(lnTx).cmd.kind ELSE lnTrack
      BY <2>2 DEF DoBlockingSend, IsPower
    <3> QED
      BY <3>1, FinalTail, QueuesAreSeq
  <2> QED
    BY <2>1, <2>2
<1>5. AtLine => AtLine'
  BY <1>1 DEF AtLine
<1>6. OnTheWay => OnTheWay'
  BY <1>1, <1>3, <1>4 DEF OnTheWay
<1>7. Clean' = Clean /\ StopGiven' = StopGiven
  BY <1>1 DEF Clean, StopGiven
<1> QED
  BY <1>2, <1>5, <1>6, <1>7 DEF StopInv

\* A user gives a command; a power command of a bus is not the stop of the line.
LEMMA StopGive ==
  ASSUME TypeInv, StopInv, UNCHANGED <<pc, request, seen, track, lnTx>>,
         passed \subseteq passed', notified => notified',
         StopGiven' => /\ power' = power /\ lnTrack' = lnTrack
                       /\ NoneWaits => NoneWaits'
                       /\ toCentral' = toCentral \/ \E f : toCentral' = Append(toCentral, f) /\ ~IsPower(f)
  PROVE  StopInv'
<1> SUFFICES ASSUME Clean', StopGiven' PROVE NoneWaits' /\ (AtLine' \/ OnTheWay')
  BY DEF StopInv
<1>1. Clean
  BY CleanKept
<1>2. StopGiven
  BY DEF StopGiven
<1>3. NoneWaits' /\ (AtLine \/ OnTheWay)
  BY <1>1, <1>2 DEF StopInv
<1>4. AtLine => AtLine'
  BY DEF AtLine
<1>5. ASSUME OnTheWay PROVE OnTheWay'
  <2>1. FinalIs(toCentral, track, "stop") /\ FinalIs(lnTx, lnTrack, "stop")
    BY <1>5 DEF OnTheWay
  <2>2. FinalIs(toCentral', track, "stop")
    BY <2>1, FinalAppend, QueuesAreSeq
  <2> QED
    BY <1>5, <2>1, <2>2 DEF OnTheWay
<1> QED
  BY <1>3, <1>4, <1>5

LEMMA StopKeys ==
  ASSUME TypeInv, StopInv,
         \/ \E k \in Keyboard : Release(k) \/ Repeat(k)
         \/ \E k \in Keyboard, u \in scenario.commands : u.from = "i2c" /\ Press(k, u.cmd)
         \/ KeyboardReceives
         \/ \E line \in PowerKinds : CooldownEnds(line)
         \/ UNCHANGED vars
  PROVE  StopInv'
<1> DEFINE Kept ==
             /\ UNCHANGED <<pc, request, seen, track, lnTx, lnTrack, canRx, lnRx, toCentral>>
             /\ passed \subseteq passed' /\ (notified => notified')
             /\ power' = power \/ power'.from = "i2c"
<1>1. ASSUME NEW k \in Keyboard, Release(k) \/ Repeat(k) PROVE Kept
  BY <1>1 DEF Release, Repeat, taskVars, lineVars, canVars, lnVars, userVars
<1>2. ASSUME NEW k \in Keyboard, NEW c, Press(k, c) PROVE Kept
  BY <1>2 DEF Press, Give, lineVars, canVars, lnVars
<1>3. ASSUME KeyboardReceives \/ UNCHANGED vars \/ \E line \in PowerKinds : CooldownEnds(line)
      PROVE  Kept
  BY <1>3 DEF KeyboardReceives, CooldownEnds, vars, taskVars, lineVars, canVars, lnVars, history
<1>4. Kept
  BY <1>1, <1>2, <1>3, Zenon
<1>5. StopGiven' => power' = power
  BY <1>4 DEF StopGiven
<1>6. NoneWaits => NoneWaits'
  BY <1>4 DEF NoneWaits, IsPower
<1> QED
  BY <1>4, <1>5, <1>6, StopGive

LEMMA StopCanUser ==
  ASSUME TypeInv, StopInv, NEW c, NEW rail, CanUser(c, rail)
  PROVE  StopInv'
<1> DEFINE f == Frame(c, rail, c.kind = "sensor", "can")
<1>1. /\ UNCHANGED <<pc, request, seen, track, lnTx, lnTrack, lnRx>>
      /\ canRx' = Append(canRx, f) /\ toCentral' = Append(toCentral, f)
      /\ passed \subseteq passed' /\ notified'
      /\ power' = IF c.kind \in PowerKinds THEN [kind |-> c.kind, from |-> "can"] ELSE power
  BY DEF CanUser, Crossing, Give, lineVars, lnVars
<1>2. ASSUME StopGiven' PROVE power' = power /\ ~IsPower(f)
  <2>1. c.kind \notin PowerKinds
    BY <1>1, <1>2 DEF StopGiven
  <2> QED
    BY <1>1, <2>1 DEF IsPower, Frame
<1> HIDE DEF f
<1>3. ASSUME StopGiven', NoneWaits PROVE NoneWaits'
  BY <1>1, <1>2, <1>3, NoneWaitsCan, QueuesAreSeq
<1>4. StopGiven' => \E g : toCentral' = Append(toCentral, g) /\ ~IsPower(g)
  BY <1>1, <1>2
<1> QED
  BY <1>1, <1>2, <1>3, <1>4, StopGive

LEMMA StopLnUser ==
  ASSUME TypeInv, StopInv, NEW c, LnUser(c)
  PROVE  StopInv'
<1>1. /\ UNCHANGED <<pc, request, seen, track, lnTx, toCentral, canRx>>
      /\ lnRx' = Append(lnRx, c)
      /\ lnTrack' = IF c.kind \in PowerKinds THEN c.kind ELSE lnTrack
      /\ passed \subseteq passed' /\ notified'
      /\ power' = IF c.kind \in PowerKinds THEN [kind |-> c.kind, from |-> "ln"] ELSE power
  BY DEF LnUser, Crossing, Give, lineVars, canVars
<1>2. ASSUME StopGiven' PROVE power' = power /\ lnTrack' = lnTrack /\ c.kind \notin PowerKinds
  <2>1. c.kind \notin PowerKinds
    BY <1>1, <1>2 DEF StopGiven
  <2> QED
    BY <1>1, <2>1
<1>3. ASSUME StopGiven', NoneWaits PROVE NoneWaits'
  BY <1>1, <1>2, <1>3, NoneWaitsLn, QueuesAreSeq
<1> QED
  BY <1>1, <1>2, <1>3, StopGive

\* An edge of the stop line: no power command waits, or it would be overtaken.
LEMMA StopEdge ==
  ASSUME TypeInv, NEW line \in PowerKinds, Edge(line)
  PROVE  StopInv'
<1> SUFFICES ASSUME Clean', StopGiven' PROVE NoneWaits' /\ AtLine'
  BY DEF StopInv
<1>1. /\ notified' /\ request' = request \cup {line} /\ UNCHANGED <<pc, canRx, lnRx>>
      /\ power' = [kind |-> line, from |-> "line"]
  BY DEF Edge, Give, Power, canVars, lnVars
<1>2. line = "stop"
  BY <1>1 DEF StopGiven
<1>3. "wiped" \notin passed' /\ "overtaken" \notin passed'
  BY DEF Clean
<1>4. pc # "power"
  BY <1>3 DEF Edge
<1>5. /\ \A i \in 1..Len(canRx) : IsPower(canRx[i]) => canRx[i].response
      /\ \A i \in 1..Len(lnRx) : lnRx[i].kind \notin PowerKinds
  BY <1>3 DEF Edge, IsPower
<1>6. NoneWaits'
  BY <1>1, <1>5 DEF NoneWaits, IsPower
<1>7. AtLine'
  BY <1>1, <1>2, <1>4 DEF AtLine
<1> QED
  BY <1>6, <1>7

LEMMA StopStep ==
  ASSUME TypeInv, StopInv, [Next]_vars
  PROVE  StopInv'
<1>1. CASE RoutingTask
  BY <1>1, StopWake, StopLines, StopCAN, StopI2C, StopLocoNet, Zenon DEF RoutingTask
<1>2. CASE Users
  <2>1. ASSUME NEW u \in scenario.commands, u.from = "line", Edge(u.cmd.kind) PROVE StopInv'
    BY <2>1, GivenType, StopEdge
  <2> QED
    BY <1>2, <2>1, StopCanUser, StopLnUser, StopKeys, Zenon DEF Users
<1>3. CASE DoBlockingSend \/ Central \/ KeyboardReceives \/ UNCHANGED vars
  BY <1>3, StopDevices, StopKeys, Zenon
<1> QED
  BY <1>1, <1>2, <1>3, Zenon DEF Next

\* A stop from the stop line, with no power command after it, stops the central
\* and the LocoNet devices once all is quiet, unless its edge fell between the
\* copy and the clearing of the flags in getStopGoRequest(), overtook a power
\* command of a bus, or a message was dropped for want of room.
THEOREM StopReaches == Spec => []StopStops
<1>1. Init => TypeInv /\ StopInv
  BY TypeInit, StopInit
<1>2. TypeInv /\ StopInv /\ [Next]_vars => TypeInv' /\ StopInv'
  BY TypeStep, StopStep
<1>3. StopInv => StopStops
  <2> SUFFICES ASSUME StopInv, Clean, Rest, StopGiven PROVE track = "stop" /\ lnTrack = "stop"
    BY DEF StopStops, EachStopStops, Clean, StopGiven
  <2>1. pc = "blocked" /\ ~notified /\ toCentral = <<>> /\ lnTx = <<>>
    BY DEF Rest
  <2>2. OnTheWay
    BY <2>1 DEF StopInv, AtLine
  <2>3. NoPower(toCentral) /\ NoPower(lnTx)
    BY <2>1 DEF NoPower
  <2> QED
    BY <2>2, <2>3 DEF OnTheWay, FinalIs
<1> QED
  BY <1>1, <1>2, <1>3, PTL DEF Spec

-----------------------------------------------------------------------------
(***************************************************************************)
(* What is under way.  Each element of a queue holds at most one command   *)
(* of a history: w[i] is <<>> or <<c>>.                                    *)
(***************************************************************************)
\* The first n elements hold, in their order, all from entry a + 1 to entry b of
\* the history; pos says how far one has come.
Carries(w, n, a, b, log) ==
  \E pos \in [0..n -> Nat] :
    /\ pos[0] = a /\ pos[n] = b
    /\ \A i \in 1..n :
         \/ w[i] = <<>> /\ pos[i] = pos[i - 1]
         \/ pos[i] = pos[i - 1] + 1 /\ pos[i] <= Len(log) /\ w[i] = <<log[pos[i]]>>

Prefix(s, log) == Len(s) <= Len(log) /\ \A i \in 1..Len(s) : s[i] = log[i]

LEMMA CarriesNothing == \A w, log : \A a \in Nat : Carries(w, 0, a, a, log)
<1> SUFFICES ASSUME NEW w, NEW log, NEW a \in Nat PROVE Carries(w, 0, a, a, log)
  OBVIOUS
<1> DEFINE pos == [i \in 0..0 |-> a]
<1>1. pos \in [0..0 -> Nat] /\ pos[0] = a
  OBVIOUS
<1> HIDE DEF pos
<1>2. \A i \in 1..0 : FALSE
  OBVIOUS
<1> QED
  BY <1>1, <1>2 DEF Carries

\* The history grows.
LEMMA CarriesMore ==
  ASSUME NEW w, NEW n \in Nat, NEW a, NEW b, NEW log, NEW more,
         Len(log) \in Nat, Len(more) \in Nat, Prefix(log, more), Carries(w, n, a, b, log)
  PROVE  Carries(w, n, a, b, more)
<1>1. PICK pos \in [0..n -> Nat] :
        /\ pos[0] = a /\ pos[n] = b
        /\ \A i \in 1..n :
             \/ w[i] = <<>> /\ pos[i] = pos[i - 1]
             \/ pos[i] = pos[i - 1] + 1 /\ pos[i] <= Len(log) /\ w[i] = <<log[pos[i]]>>
  BY DEF Carries
<1>2. ASSUME NEW i \in 1..n, pos[i] = pos[i - 1] + 1, pos[i] <= Len(log), w[i] = <<log[pos[i]]>>
      PROVE  pos[i] <= Len(more) /\ w[i] = <<more[pos[i]]>>
  <2>1. i \in 0..n /\ i - 1 \in 0..n
    OBVIOUS
  <2>2. pos[i] \in Nat /\ pos[i - 1] \in Nat
    BY <1>1, <2>1
  <2> DEFINE p == pos[i]
  <2>3. p \in 1..Len(log) /\ p <= Len(more)
    BY <1>2, <2>2 DEF Prefix
  <2> HIDE DEF p
  <2>4. more[p] = log[p]
    BY <2>3 DEF Prefix
  <2> QED
    BY <1>2, <2>3, <2>4 DEF p
<1> QED
  BY <1>1, <1>2 DEF Carries

\* One element more.
LEMMA CarriesAdd ==
  ASSUME NEW w, NEW v, NEW n \in Nat, NEW a, NEW b \in Nat, NEW log, Len(log) \in Nat,
         Carries(w, n, a, b, log), \A i \in 1..n : v[i] = w[i]
  PROVE  /\ v[n + 1] = <<>> => Carries(v, n + 1, a, b, log)
         /\ b < Len(log) /\ v[n + 1] = <<log[b + 1]>> => Carries(v, n + 1, a, b + 1, log)
<1>1. PICK pos \in [0..n -> Nat] :
        /\ pos[0] = a /\ pos[n] = b
        /\ \A i \in 1..n :
             \/ w[i] = <<>> /\ pos[i] = pos[i - 1]
             \/ pos[i] = pos[i - 1] + 1 /\ pos[i] <= Len(log) /\ w[i] = <<log[pos[i]]>>
  BY DEF Carries
<1>2. ASSUME NEW e \in Nat,
             \/ v[n + 1] = <<>> /\ e = b
             \/ e = b + 1 /\ e <= Len(log) /\ v[n + 1] = <<log[e]>>
      PROVE  Carries(v, n + 1, a, e, log)
  <2> DEFINE q == [i \in 0..(n + 1) |-> IF i = n + 1 THEN e ELSE pos[i]]
  <2>1. q \in [0..(n + 1) -> Nat] /\ q[n + 1] = e
    <3>1. \A i \in 0..(n + 1) : i = n + 1 \/ i \in 0..n
      OBVIOUS
    <3>2. n + 1 \in 0..(n + 1)
      OBVIOUS
    <3> QED
      BY <1>1, <3>1, <3>2
  <2>2. \A i \in 0..n : i # n + 1 /\ i \in 0..(n + 1)
    OBVIOUS
  <2>3. \A i \in 0..n : q[i] = pos[i]
    BY <2>2
  <2> HIDE DEF q
  <2>4. q[0] = a /\ q[n] = b
    BY <1>1, <2>3
  <2>5. ASSUME NEW i \in 1..(n + 1)
        PROVE  \/ v[i] = <<>> /\ q[i] = q[i - 1]
               \/ q[i] = q[i - 1] + 1 /\ q[i] <= Len(log) /\ v[i] = <<log[q[i]]>>
    <3>1. CASE i \in 1..n
      <4>1. i \in 0..n /\ i - 1 \in 0..n
        BY <3>1
      <4>2. q[i] = pos[i] /\ q[i - 1] = pos[i - 1] /\ v[i] = w[i]
        BY <2>3, <3>1, <4>1
      <4> QED
        BY <1>1, <3>1, <4>2
    <3>2. CASE i = n + 1
      <4>1. i - 1 = n
        BY <3>2
      <4> QED
        BY <1>2, <2>1, <2>4, <3>2, <4>1
    <3> QED
      BY <3>1, <3>2
  <2> QED
    BY <2>1, <2>4, <2>5 DEF Carries
<1>3. b + 1 \in Nat /\ (b < Len(log) => b + 1 <= Len(log))
  OBVIOUS
<1> QED
  BY <1>2, <1>3

\* The first element is taken.
Shifted(v, w, n) == \A i \in 1..(n - 1) : v[i] = w[i + 1]

LEMMA CarriesDrop ==
  ASSUME NEW w, NEW v, NEW n \in Nat, n >= 1, NEW a \in Nat, NEW b, NEW log, Len(log) \in Nat,
         Carries(w, n, a, b, log), Shifted(v, w, n)
  PROVE  \/ w[1] = <<>> /\ Carries(v, n - 1, a, b, log)
         \/ a < Len(log) /\ w[1] = <<log[a + 1]>> /\ Carries(v, n - 1, a + 1, b, log)
<1>1. PICK pos \in [0..n -> Nat] :
        /\ pos[0] = a /\ pos[n] = b
        /\ \A i \in 1..n :
             \/ w[i] = <<>> /\ pos[i] = pos[i - 1]
             \/ pos[i] = pos[i - 1] + 1 /\ pos[i] <= Len(log) /\ w[i] = <<log[pos[i]]>>
  BY DEF Carries
<1> DEFINE q == [i \in 0..(n - 1) |-> pos[i + 1]]
<1>2. \A i \in 0..(n - 1) : i + 1 \in 0..n
  OBVIOUS
<1>3. q \in [0..(n - 1) -> Nat] /\ \A i \in 0..(n - 1) : q[i] = pos[i + 1]
  BY <1>1, <1>2
<1> HIDE DEF q
<1>4. q[0] = pos[1] /\ q[n - 1] = pos[n]
  <2>1. 0 \in 0..(n - 1) /\ n - 1 \in 0..(n - 1) /\ 0 + 1 = 1 /\ (n - 1) + 1 = n
    OBVIOUS
  <2> QED
    BY <1>3, <2>1
<1>5. ASSUME NEW i \in 1..(n - 1)
      PROVE  \/ v[i] = <<>> /\ q[i] = q[i - 1]
             \/ q[i] = q[i - 1] + 1 /\ q[i] <= Len(log) /\ v[i] = <<log[q[i]]>>
  <2>1. i \in 0..(n - 1) /\ i - 1 \in 0..(n - 1) /\ (i - 1) + 1 = i /\ i + 1 \in 1..n /\ (i + 1) - 1 = i
    OBVIOUS
  <2>2. q[i] = pos[i + 1] /\ q[i - 1] = pos[i] /\ v[i] = w[i + 1]
    BY <1>3, <2>1 DEF Shifted
  <2>3. \/ w[i + 1] = <<>> /\ pos[i + 1] = pos[(i + 1) - 1]
        \/ pos[i + 1] = pos[(i + 1) - 1] + 1 /\ pos[i + 1] <= Len(log) /\ w[i + 1] = <<log[pos[i + 1]]>>
    BY <1>1, <2>1
  <2> QED
    BY <2>1, <2>2, <2>3
<1>6. Carries(v, n - 1, pos[1], b, log)
  BY <1>1, <1>3, <1>4, <1>5 DEF Carries
<1>7. \/ w[1] = <<>> /\ pos[1] = a
      \/ pos[1] = a + 1 /\ pos[1] <= Len(log) /\ w[1] = <<log[pos[1]]>>
  <2>1. 1 \in 1..n /\ 1 - 1 = 0
    OBVIOUS
  <2> QED
    BY <1>1, <2>1
<1> QED
  BY <1>6, <1>7

LEMMA CarriesEmpty ==
  ASSUME NEW w, NEW a, NEW b, NEW log, Carries(w, 0, a, b, log)
  PROVE  a = b
BY DEF Carries

-----------------------------------------------------------------------------
(***************************************************************************)
(* The queues, as far as they carry the commands of one bus.               *)
(***************************************************************************)
OfLn(q) == [i \in 1..Len(q) |-> IF q[i].kind = "query" THEN <<>> ELSE <<q[i]>>]
OfCan(q) == [i \in 1..Len(q) |-> IF q[i].from = "can" THEN LnMessages(q[i]) ELSE <<>>]
OfTx(q, from) == [i \in 1..Len(q) |-> IF q[i].from = from THEN <<q[i].cmd>> ELSE <<>>]

\* The commands of a bus which are in the LocoNet queue are those that follow
\* what was sent, up to entry m of the history.
FollowsUp(q, from, sent, m, log) ==
  Prefix(sent, log) /\ Carries(OfTx(q, from), Len(q), Len(sent), m, log)
TxCarries(from, m) == FollowsUp(lnTx, from, got.ln[from], m, issued[from])

\* LocoNet can name the address.
Reach(c) == (c.kind = "turnout" => c.at < 2048) /\ (c.kind = "sensor" => c.at < 4096)

\* A frame from the bus is an answer of the central or the command of a user.
CanForm(f) ==
  /\ f.cmd.kind # "query"
  /\ \/ f.response /\ f.cmd.kind # "sensor"
     \/ f.from = "can" /\ f.response = (f.cmd.kind = "sensor") /\ Reach(f.cmd)

TxForm(m) == m.from = "own" \/ (m.from # "ln" /\ m.cmd.kind # "query")

CanForms(q) == \A i \in 1..Len(q) : CanForm(q[i])
TxForms(q) == \A i \in 1..Len(q) : TxForm(q[i])

LnToCan ==
  /\ Prefix(got.can["ln"], issued["ln"])
  /\ Carries(OfLn(lnRx), Len(lnRx), Len(got.can["ln"]), Len(issued["ln"]), issued["ln"])

CanToLn ==
  \E m \in Nat :
    /\ TxCarries("can", m)
    /\ Carries(OfCan(canRx), Len(canRx), m, Len(issued["can"]), issued["can"])

NotBack == got.can["can"] = <<>> /\ got.ln["ln"] = <<>>

\* With one key in use at a time the messages of the I2C bus are the commands
\* that have not been forwarded yet; each power-off follows a command for its
\* turnout, which the forwarder remembers.
SameTurnout(c, d) == c.at = d.at /\ c.value = d.value
InUse(k) == {keyboard[k].held, keyboard[k].asking} \ {Nothing}

I2cToCan ==
  /\ Prefix(got.can["i2c"], issued["i2c"])
  /\ Len(issued["i2c"]) = Len(got.can["i2c"]) + Len(i2cRx)
  /\ \A i \in 1..Len(i2cRx) : i2cRx[i] = OfKeyboard(issued["i2c"][Len(got.can["i2c"]) + i])

KeyOrder ==
  /\ \A n \in 1..Len(issued["i2c"]) :
       /\ issued["i2c"][n] \in KeyCommand
       /\ ~issued["i2c"][n].on => n > 1 /\ SameTurnout(issued["i2c"][n - 1], issued["i2c"][n])
  /\ Len(got.can["i2c"]) > 0 => SameTurnout(last, issued["i2c"][Len(got.can["i2c"])])
  /\ \A j, k \in Keyboard : Busy(j) /\ Busy(k) => j = k
  /\ \A k \in Keyboard : \A c \in InUse(k) :
       Len(issued["i2c"]) > 0 /\ SameTurnout(issued["i2c"][Len(issued["i2c"])], c)

ReachInv ==
  /\ CanForms(canRx) /\ TxForms(lnTx) /\ NotBack /\ LnToCan
  /\ "dropped" \notin passed => CanToLn
  /\ "overlap" \notin passed =>
       /\ I2cToCan /\ KeyOrder
       /\ "dropped" \notin passed => TxCarries("i2c", Len(got.can["i2c"]))

LEMMA BusNames == "i2c" \in Bus /\ "can" \in Bus /\ "ln" \in Bus /\ "line" \in Bus
BY DEF Bus

LEMMA LogFacts ==
  ASSUME TypeInv, NEW w \in Bus
  PROVE  /\ issued[w] \in Seq(Command) /\ Len(issued[w]) \in Nat
         /\ got.can[w] \in Seq(Command) /\ Len(got.can[w]) \in Nat
         /\ got.ln[w] \in Seq(Command) /\ Len(got.ln[w]) \in Nat
BY DEF TypeInv, LogType, SentType

LEMMA PrefixAppend ==
  ASSUME NEW S, NEW log \in Seq(S), NEW c \in S
  PROVE  Prefix(log, Append(log, c)) /\ Len(Append(log, c)) = Len(log) + 1 /\ Append(log, c)[Len(log) + 1] = c
         /\ Append(log, c) \in Seq(S)
BY DEF Prefix

LEMMA PrefixSame == \A s : Len(s) \in Nat => Prefix(s, s)
BY DEF Prefix

LEMMA PrefixOf ==
  ASSUME NEW s, NEW log, NEW more, Len(s) \in Nat, Len(log) \in Nat, Len(more) \in Nat,
         Prefix(s, log), Prefix(log, more)
  PROVE  Prefix(s, more)
BY DEF Prefix

\* One command more has arrived.
LEMMA PrefixNext ==
  ASSUME NEW S, NEW s \in Seq(S), NEW log, Len(log) \in Nat, Prefix(s, log), Len(s) < Len(log),
         NEW c \in S, c = log[Len(s) + 1]
  PROVE  Prefix(Append(s, c), log)
<1>1. Len(s) \in Nat /\ Len(Append(s, c)) = Len(s) + 1 /\ Append(s, c)[Len(s) + 1] = c
      /\ \A i \in 1..Len(s) : Append(s, c)[i] = s[i]
  OBVIOUS
<1>2. \A i \in 1..(Len(s) + 1) : i \in 1..Len(s) \/ i = Len(s) + 1
  BY <1>1
<1> QED
  BY <1>1, <1>2 DEF Prefix

LEMMA PrefixWhole ==
  ASSUME NEW S, NEW s \in Seq(S), NEW log \in Seq(S), Prefix(s, log), Len(s) = Len(log)
  PROVE  s = log
BY DEF Prefix

\* What a queue carries when an element comes, and when one is taken.
LEMMA OfLnAppend ==
  ASSUME NEW q, IsSeq(q), NEW c
  PROVE  /\ \A i \in 1..Len(q) : OfLn(Append(q, c))[i] = OfLn(q)[i]
         /\ OfLn(Append(q, c))[Len(q) + 1] = IF c.kind = "query" THEN <<>> ELSE <<c>>
<1>1. /\ Len(q) \in Nat /\ Len(Append(q, c)) = Len(q) + 1
      /\ \A i \in 1..Len(q) : Append(q, c)[i] = q[i]
      /\ Append(q, c)[Len(q) + 1] = c
  BY Appended
<1>2. Len(q) + 1 \in 1..(Len(q) + 1) /\ \A i \in 1..Len(q) : i \in 1..(Len(q) + 1)
  BY <1>1
<1> QED
  BY <1>1, <1>2 DEF OfLn

LEMMA OfLnTail ==
  ASSUME NEW q, IsSeq(q), q # <<>>
  PROVE  /\ Shifted(OfLn(Tail(q)), OfLn(q), Len(q))
         /\ OfLn(q)[1] = IF Head(q).kind = "query" THEN <<>> ELSE <<Head(q)>>
<1>1. /\ Len(q) \in Nat /\ Len(q) >= 1 /\ Len(Tail(q)) = Len(q) - 1 /\ Head(q) = q[1]
      /\ \A i \in 1..(Len(q) - 1) : Tail(q)[i] = q[i + 1]
  BY Removed
<1>2. 1 \in 1..Len(q) /\ \A i \in 1..(Len(q) - 1) : i + 1 \in 1..Len(q)
  BY <1>1
<1> QED
  BY <1>1, <1>2 DEF OfLn, Shifted

LEMMA OfCanAppend ==
  ASSUME NEW q, IsSeq(q), NEW f
  PROVE  /\ \A i \in 1..Len(q) : OfCan(Append(q, f))[i] = OfCan(q)[i]
         /\ OfCan(Append(q, f))[Len(q) + 1] = IF f.from = "can" THEN LnMessages(f) ELSE <<>>
<1>1. /\ Len(q) \in Nat /\ Len(Append(q, f)) = Len(q) + 1
      /\ \A i \in 1..Len(q) : Append(q, f)[i] = q[i]
      /\ Append(q, f)[Len(q) + 1] = f
  BY Appended
<1>2. Len(q) + 1 \in 1..(Len(q) + 1) /\ \A i \in 1..Len(q) : i \in 1..(Len(q) + 1)
  BY <1>1
<1> QED
  BY <1>1, <1>2 DEF OfCan

LEMMA OfCanTail ==
  ASSUME NEW q, IsSeq(q), q # <<>>
  PROVE  /\ Shifted(OfCan(Tail(q)), OfCan(q), Len(q))
         /\ OfCan(q)[1] = IF Head(q).from = "can" THEN LnMessages(Head(q)) ELSE <<>>
<1>1. /\ Len(q) \in Nat /\ Len(q) >= 1 /\ Len(Tail(q)) = Len(q) - 1 /\ Head(q) = q[1]
      /\ \A i \in 1..(Len(q) - 1) : Tail(q)[i] = q[i + 1]
  BY Removed
<1>2. 1 \in 1..Len(q) /\ \A i \in 1..(Len(q) - 1) : i + 1 \in 1..Len(q)
  BY <1>1
<1> QED
  BY <1>1, <1>2 DEF OfCan, Shifted

LEMMA OfTxAppend ==
  ASSUME NEW q, IsSeq(q), NEW m, NEW w
  PROVE  /\ \A i \in 1..Len(q) : OfTx(Append(q, m), w)[i] = OfTx(q, w)[i]
         /\ OfTx(Append(q, m), w)[Len(q) + 1] = IF m.from = w THEN <<m.cmd>> ELSE <<>>
<1>1. /\ Len(q) \in Nat /\ Len(Append(q, m)) = Len(q) + 1
      /\ \A i \in 1..Len(q) : Append(q, m)[i] = q[i]
      /\ Append(q, m)[Len(q) + 1] = m
  BY Appended
<1>2. Len(q) + 1 \in 1..(Len(q) + 1) /\ \A i \in 1..Len(q) : i \in 1..(Len(q) + 1)
  BY <1>1
<1> QED
  BY <1>1, <1>2 DEF OfTx

LEMMA OfTxTail ==
  ASSUME NEW q, IsSeq(q), q # <<>>, NEW w
  PROVE  /\ Shifted(OfTx(Tail(q), w), OfTx(q, w), Len(q))
         /\ OfTx(q, w)[1] = IF Head(q).from = w THEN <<Head(q).cmd>> ELSE <<>>
<1>1. /\ Len(q) \in Nat /\ Len(q) >= 1 /\ Len(Tail(q)) = Len(q) - 1 /\ Head(q) = q[1]
      /\ \A i \in 1..(Len(q) - 1) : Tail(q)[i] = q[i + 1]
  BY Removed
<1>2. 1 \in 1..Len(q) /\ \A i \in 1..(Len(q) - 1) : i + 1 \in 1..Len(q)
  BY <1>1
<1> QED
  BY <1>1, <1>2 DEF OfTx, Shifted

\* An answer is not forwarded to LocoNet, a command of a user is.
LEMMA CanFormForwards ==
  ASSUME NEW f \in Frames, CanForm(f)
  PROVE  \/ LnMessages(f) = <<>> /\ f.response /\ f.cmd.kind # "sensor"
         \/ LnMessages(f) = <<f.cmd>> /\ f.from = "can"
<1>1. CASE f.response /\ f.cmd.kind # "sensor"
  BY <1>1 DEF LnMessages
<1>2. CASE f.from = "can" /\ f.response = (f.cmd.kind = "sensor") /\ Reach(f.cmd)
  <2>1. f.cmd.kind \in PowerKinds \cup {"turnout", "sensor"}
    BY DEF CanForm, Frames, Command
  <2>2. LnMessages(f) # <<>>
    BY <1>2, <2>1 DEF LnMessages, PowerKinds
  <2>3. PICK c \in Command : LnMessages(f) = <<c>>
                             /\ ((f.cmd.kind = "turnout" => f.cmd.at < 2048) /\ (f.cmd.kind = "sensor" => f.cmd.at < 4096)
                                   => c = f.cmd)
    BY <2>2, LnForm
  <2> QED
    BY <1>2, <2>3 DEF Reach
<1> QED
  BY <1>1, <1>2 DEF CanForm

LEMMA FollowsMore ==
  ASSUME NEW q \in Seq(OutMessage), NEW w, NEW sent \in Seq(Command), NEW log \in Seq(Command),
         NEW more \in Seq(Command), NEW m \in Nat, FollowsUp(q, w, sent, m, log), Prefix(log, more)
  PROVE  FollowsUp(q, w, sent, m, more)
<1>1. Len(q) \in Nat /\ Len(sent) \in Nat /\ Len(log) \in Nat /\ Len(more) \in Nat
  OBVIOUS
<1>2. Prefix(sent, more)
  BY <1>1, PrefixOf DEF FollowsUp
<1>3. Carries(OfTx(q, w), Len(q), Len(sent), m, more)
  BY <1>1, CarriesMore DEF FollowsUp
<1> QED
  BY <1>2, <1>3 DEF FollowsUp

LEMMA FollowsAppend ==
  ASSUME NEW q \in Seq(OutMessage), NEW w, NEW sent \in Seq(Command), NEW log \in Seq(Command),
         NEW m \in Nat, FollowsUp(q, w, sent, m, log), NEW x
  PROVE  /\ x.from # w => FollowsUp(Append(q, x), w, sent, m, log)
         /\ x.from = w /\ m < Len(log) /\ x.cmd = log[m + 1] =>
              FollowsUp(Append(q, x), w, sent, m + 1, log)
<1>1. Len(q) \in Nat /\ Len(sent) \in Nat /\ Len(log) \in Nat /\ IsSeq(q)
  BY DEF IsSeq
<1>2. Len(Append(q, x)) = Len(q) + 1
  BY <1>1, Appended
<1>3. /\ \A i \in 1..Len(q) : OfTx(Append(q, x), w)[i] = OfTx(q, w)[i]
      /\ OfTx(Append(q, x), w)[Len(q) + 1] = IF x.from = w THEN <<x.cmd>> ELSE <<>>
  BY <1>1, OfTxAppend
<1> DEFINE o == OfTx(q, w)
           v == OfTx(Append(q, x), w)
           n == Len(q)
           a == Len(sent)
<1>4. /\ Carries(o, n, a, m, log) /\ n \in Nat /\ Len(log) \in Nat
      /\ \A i \in 1..n : v[i] = o[i]
      /\ v[n + 1] = IF x.from = w THEN <<x.cmd>> ELSE <<>>
      /\ Prefix(sent, log)
  BY <1>1, <1>3 DEF FollowsUp
<1>5. FollowsUp(Append(q, x), w, sent, m, log) = (Prefix(sent, log) /\ Carries(v, n + 1, a, m, log))
  BY <1>2 DEF FollowsUp
<1>6. FollowsUp(Append(q, x), w, sent, m + 1, log) = (Prefix(sent, log) /\ Carries(v, n + 1, a, m + 1, log))
  BY <1>2 DEF FollowsUp
<1> HIDE DEF o, v, n, a
<1>7. /\ v[n + 1] = <<>> => Carries(v, n + 1, a, m, log)
      /\ m < Len(log) /\ v[n + 1] = <<log[m + 1]>> => Carries(v, n + 1, a, m + 1, log)
  BY <1>4, CarriesAdd
<1> QED
  BY <1>4, <1>5, <1>6, <1>7

LEMMA FollowsTake ==
  ASSUME NEW q \in Seq(OutMessage), q # <<>>, NEW w, NEW sent \in Seq(Command),
         NEW log \in Seq(Command), NEW m \in Nat, FollowsUp(q, w, sent, m, log)
  PROVE  IF Head(q).from = w THEN FollowsUp(Tail(q), w, Append(sent, Head(q).cmd), m, log)
         ELSE FollowsUp(Tail(q), w, sent, m, log)
<1>1. Len(sent) \in Nat /\ Len(log) \in Nat /\ IsSeq(q) /\ Head(q) \in OutMessage
  BY DEF IsSeq
<1>2. Len(q) \in Nat /\ Len(q) >= 1 /\ Len(Tail(q)) = Len(q) - 1
  BY <1>1, Removed
<1>3. /\ Shifted(OfTx(Tail(q), w), OfTx(q, w), Len(q))
      /\ OfTx(q, w)[1] = IF Head(q).from = w THEN <<Head(q).cmd>> ELSE <<>>
  BY <1>1, OfTxTail
<1> DEFINE o == OfTx(q, w)
           v == OfTx(Tail(q), w)
           n == Len(q)
           a == Len(sent)
           c == Head(q).cmd
<1>4. /\ Carries(o, n, a, m, log) /\ n \in Nat /\ n >= 1 /\ Len(log) \in Nat /\ a \in Nat
      /\ Shifted(v, o, n)
      /\ o[1] = IF Head(q).from = w THEN <<c>> ELSE <<>>
      /\ Prefix(sent, log) /\ c \in Command
  BY <1>1, <1>2, <1>3 DEF FollowsUp, OutMessage
<1>5. FollowsUp(Tail(q), w, sent, m, log) = (Prefix(sent, log) /\ Carries(v, n - 1, a, m, log))
  BY <1>2 DEF FollowsUp
<1>6. Len(Append(sent, c)) = a + 1
  BY <1>4
<1>7. FollowsUp(Tail(q), w, Append(sent, c), m, log)
        = (Prefix(Append(sent, c), log) /\ Carries(v, n - 1, a + 1, m, log))
  BY <1>2, <1>6 DEF FollowsUp
<1> HIDE DEF o, v, n, a, c
<1>8. \/ o[1] = <<>> /\ Carries(v, n - 1, a, m, log)
      \/ a < Len(log) /\ o[1] = <<log[a + 1]>> /\ Carries(v, n - 1, a + 1, m, log)
  BY <1>4, CarriesDrop
<1>9. CASE Head(q).from = w
  <2>1. a < Len(log) /\ c = log[a + 1] /\ Carries(v, n - 1, a + 1, m, log)
    BY <1>4, <1>8, <1>9
  <2>2. Prefix(Append(sent, c), log)
    BY <1>1, <1>4, <2>1, PrefixNext DEF a
  <2> QED
    BY <1>7, <1>9, <2>1, <2>2 DEF c
<1>10. CASE Head(q).from # w
  <2>1. \A e : <<e>> # <<>>
    OBVIOUS
  <2>2. Carries(v, n - 1, a, m, log)
    BY <1>4, <1>8, <1>10, <2>1
  <2> QED
    BY <1>4, <1>5, <1>10, <2>2
<1> QED
  BY <1>9, <1>10

\* AsyncSend() of a message, if none is dropped.
LEMMA FollowsAsync ==
  ASSUME QueueType, NEW ms, NEW v, AsyncSend(ms, v), "dropped" \notin passed',
         NEW w, NEW sent \in Seq(Command), NEW log \in Seq(Command),
         NEW m \in Nat, FollowsUp(lnTx, w, sent, m, log)
  PROVE  /\ v # w \/ ms = <<>> => FollowsUp(lnTx', w, sent, m, log)
         /\ v = w /\ m < Len(log) /\ ms = <<log[m + 1]>> => FollowsUp(lnTx', w, sent, m + 1, log)
<1>1. lnTx \in Seq(OutMessage)
  BY DEF QueueType
<1>2. CASE ms = <<>>
  <2>1. lnTx' = lnTx /\ \A e : ms # <<e>>
    BY <1>2 DEF AsyncSend
  <2> QED
    BY <1>2, <2>1
<1>3. CASE ms # <<>>
  <2> DEFINE x == [cmd |-> ms[1], from |-> v]
  <2>1. lnTx' = Append(lnTx, x)
    BY <1>3 DEF AsyncSend
  <2>2. x.from = v /\ x.cmd = ms[1]
    OBVIOUS
  <2> HIDE DEF x
  <2>3. /\ x.from # w => FollowsUp(Append(lnTx, x), w, sent, m, log)
        /\ x.from = w /\ m < Len(log) /\ x.cmd = log[m + 1] =>
             FollowsUp(Append(lnTx, x), w, sent, m + 1, log)
    BY <1>1, FollowsAppend
  <2>4. ms = <<log[m + 1]>> => ms[1] = log[m + 1]
    OBVIOUS
  <2> QED
    BY <1>3, <2>1, <2>2, <2>3, <2>4
<1> QED
  BY <1>2, <1>3

LEMMA TxFormAsync ==
  ASSUME QueueType, NEW ms, NEW v, AsyncSend(ms, v), TxForms(lnTx),
         ms = <<>> \/ \E c : ms = <<c>> /\ (v = "own" \/ (v # "ln" /\ c.kind # "query"))
  PROVE  TxForms(lnTx')
<1>1. IsSeq(lnTx)
  BY DEF QueueType, IsSeq
<1>2. CASE lnTx' = lnTx
  BY <1>2
<1>3. CASE ms # <<>> /\ lnTx' = Append(lnTx, [cmd |-> ms[1], from |-> v])
  <2> DEFINE x == [cmd |-> ms[1], from |-> v]
  <2>1. TxForm(x)
    BY <1>3 DEF TxForm
  <2> HIDE DEF x
  <2>2. /\ Len(lnTx) \in Nat /\ Len(lnTx') = Len(lnTx) + 1
        /\ \A i \in 1..Len(lnTx) : lnTx'[i] = lnTx[i]
        /\ lnTx'[Len(lnTx) + 1] = x
    BY <1>1, <1>3, Appended DEF x
  <2>3. \A i \in 1..Len(lnTx') : i \in 1..Len(lnTx) \/ i = Len(lnTx) + 1
    BY <2>2
  <2> QED
    BY <2>1, <2>2, <2>3 DEF TxForms
<1> QED
  BY <1>2, <1>3 DEF AsyncSend

-----------------------------------------------------------------------------
(***************************************************************************)
(* The steps.                                                              *)
(***************************************************************************)
LEMMA ReachInit == Init => ReachInv
<1> SUFFICES ASSUME Init PROVE ReachInv
  OBVIOUS
<1>1. /\ canRx = <<>> /\ lnTx = <<>> /\ lnRx = <<>> /\ i2cRx = <<>>
      /\ keyboard = [k \in Keyboard |-> [held |-> Nothing, asking |-> Nothing]]
  BY DEF Init
<1>2. \A b \in Bus : issued[b] = <<>> /\ got.can[b] = <<>> /\ got.ln[b] = <<>>
  BY DEF Init, Bus
<1>3. Len(<<>>) = 0 /\ 0 \in Nat /\ \A i \in 1..0 : FALSE
  OBVIOUS
<1>4. Prefix(<<>>, <<>>)
  BY <1>3 DEF Prefix
<1>5. \A w : Carries(w, 0, 0, 0, <<>>)
  BY CarriesNothing, <1>3
<1>6. CanForms(canRx) /\ TxForms(lnTx) /\ NotBack
  BY <1>1, <1>2, <1>3, BusNames DEF CanForms, TxForms, NotBack
<1>7. LnToCan
  BY <1>1, <1>2, <1>3, <1>4, <1>5, BusNames DEF LnToCan
<1>8. \A b \in Bus : TxCarries(b, 0)
  BY <1>1, <1>2, <1>3, <1>4, <1>5 DEF TxCarries, FollowsUp
<1>9. CanToLn
  BY <1>1, <1>2, <1>3, <1>5, <1>8, BusNames DEF CanToLn
<1>10. I2cToCan
  BY <1>1, <1>2, <1>3, <1>4, BusNames DEF I2cToCan
<1>11. KeyOrder
  <2>1. \A k \in Keyboard : keyboard[k].held = Nothing /\ keyboard[k].asking = Nothing
    BY <1>1
  <2>2. \A k \in Keyboard : ~Busy(k) /\ InUse(k) = {}
    BY <2>1 DEF Busy, InUse
  <2>3. Len(issued["i2c"]) = 0 /\ Len(got.can["i2c"]) = 0
    BY <1>2, <1>3, BusNames
  <2> QED
    BY <1>3, <2>2, <2>3 DEF KeyOrder
<1> QED
  BY <1>2, <1>3, <1>6, <1>7, <1>8, <1>9, <1>10, <1>11, BusNames DEF ReachInv

\* Nothing changes for the keys.
LEMMA KeyOrderSame ==
  ASSUME KeyOrder, UNCHANGED <<keyboard, last>>, issued'["i2c"] = issued["i2c"],
         got'.can["i2c"] = got.can["i2c"]
  PROVE  KeyOrder'
BY DEF KeyOrder, Busy, InUse

LEMMA I2cToCanSame ==
  ASSUME I2cToCan, UNCHANGED i2cRx, issued'["i2c"] = issued["i2c"],
         got'.can["i2c"] = got.can["i2c"]
  PROVE  I2cToCan'
BY DEF I2cToCan

LEMMA LnToCanSame ==
  ASSUME LnToCan, UNCHANGED lnRx, issued'["ln"] = issued["ln"], got'.can["ln"] = got.can["ln"]
  PROVE  LnToCan'
BY DEF LnToCan

\* A step which neither takes a command of CAN or the I2C bus nor sends to LocoNet.
LEMMA ReachAside ==
  ASSUME TypeInv, ReachInv, LnToCan', UNCHANGED <<canRx, i2cRx, keyboard, last>>,
         got'.ln = got.ln, passed \subseteq passed',
         \A b \in {"i2c", "can"} : issued'[b] = issued[b] /\ got'.can[b] = got.can[b],
         NEW ms, NEW v \in {"line", "own"},
         \/ lnTx' = lnTx
         \/ /\ AsyncSend(ms, v)
            /\ ms = <<>> \/ \E c : ms = <<c>> /\ (v = "own" \/ c.kind # "query")
  PROVE  ReachInv'
<1>1. CanForms(canRx') /\ NotBack'
  BY DEF ReachInv, NotBack
<1>2. TxForms(lnTx')
  BY TxFormAsync DEF ReachInv, TypeInv
<1>3. ASSUME NEW w \in {"i2c", "can"}, NEW m \in Nat, "dropped" \notin passed', TxCarries(w, m)
      PROVE  FollowsUp(lnTx', w, got'.ln[w], m, issued'[w])
  <2>1. issued[w] \in Seq(Command) /\ got.ln[w] \in Seq(Command) /\ QueueType
    BY LogFacts, BusNames DEF TypeInv
  <2>2. FollowsUp(lnTx, w, got.ln[w], m, issued[w])
    BY <1>3 DEF TxCarries
  <2>3. v # w
    OBVIOUS
  <2>4. CASE lnTx' = lnTx
    BY <2>2, <2>4
  <2>5. CASE AsyncSend(ms, v)
    <3>1. FollowsUp(lnTx', w, got.ln[w], m, issued[w])
      BY <1>3, <2>1, <2>2, <2>3, <2>5, FollowsAsync
    <3> QED
      BY <3>1
  <2> QED
    BY <2>4, <2>5
<1>4. ASSUME "dropped" \notin passed' PROVE CanToLn'
  <2>1. PICK m \in Nat : /\ TxCarries("can", m)
                         /\ Carries(OfCan(canRx), Len(canRx), m, Len(issued["can"]), issued["can"])
    BY <1>4 DEF ReachInv, CanToLn
  <2>2. FollowsUp(lnTx', "can", got'.ln["can"], m, issued'["can"])
    BY <1>3, <1>4, <2>1
  <2> QED
    BY <2>1, <2>2 DEF CanToLn, TxCarries
<1>5. ASSUME "overlap" \notin passed' PROVE I2cToCan' /\ KeyOrder'
  BY <1>5, KeyOrderSame, I2cToCanSame DEF ReachInv
<1>6. ASSUME "overlap" \notin passed', "dropped" \notin passed'
      PROVE  TxCarries("i2c", Len(got.can["i2c"]))'
  <2>1. TxCarries("i2c", Len(got.can["i2c"])) /\ Len(got.can["i2c"]) \in Nat
    BY <1>6, LogFacts, BusNames DEF ReachInv
  <2>2. FollowsUp(lnTx', "i2c", got'.ln["i2c"], Len(got.can["i2c"]), issued'["i2c"])
    BY <1>3, <1>6, <2>1
  <2> QED
    BY <2>2 DEF TxCarries
<1> QED
  BY <1>1, <1>2, <1>4, <1>5, <1>6 DEF ReachInv

LEMMA ReachIdle ==
  ASSUME TypeInv, ReachInv, \/ Wake \/ NextQueue \/ UNCHANGED vars
                            \/ \E line \in PowerKinds : CooldownEnds(line) \/ Edge(line)
  PROVE  ReachInv'
<1>1. /\ UNCHANGED <<canRx, i2cRx, lnRx, lnTx, keyboard, last, got>> /\ passed \subseteq passed'
      /\ issued' = issued \/ \E c \in Command : issued' = Logged(issued, "line", c)
  BY PowerType DEF Wake, NextQueue, vars, CooldownEnds, Edge, Give, taskVars, lineVars, i2cVars, canVars,
                   lnVars, history
<1>2. \A b \in {"i2c", "can", "ln"} : issued'[b] = issued[b]
  <2>1. issued \in [Bus -> Seq(Command)] /\ \A b \in {"i2c", "can", "ln"} : b \in Bus \ {"line"}
    BY DEF TypeInv, LogType, Bus
  <2>2. ASSUME NEW c \in Command, NEW b \in {"i2c", "can", "ln"} PROVE Logged(issued, "line", c)[b] = issued[b]
    <3>1. /\ c.kind = "query" => Logged(issued, "line", c) = issued
          /\ c.kind # "query" => \A e \in Bus \ {"line"} : Logged(issued, "line", c)[e] = issued[e]
      BY <2>1, LoggedType, BusNames
    <3>2. b \in Bus \ {"line"}
      BY <2>1
    <3> QED
      BY <3>1, <3>2
  <2> QED
    BY <1>1, <2>2
<1>3. LnToCan'
  BY <1>1, <1>2, LnToCanSame DEF ReachInv
<1> QED
  BY <1>1, <1>2, <1>3, ReachAside

\* What SendPacket() adds to the history.
LEMMA SentCan ==
  ASSUME TypeInv, NEW f \in Frames, SendPacket(f), f.cmd.kind # "query"
  PROVE  /\ got'.ln = got.ln
         /\ got'.can[f.from] = Append(got.can[f.from], f.cmd)
         /\ \A b \in Bus \ {f.from} : got'.can[b] = got.can[b]
<1>1. f.from \in Bus /\ f.cmd \in Command /\ got.can \in [Bus -> Seq(Command)]
  BY DEF Frames, TypeInv, SentType
<1>2. got'.ln = got.ln /\ got'.can = Logged(got.can, f.from, f.cmd)
  BY SendType DEF TypeInv
<1> QED
  BY <1>1, <1>2, LoggedType

LEMMA ReachStopGo ==
  ASSUME TypeInv, ReachInv, processI2CStopGo
  PROVE  ReachInv'
<1> DEFINE f == Frame(MakeRR32CanPowerMsg, "none", FALSE, "line")
<1>1. /\ UNCHANGED <<canRx, i2cRx, lnRx, keyboard, last, issued>>
      /\ \/ SendPacket(f) /\ AsyncSend(LnMessages(f), f.from)
         \/ UNCHANGED <<got, lnTx, passed>>
  BY DEF processI2CStopGo, i2cVars
<1>2. f \in Frames /\ f.from = "line" /\ f.cmd.kind # "query"
  BY PowerType DEF MakeRR32CanPowerMsg, Power, Frame, Frames, Rails, Bus, PowerKinds
<1> HIDE DEF f
<1>3. /\ got'.ln = got.ln
      /\ \A b \in {"i2c", "can", "ln"} : got'.can[b] = got.can[b]
  BY <1>1, <1>2, SentCan DEF Bus
<1>4. passed \subseteq passed'
  BY <1>1 DEF AsyncSend
<1>5. LnToCan'
  BY <1>1, <1>3, LnToCanSame DEF ReachInv
<1>6. LnMessages(f) = <<>> \/ \E c : LnMessages(f) = <<c>> /\ c.kind # "query"
  BY <1>2, LnForm
<1> QED
  BY <1>1, <1>2, <1>3, <1>4, <1>5, <1>6, ReachAside

\* The commands from LocoNet when one is taken, and when one comes.
LEMMA LnToCanTake ==
  ASSUME TypeInv, LnToCan, lnRx # <<>>, lnRx' = Tail(lnRx), issued' = issued,
         IF Head(lnRx).kind = "query" THEN got'.can["ln"] = got.can["ln"]
         ELSE got'.can["ln"] = Append(got.can["ln"], Head(lnRx))
  PROVE  LnToCan'
<1> DEFINE c == Head(lnRx)
           n == Len(lnRx)
           s == got.can["ln"]
           log == issued["ln"]
           w == OfLn(lnRx)
           v == OfLn(Tail(lnRx))
           a == Len(s)
           b == Len(log)
<1>1. /\ s \in Seq(Command) /\ log \in Seq(Command) /\ a \in Nat /\ b \in Nat
      /\ c \in Command
  BY LogFacts, BusNames DEF TypeInv, QueueType
<1>2. n \in Nat /\ n >= 1 /\ Len(Tail(lnRx)) = n - 1
  BY Removed, QueuesAreSeq
<1>3. Shifted(v, w, n) /\ w[1] = IF c.kind = "query" THEN <<>> ELSE <<c>>
  BY OfLnTail, QueuesAreSeq
<1>4. Prefix(s, log) /\ Carries(w, n, a, b, log)
  BY DEF LnToCan
<1>5. LnToCan' = (Prefix(got'.can["ln"], log) /\ Carries(v, n - 1, Len(got'.can["ln"]), b, log))
  BY <1>2 DEF LnToCan
<1>6. IF c.kind = "query" THEN got'.can["ln"] = s ELSE got'.can["ln"] = Append(s, c)
  OBVIOUS
<1> HIDE DEF c, n, w, v, s, log
<1>7. \/ w[1] = <<>> /\ Carries(v, n - 1, a, b, log)
      \/ a < Len(log) /\ w[1] = <<log[a + 1]>> /\ Carries(v, n - 1, a + 1, b, log)
  BY <1>1, <1>2, <1>3, <1>4, CarriesDrop
<1>8. CASE c.kind = "query"
  <2>1. \A e : <<e>> # <<>>
    OBVIOUS
  <2>2. Carries(v, n - 1, a, b, log)
    BY <1>3, <1>7, <1>8, <2>1
  <2> QED
    BY <1>4, <1>5, <1>6, <1>8, <2>2
<1>9. CASE c.kind # "query"
  <2>1. a < Len(log) /\ c = log[a + 1] /\ Carries(v, n - 1, a + 1, b, log)
    BY <1>3, <1>7, <1>9
  <2>2. Prefix(Append(s, c), log)
    BY <1>1, <1>4, <2>1, PrefixNext
  <2>3. Len(Append(s, c)) = a + 1
    BY <1>1
  <2> QED
    BY <1>5, <1>6, <1>9, <2>1, <2>2, <2>3
<1> QED
  BY <1>8, <1>9

LEMMA LnToCanCome ==
  ASSUME TypeInv, LnToCan, NEW c \in Command, lnRx' = Append(lnRx, c), got' = got,
         IF c.kind = "query" THEN issued'["ln"] = issued["ln"]
         ELSE issued'["ln"] = Append(issued["ln"], c)
  PROVE  LnToCan'
<1> DEFINE n == Len(lnRx)
           s == got.can["ln"]
           log == issued["ln"]
           w == OfLn(lnRx)
           v == OfLn(Append(lnRx, c))
           a == Len(s)
           b == Len(log)
<1>1. /\ s \in Seq(Command) /\ log \in Seq(Command) /\ a \in Nat /\ b \in Nat
  BY LogFacts, BusNames
<1>2. n \in Nat /\ Len(Append(lnRx, c)) = n + 1
  BY Appended, QueuesAreSeq
<1>3. /\ \A i \in 1..n : v[i] = w[i]
      /\ v[n + 1] = IF c.kind = "query" THEN <<>> ELSE <<c>>
  BY OfLnAppend, QueuesAreSeq
<1>4. Prefix(s, log) /\ Carries(w, n, a, b, log)
  BY DEF LnToCan
<1> DEFINE more == issued'["ln"]
<1>5. LnToCan' = (Prefix(s, more) /\ Carries(v, n + 1, a, Len(more), more))
  BY <1>2 DEF LnToCan
<1>6. IF c.kind = "query" THEN more = log /\ Len(more) = b ELSE more = Append(log, c)
  OBVIOUS
<1>9. Len(log) = b /\ Len(s) = a
  OBVIOUS
<1> HIDE DEF n, w, v, s, log, more, a, b
<1>7. CASE c.kind = "query"
  <2>1. Carries(v, n + 1, a, b, log)
    BY <1>1, <1>2, <1>3, <1>4, <1>7, <1>9, CarriesAdd
  <2> QED
    BY <1>4, <1>5, <1>6, <1>7, <2>1
<1>8. CASE c.kind # "query"
  <2>5. more = Append(log, c)
    BY <1>6, <1>8
  <2>6. /\ Prefix(log, Append(log, c)) /\ Len(Append(log, c)) = Len(log) + 1
        /\ Append(log, c)[Len(log) + 1] = c /\ Append(log, c) \in Seq(Command)
    BY <1>1, PrefixAppend
  <2>1. /\ Prefix(log, more) /\ Len(more) = b + 1 /\ more[b + 1] = c /\ more \in Seq(Command)
    BY <1>9, <2>5, <2>6
  <2>2. Carries(w, n, a, b, more)
    BY <1>1, <1>2, <1>4, <1>9, <2>1, CarriesMore
  <2>3. Carries(v, n + 1, a, b + 1, more)
    <3>1. b < Len(more) /\ Len(more) \in Nat /\ v[n + 1] = <<more[b + 1]>>
      BY <1>1, <1>3, <1>8, <2>1
    <3> QED
      BY <1>1, <1>2, <1>3, <2>2, <3>1, CarriesAdd
  <2>4. Prefix(s, more)
    BY <1>1, <1>4, <1>9, <2>1, PrefixOf
  <2> QED
    BY <1>5, <2>1, <2>3, <2>4
<1> QED
  BY <1>7, <1>8

LEMMA ReachLocoNet ==
  ASSUME TypeInv, ReachInv, processLocoNet
  PROVE  ReachInv'
<1> DEFINE f == FromLn(Head(lnRx))
<1>1. /\ lnRx # <<>> /\ lnRx' = Tail(lnRx) /\ Head(lnRx).kind # "query" /\ SendPacket(f)
      /\ UNCHANGED <<canRx, i2cRx, lnTx, keyboard, last, issued, passed>>
  BY DEF processLocoNet
<1>2. Head(lnRx) \in Command
  BY <1>1 DEF TypeInv, QueueType
<1>3. f \in Frames /\ f.cmd = Head(lnRx) /\ f.from = "ln"
  BY <1>2, FromLnType
<1> HIDE DEF f
<1>4. /\ got'.ln = got.ln /\ got'.can["ln"] = Append(got.can["ln"], Head(lnRx))
      /\ \A b \in {"i2c", "can"} : got'.can[b] = got.can[b]
  BY <1>1, <1>3, SentCan DEF Bus
<1>5. LnToCan'
  BY <1>1, <1>4, LnToCanTake DEF ReachInv
<1> QED
  BY <1>1, <1>4, <1>5, ReachAside

LEMMA ReachDummy ==
  ASSUME TypeInv, ReachInv, HandleDummyMessages
  PROVE  ReachInv'
<1>1. /\ lnRx # <<>> /\ lnRx' = Tail(lnRx) /\ Head(lnRx).kind = "query"
      /\ AsyncSend(<<Query>>, "own") \/ UNCHANGED <<lnTx, passed>>
      /\ UNCHANGED <<canRx, i2cRx, keyboard, last, issued, got>>
  BY DEF HandleDummyMessages, i2cVars, canVars
<1>2. LnToCan'
  BY <1>1, LnToCanTake DEF ReachInv
<1>3. passed \subseteq passed'
  BY <1>1 DEF AsyncSend
<1> QED
  BY <1>1, <1>2, <1>3, ReachAside

LEMMA ReachLnUser ==
  ASSUME TypeInv, ReachInv, NEW c \in Command, LnUser(c)
  PROVE  ReachInv'
<1>1. /\ lnRx' = Append(lnRx, c) /\ issued' = Logged(issued, "ln", c)
      /\ UNCHANGED <<canRx, i2cRx, lnTx, keyboard, last, got>> /\ passed \subseteq passed'
  BY DEF LnUser, Give, Crossing, i2cVars, canVars
<1>2. /\ \A b \in {"i2c", "can"} : issued'[b] = issued[b]
      /\ IF c.kind = "query" THEN issued'["ln"] = issued["ln"]
         ELSE issued'["ln"] = Append(issued["ln"], c)
  <2>1. issued \in [Bus -> Seq(Command)] /\ \A b \in {"i2c", "can"} : b \in Bus \ {"ln"}
    BY DEF TypeInv, LogType, Bus
  <2>2. /\ c.kind = "query" => Logged(issued, "ln", c) = issued
        /\ c.kind # "query" =>
             /\ Logged(issued, "ln", c)["ln"] = Append(issued["ln"], c)
             /\ \A e \in Bus \ {"ln"} : Logged(issued, "ln", c)[e] = issued[e]
    BY <2>1, LoggedType, BusNames
  <2> QED
    BY <1>1, <2>1, <2>2
<1>3. LnToCan'
  BY <1>1, <1>2, LnToCanCome DEF ReachInv
<1> QED
  BY <1>1, <1>2, <1>3, ReachAside

LEMMA CanFormsTail ==
  ASSUME TypeInv, CanForms(canRx), canRx # <<>>
  PROVE  Head(canRx) \in Frames /\ CanForm(Head(canRx)) /\ CanForms(Tail(canRx))
<1>1. /\ Len(canRx) \in Nat /\ Len(canRx) >= 1 /\ Len(Tail(canRx)) = Len(canRx) - 1
      /\ Head(canRx) = canRx[1]
      /\ \A i \in 1..Len(Tail(canRx)) : Tail(canRx)[i] = canRx[i + 1]
  BY Removed, QueuesAreSeq
<1>2. Head(canRx) \in Frames
  BY DEF TypeInv, QueueType
<1>3. CanForm(Head(canRx))
  BY <1>1 DEF CanForms
<1>4. \A i \in 1..Len(Tail(canRx)) : i + 1 \in 1..Len(canRx)
  BY <1>1
<1> QED
  BY <1>1, <1>2, <1>3, <1>4 DEF CanForms

LEMMA CanFormsAppend ==
  ASSUME TypeInv, CanForms(canRx), NEW f, CanForm(f)
  PROVE  CanForms(Append(canRx, f))
<1>1. /\ Len(canRx) \in Nat /\ Len(Append(canRx, f)) = Len(canRx) + 1
      /\ \A i \in 1..Len(canRx) : Append(canRx, f)[i] = canRx[i]
      /\ Append(canRx, f)[Len(canRx) + 1] = f
  BY Appended, QueuesAreSeq
<1>2. \A i \in 1..(Len(canRx) + 1) : i \in 1..Len(canRx) \/ i = Len(canRx) + 1
  BY <1>1
<1> QED
  BY <1>1, <1>2 DEF CanForms

\* The frames from the bus when one comes, and when one is taken.
LEMMA CanRxCome ==
  ASSUME TypeInv, NEW f, NEW m, NEW b \in Nat, NEW log, Len(log) \in Nat,
         Carries(OfCan(canRx), Len(canRx), m, b, log),
         NEW item, item = IF f.from = "can" THEN LnMessages(f) ELSE <<>>
  PROVE  /\ item = <<>> => Carries(OfCan(Append(canRx, f)), Len(Append(canRx, f)), m, b, log)
         /\ b < Len(log) /\ item = <<log[b + 1]>> =>
              Carries(OfCan(Append(canRx, f)), Len(Append(canRx, f)), m, b + 1, log)
<1> DEFINE n == Len(canRx)
           w == OfCan(canRx)
           v == OfCan(Append(canRx, f))
<1>1. n \in Nat /\ Len(Append(canRx, f)) = n + 1
  BY Appended, QueuesAreSeq
<1>2. (\A i \in 1..n : v[i] = w[i]) /\ v[n + 1] = item
  BY OfCanAppend, QueuesAreSeq
<1>3. Carries(w, n, m, b, log)
  OBVIOUS
<1> HIDE DEF n, w, v
<1>4. /\ v[n + 1] = <<>> => Carries(v, n + 1, m, b, log)
      /\ b < Len(log) /\ v[n + 1] = <<log[b + 1]>> => Carries(v, n + 1, m, b + 1, log)
  BY <1>1, <1>2, <1>3, CarriesAdd
<1> QED
  BY <1>1, <1>2, <1>4 DEF v

LEMMA CanRxTake ==
  ASSUME TypeInv, canRx # <<>>, NEW m \in Nat, NEW b, NEW log, Len(log) \in Nat,
         Carries(OfCan(canRx), Len(canRx), m, b, log),
         NEW item, item = IF Head(canRx).from = "can" THEN LnMessages(Head(canRx)) ELSE <<>>
  PROVE  \/ item = <<>> /\ Carries(OfCan(Tail(canRx)), Len(Tail(canRx)), m, b, log)
         \/ /\ m < Len(log) /\ item = <<log[m + 1]>>
            /\ Carries(OfCan(Tail(canRx)), Len(Tail(canRx)), m + 1, b, log)
<1> DEFINE n == Len(canRx)
           w == OfCan(canRx)
           v == OfCan(Tail(canRx))
<1>1. n \in Nat /\ n >= 1 /\ Len(Tail(canRx)) = n - 1
  BY Removed, QueuesAreSeq
<1>2. Shifted(v, w, n) /\ w[1] = item
  BY OfCanTail, QueuesAreSeq
<1>3. Carries(w, n, m, b, log)
  OBVIOUS
<1> HIDE DEF n, w, v
<1>4. \/ w[1] = <<>> /\ Carries(v, n - 1, m, b, log)
      \/ m < Len(log) /\ w[1] = <<log[m + 1]>> /\ Carries(v, n - 1, m + 1, b, log)
  BY <1>1, <1>2, <1>3, CarriesDrop
<1> QED
  BY <1>1, <1>2, <1>4 DEF v

LEMMA ReachCAN ==
  ASSUME TypeInv, ReachInv, processCAN
  PROVE  ReachInv'
<1> DEFINE f == Head(canRx)
           ms == LnMessages(f)
           item == IF f.from = "can" THEN ms ELSE <<>>
<1>1. /\ canRx # <<>> /\ canRx' = Tail(canRx) /\ AsyncSend(ms, f.from)
      /\ UNCHANGED <<i2cRx, lnRx, keyboard, last, issued, got>>
  BY DEF processCAN
<1>2. f \in Frames /\ CanForm(f) /\ CanForms(canRx')
  BY <1>1, CanFormsTail DEF ReachInv
<1>3. ms = <<>> \/ (ms = <<f.cmd>> /\ f.from = "can")
  BY <1>2, CanFormForwards
<1>4. f.cmd.kind # "query"
  BY <1>2 DEF CanForm
<1>5. ASSUME NEW m \in Nat, Carries(OfCan(canRx), Len(canRx), m, Len(issued["can"]), issued["can"])
      PROVE  \/ item = <<>> /\ Carries(OfCan(canRx'), Len(canRx'), m, Len(issued["can"]), issued["can"])
             \/ /\ m < Len(issued["can"]) /\ item = <<issued["can"][m + 1]>>
                /\ Carries(OfCan(canRx'), Len(canRx'), m + 1, Len(issued["can"]), issued["can"])
  <2>1. Len(issued["can"]) \in Nat
    BY LogFacts, BusNames
  <2> QED
    BY <1>1, <1>5, <2>1, CanRxTake
<1> HIDE DEF f, ms
<1>6. TxForms(lnTx')
  <2>1. ms = <<>> \/ \E c : ms = <<c>> /\ (f.from = "own" \/ (f.from # "ln" /\ c.kind # "query"))
    BY <1>3, <1>4
  <2> QED
    BY <1>1, <2>1, TxFormAsync DEF ReachInv, TypeInv
<1>7. NotBack' /\ LnToCan'
  BY <1>1, LnToCanSame DEF ReachInv, NotBack
<1>8. passed \subseteq passed'
  BY <1>1 DEF AsyncSend
<1>9. ASSUME "dropped" \notin passed' PROVE CanToLn'
  <2>1. PICK m \in Nat : /\ TxCarries("can", m)
                         /\ Carries(OfCan(canRx), Len(canRx), m, Len(issued["can"]), issued["can"])
    BY <1>8, <1>9 DEF ReachInv, CanToLn
  <2>2. /\ QueueType /\ issued["can"] \in Seq(Command) /\ got.ln["can"] \in Seq(Command)
        /\ FollowsUp(lnTx, "can", got.ln["can"], m, issued["can"])
    BY <2>1, LogFacts, BusNames DEF TypeInv, TxCarries
  <2>3. /\ f.from # "can" \/ ms = <<>> => FollowsUp(lnTx', "can", got.ln["can"], m, issued["can"])
        /\ f.from = "can" /\ m < Len(issued["can"]) /\ ms = <<issued["can"][m + 1]>> =>
             FollowsUp(lnTx', "can", got.ln["can"], m + 1, issued["can"])
    BY <1>1, <1>9, <2>2, FollowsAsync
  <2>4. \A e : <<e>> # <<>>
    OBVIOUS
  <2>5. \E e \in Nat : /\ FollowsUp(lnTx', "can", got.ln["can"], e, issued["can"])
                       /\ Carries(OfCan(canRx'), Len(canRx'), e, Len(issued["can"]), issued["can"])
    <3>1. CASE item = <<>> /\ Carries(OfCan(canRx'), Len(canRx'), m, Len(issued["can"]), issued["can"])
      <4>1. f.from # "can" \/ ms = <<>>
        BY <3>1
      <4> QED
        BY <2>3, <3>1, <4>1
    <3>2. CASE /\ m < Len(issued["can"]) /\ item = <<issued["can"][m + 1]>>
               /\ Carries(OfCan(canRx'), Len(canRx'), m + 1, Len(issued["can"]), issued["can"])
      <4>1. f.from = "can" /\ ms = <<issued["can"][m + 1]>>
        BY <2>4, <3>2
      <4>2. m + 1 \in Nat
        OBVIOUS
      <4> QED
        BY <2>3, <3>2, <4>1, <4>2
    <3> QED
      BY <1>5, <2>1, <3>1, <3>2
  <2> QED
    BY <1>1, <2>5 DEF CanToLn, TxCarries
<1>10. ASSUME "overlap" \notin passed' PROVE I2cToCan' /\ KeyOrder'
  BY <1>1, <1>8, <1>10, KeyOrderSame, I2cToCanSame DEF ReachInv
<1>11. ASSUME "overlap" \notin passed', "dropped" \notin passed'
       PROVE  TxCarries("i2c", Len(got.can["i2c"]))'
  <2> DEFINE m == Len(got.can["i2c"])
  <2>1. FollowsUp(lnTx, "i2c", got.ln["i2c"], m, issued["i2c"])
    BY <1>8, <1>11 DEF ReachInv, TxCarries
  <2>2. /\ m \in Nat /\ QueueType
        /\ issued["i2c"] \in Seq(Command) /\ got.ln["i2c"] \in Seq(Command)
    BY LogFacts, BusNames DEF TypeInv
  <2> HIDE DEF m
  <2>3. f.from # "i2c" \/ ms = <<>>
    BY <1>3
  <2>4. FollowsUp(lnTx', "i2c", got.ln["i2c"], m, issued["i2c"])
    BY <1>1, <1>11, <2>1, <2>2, <2>3, FollowsAsync
  <2> QED
    BY <1>1, <2>4 DEF TxCarries, m
<1> QED
  BY <1>2, <1>6, <1>7, <1>9, <1>10, <1>11 DEF ReachInv

\* The LocoNet queue and the keys are left alone, a frame comes from the bus.
LEMMA ReachFrame ==
  ASSUME TypeInv, ReachInv, UNCHANGED <<i2cRx, lnRx, lnTx, keyboard, last, got>>,
         passed \subseteq passed', \A b \in {"i2c", "ln"} : issued'[b] = issued[b],
         CanForms(canRx'),
         "dropped" \notin passed => CanToLn'
  PROVE  ReachInv'
<1>1. TxForms(lnTx') /\ NotBack'
  BY DEF ReachInv, NotBack
<1>2. LnToCan'
  BY LnToCanSame DEF ReachInv
<1>3. ASSUME "overlap" \notin passed' PROVE I2cToCan' /\ KeyOrder'
  BY <1>3, KeyOrderSame, I2cToCanSame DEF ReachInv
<1>4. ASSUME "overlap" \notin passed', "dropped" \notin passed'
      PROVE  TxCarries("i2c", Len(got.can["i2c"]))'
  BY <1>4 DEF ReachInv, TxCarries
<1> QED
  BY <1>1, <1>2, <1>3, <1>4 DEF ReachInv

LEMMA ReachCentral ==
  ASSUME TypeInv, ReachInv, Central
  PROVE  ReachInv'
<1> DEFINE f == Head(toCentral)
           g == [f EXCEPT !.response = TRUE]
<1>1. /\ toCentral # <<>>
      /\ \/ canRx' = canRx
         \/ canRx' = Append(canRx, g) /\ (f.cmd.kind \in PowerKinds \/ f.cmd.kind = "turnout")
      /\ UNCHANGED <<i2cRx, lnRx, lnTx, keyboard, last, issued, got, passed>>
  BY DEF Central, i2cVars, lnVars, history
<1>2. f \in Frames
  BY <1>1 DEF TypeInv, QueueType
<1> HIDE DEF f
<1>3. g \in Frames /\ g.response /\ g.cmd = f.cmd
  BY <1>2 DEF Frames
<1> HIDE DEF g
<1>4. CASE canRx' = canRx
  <2>1. CanForms(canRx') /\ ("dropped" \notin passed => CanToLn')
    BY <1>1, <1>4 DEF ReachInv, CanToLn, TxCarries
  <2> QED
    BY <1>1, <2>1, ReachFrame
<1>5. CASE canRx' = Append(canRx, g) /\ (f.cmd.kind \in PowerKinds \/ f.cmd.kind = "turnout")
  <2>1. g.cmd.kind # "query" /\ g.cmd.kind # "sensor"
    BY <1>3, <1>5 DEF PowerKinds
  <2>2. CanForm(g)
    BY <1>3, <2>1 DEF CanForm
  <2>3. LnMessages(g) = <<>>
    BY <1>3, <2>1 DEF LnMessages
  <2>4. CanForms(canRx')
    BY <1>5, <2>2, CanFormsAppend DEF ReachInv
  <2>5. ASSUME "dropped" \notin passed PROVE CanToLn'
    <3>1. PICK m \in Nat : /\ TxCarries("can", m)
                           /\ Carries(OfCan(canRx), Len(canRx), m, Len(issued["can"]), issued["can"])
      BY <2>5 DEF ReachInv, CanToLn
    <3>2. Len(issued["can"]) \in Nat
      BY LogFacts, BusNames
    <3>3. Carries(OfCan(canRx'), Len(canRx'), m, Len(issued["can"]), issued["can"])
      BY <1>5, <2>3, <3>1, <3>2, CanRxCome
    <3> QED
      BY <1>1, <3>1, <3>3 DEF CanToLn, TxCarries
  <2> QED
    BY <1>1, <2>4, <2>5, ReachFrame
<1> QED
  BY <1>1, <1>4, <1>5

LEMMA ReachCanUser ==
  ASSUME TypeInv, ReachInv, NEW c \in Command, NEW rail \in Rails, c.kind # "query", Reach(c),
         CanUser(c, rail)
  PROVE  ReachInv'
<1> DEFINE f == Frame(c, rail, c.kind = "sensor", "can")
           log == issued["can"]
           more == issued'["can"]
<1>1. /\ canRx' = Append(canRx, f) /\ issued' = Logged(issued, "can", c)
      /\ UNCHANGED <<i2cRx, lnRx, lnTx, keyboard, last, got>> /\ passed \subseteq passed'
  BY DEF CanUser, Give, Crossing, i2cVars, lnVars
<1>2. more = Append(log, c) /\ \A b \in {"i2c", "ln"} : issued'[b] = issued[b]
  <2>1. issued \in [Bus -> Seq(Command)] /\ \A b \in {"i2c", "ln"} : b \in Bus \ {"can"}
    BY DEF TypeInv, LogType, Bus
  <2>2. /\ Logged(issued, "can", c)["can"] = Append(issued["can"], c)
        /\ \A e \in Bus \ {"can"} : Logged(issued, "can", c)[e] = issued[e]
    BY <2>1, LoggedType, BusNames
  <2> QED
    BY <1>1, <2>1, <2>2
<1>3. f \in Frames /\ f.cmd = c /\ f.from = "can" /\ f.response = (c.kind = "sensor")
  BY CanFrameType DEF Frame
<1> HIDE DEF f
<1>4. CanForm(f)
  BY <1>3 DEF CanForm
<1>5. LnMessages(f) = <<c>>
  <2>1. CASE c.kind = "sensor"
    <3>1. LnMessages(f) # <<>>
      BY <1>3, <2>1 DEF LnMessages, PowerKinds
    <3> QED
      BY <1>3, <1>4, <2>1, <3>1, CanFormForwards
  <2>2. CASE c.kind # "sensor"
    <3>1. ~f.response
      BY <1>3, <2>2
    <3> QED
      BY <1>3, <1>4, <3>1, CanFormForwards
  <2> QED
    BY <2>1, <2>2
<1>6. CanForms(canRx')
  BY <1>1, <1>4, CanFormsAppend DEF ReachInv
<1>7. /\ log \in Seq(Command) /\ got.ln["can"] \in Seq(Command) /\ lnTx \in Seq(OutMessage)
      /\ Len(log) \in Nat
  BY LogFacts, BusNames DEF TypeInv, QueueType
<1> HIDE DEF log, more
<1>8. /\ Prefix(log, more) /\ Len(more) = Len(log) + 1 /\ more[Len(log) + 1] = c /\ more \in Seq(Command)
  <2>1. /\ Prefix(log, Append(log, c)) /\ Len(Append(log, c)) = Len(log) + 1
        /\ Append(log, c)[Len(log) + 1] = c /\ Append(log, c) \in Seq(Command)
    BY <1>7, PrefixAppend
  <2> QED
    BY <1>2, <2>1
<1>9. ASSUME "dropped" \notin passed PROVE CanToLn'
  <2>1. PICK m \in Nat : /\ FollowsUp(lnTx, "can", got.ln["can"], m, log)
                         /\ Carries(OfCan(canRx), Len(canRx), m, Len(log), log)
    BY <1>9 DEF ReachInv, CanToLn, TxCarries, log
  <2>2. FollowsUp(lnTx, "can", got.ln["can"], m, more)
    BY <1>7, <1>8, <2>1, FollowsMore
  <2>3. Carries(OfCan(canRx), Len(canRx), m, Len(log), more)
    <3>1. Len(canRx) \in Nat
      BY Appended, QueuesAreSeq
    <3> QED
      BY <1>7, <1>8, <2>1, <3>1, CarriesMore
  <2>4. Carries(OfCan(canRx'), Len(canRx'), m, Len(log) + 1, more)
    <3>1. Len(more) \in Nat /\ Len(log) < Len(more) /\ LnMessages(f) = <<more[Len(log) + 1]>>
      BY <1>5, <1>7, <1>8
    <3> QED
      BY <1>1, <1>3, <1>7, <2>3, <3>1, CanRxCome
  <2> QED
    BY <1>1, <1>8, <2>2, <2>4 DEF CanToLn, TxCarries, more
<1> QED
  BY <1>1, <1>2, <1>6, <1>9, ReachFrame

\* The ConsoleTask sends a message to LocoNet.
LEMMA ReachSend ==
  ASSUME TypeInv, ReachInv, DoBlockingSend
  PROVE  ReachInv'
<1> DEFINE m == Head(lnTx)
<1>1. /\ lnTx # <<>> /\ lnTx' = Tail(lnTx) /\ got' = [got EXCEPT !.ln = Logged(@, m.from, m.cmd)]
      /\ UNCHANGED <<canRx, i2cRx, lnRx, keyboard, last, issued, passed>>
  BY DEF DoBlockingSend, taskVars, i2cVars, canVars
<1>2. /\ Len(lnTx) \in Nat /\ Len(lnTx) >= 1 /\ Len(Tail(lnTx)) = Len(lnTx) - 1
      /\ m = lnTx[1]
      /\ \A i \in 1..Len(Tail(lnTx)) : Tail(lnTx)[i] = lnTx[i + 1]
  BY <1>1, Removed, QueuesAreSeq
<1>3. lnTx \in Seq(OutMessage) /\ m \in OutMessage /\ TxForm(m)
  <2>1. lnTx \in Seq(OutMessage)
    BY DEF TypeInv, QueueType
  <2>2. 1 \in 1..Len(lnTx)
    BY <1>2
  <2>3. m \in OutMessage
    BY <1>1, <2>1
  <2>4. TxForms(lnTx)
    BY DEF ReachInv
  <2> QED
    BY <1>2, <2>1, <2>2, <2>3, <2>4 DEF TxForms
<1>4. TxForms(lnTx')
  <2>1. \A i \in 1..Len(Tail(lnTx)) : i + 1 \in 1..Len(lnTx)
    BY <1>2
  <2> QED
    BY <1>1, <1>2, <2>1 DEF ReachInv, TxForms
<1> HIDE DEF m
<1>5. m.cmd \in Command /\ (m.from \in Bus \/ m.cmd.kind = "query") /\ got.ln \in [Bus -> Seq(Command)]
      /\ (m.from \in Bus /\ m.from # "ln" => m.cmd.kind # "query") /\ m.from # "ln"
  <2>1. m.cmd \in Command /\ m.from \in Bus \cup {"own"} /\ (m.from = "own" => m.cmd.kind = "query")
    BY <1>3 DEF OutMessage
  <2>2. m.from = "own" \/ (m.from # "ln" /\ m.cmd.kind # "query")
    BY <1>3 DEF TxForm
  <2>3. "own" \notin Bus
    BY DEF Bus
  <2>4. got.ln \in [Bus -> Seq(Command)]
    BY DEF TypeInv, SentType
  <2> QED
    BY <2>1, <2>2, <2>3, <2>4
<1>6. /\ got'.can = got.can
      /\ m.from \in Bus => got'.ln[m.from] = Append(got.ln[m.from], m.cmd)
      /\ \A b \in Bus \ {m.from} : got'.ln[b] = got.ln[b]
  <2> DEFINE g == Logged(got.ln, m.from, m.cmd)
  <2>1. /\ m.cmd.kind = "query" => g = got.ln
        /\ m.cmd.kind # "query" =>
             /\ g[m.from] = Append(got.ln[m.from], m.cmd)
             /\ \A b \in Bus \ {m.from} : g[b] = got.ln[b]
    BY <1>5, LoggedType
  <2> HIDE DEF g
  <2>2. got' = [got EXCEPT !.ln = g]
    BY <1>1 DEF g
  <2>3. got'.can = got.can /\ got'.ln = g
    BY <2>2 DEF TypeInv, SentType
  <2> QED
    BY <1>5, <2>1, <2>3
<1>7. ASSUME NEW w \in {"i2c", "can"}, NEW e \in Nat, TxCarries(w, e)
      PROVE  FollowsUp(lnTx', w, got'.ln[w], e, issued'[w])
  <2>1. issued[w] \in Seq(Command) /\ got.ln[w] \in Seq(Command) /\ w \in Bus
    BY LogFacts, BusNames
  <2>2. FollowsUp(lnTx, w, got.ln[w], e, issued[w])
    BY <1>7 DEF TxCarries
  <2>3. IF m.from = w THEN FollowsUp(Tail(lnTx), w, Append(got.ln[w], m.cmd), e, issued[w])
        ELSE FollowsUp(Tail(lnTx), w, got.ln[w], e, issued[w])
    BY <1>1, <1>3, <2>1, <2>2, FollowsTake DEF m
  <2>4. CASE m.from = w
    <3>1. got'.ln[w] = Append(got.ln[w], m.cmd)
      BY <1>6, <2>1, <2>4
    <3> QED
      BY <1>1, <2>3, <2>4, <3>1
  <2>5. CASE m.from # w
    <3>1. got'.ln[w] = got.ln[w]
      BY <1>6, <2>1, <2>5
    <3> QED
      BY <1>1, <2>3, <2>5, <3>1
  <2> QED
    BY <2>4, <2>5
<1>8. NotBack' /\ LnToCan' /\ CanForms(canRx')
  BY <1>1, <1>5, <1>6, LnToCanSame, BusNames DEF ReachInv, NotBack
<1>9. ASSUME "dropped" \notin passed' PROVE CanToLn'
  <2>1. PICK e \in Nat : /\ TxCarries("can", e)
                         /\ Carries(OfCan(canRx), Len(canRx), e, Len(issued["can"]), issued["can"])
    BY <1>1, <1>9 DEF ReachInv, CanToLn
  <2>2. FollowsUp(lnTx', "can", got'.ln["can"], e, issued'["can"])
    BY <1>7, <2>1
  <2> QED
    BY <1>1, <2>1, <2>2 DEF CanToLn, TxCarries
<1>10. ASSUME "overlap" \notin passed' PROVE I2cToCan' /\ KeyOrder'
  BY <1>1, <1>6, <1>10, KeyOrderSame, I2cToCanSame DEF ReachInv
<1>11. ASSUME "overlap" \notin passed', "dropped" \notin passed'
       PROVE  TxCarries("i2c", Len(got.can["i2c"]))'
  <2>1. TxCarries("i2c", Len(got.can["i2c"])) /\ Len(got.can["i2c"]) \in Nat
    BY <1>1, <1>11, LogFacts, BusNames DEF ReachInv
  <2>2. FollowsUp(lnTx', "i2c", got'.ln["i2c"], Len(got.can["i2c"]), issued'["i2c"])
    BY <1>7, <2>1
  <2> QED
    BY <1>6, <2>2 DEF TxCarries
<1> QED
  BY <1>4, <1>8, <1>9, <1>10, <1>11 DEF ReachInv

\* A keyboard sends a message.
LEMMA ReachKey ==
  ASSUME TypeInv, ReachInv, NEW c \in Command, c.kind = "turnout",
         i2cRx' = Append(i2cRx, OfKeyboard(c)), issued' = Logged(issued, "i2c", c),
         UNCHANGED <<canRx, lnRx, lnTx, last, got>>, passed \subseteq passed',
         "overlap" \notin passed' => KeyOrder'
  PROVE  ReachInv'
<1> DEFINE log == issued["i2c"]
           more == issued'["i2c"]
           s == got.can["i2c"]
<1>1. more = Append(log, c) /\ \A b \in {"can", "ln"} : issued'[b] = issued[b]
  <2>1. \A b \in {"can", "ln"} : b \in Bus \ {"i2c"}
    BY DEF Bus
  <2>2. LogType /\ c.kind # "query"
    BY DEF TypeInv
  <2> QED
    BY <2>1, <2>2, LogMore, BusNames
<1>2. /\ log \in Seq(Command) /\ got.ln["i2c"] \in Seq(Command) /\ lnTx \in Seq(OutMessage)
      /\ Len(log) \in Nat /\ s \in Seq(Command) /\ Len(s) \in Nat
  BY LogFacts, BusNames DEF TypeInv, QueueType
<1> HIDE DEF log, more, s
<1>3. /\ Prefix(log, more) /\ Len(more) = Len(log) + 1 /\ more[Len(log) + 1] = c /\ more \in Seq(Command)
  <2>1. /\ Prefix(log, Append(log, c)) /\ Len(Append(log, c)) = Len(log) + 1
        /\ Append(log, c)[Len(log) + 1] = c /\ Append(log, c) \in Seq(Command)
    BY <1>2, PrefixAppend
  <2> QED
    BY <1>1, <2>1
<1>4. LnToCan' /\ NotBack' /\ TxForms(lnTx') /\ CanForms(canRx')
  BY <1>1, LnToCanSame DEF ReachInv, NotBack
<1>5. ASSUME "dropped" \notin passed' PROVE CanToLn'
  BY <1>1, <1>5 DEF ReachInv, CanToLn, TxCarries
<1>6. ASSUME "overlap" \notin passed' PROVE I2cToCan'
  <2>1. I2cToCan
    BY <1>6 DEF ReachInv
  <2>2. /\ Prefix(s, log) /\ Len(log) = Len(s) + Len(i2cRx)
        /\ \A i \in 1..Len(i2cRx) : i2cRx[i] = OfKeyboard(log[Len(s) + i])
    BY <2>1 DEF I2cToCan, log, s
  <2>3. /\ Len(i2cRx) \in Nat /\ Len(i2cRx') = Len(i2cRx) + 1
        /\ \A i \in 1..Len(i2cRx) : i2cRx'[i] = i2cRx[i]
        /\ i2cRx'[Len(i2cRx) + 1] = OfKeyboard(c)
    BY Appended, QueuesAreSeq
  <2>4. Prefix(s, more)
    BY <1>2, <1>3, <2>2, PrefixOf
  <2>5. \A i \in 1..Len(i2cRx') : i2cRx'[i] = OfKeyboard(more[Len(s) + i])
    <3> SUFFICES ASSUME NEW i \in 1..Len(i2cRx') PROVE i2cRx'[i] = OfKeyboard(more[Len(s) + i])
      OBVIOUS
    <3>1. CASE i \in 1..Len(i2cRx)
      <4>1. Len(s) + i \in 1..Len(log)
        BY <1>2, <2>2, <2>3, <3>1
      <4>2. more[Len(s) + i] = log[Len(s) + i]
        BY <1>3, <4>1 DEF Prefix
      <4> QED
        BY <2>2, <2>3, <3>1, <4>2
    <3>2. CASE i = Len(i2cRx) + 1
      <4>1. Len(s) + i = Len(log) + 1
        BY <1>2, <2>2, <2>3, <3>2
      <4> QED
        BY <1>3, <2>3, <3>2, <4>1
    <3> QED
      BY <2>3, <3>1, <3>2
  <2>6. Len(more) = Len(s) + Len(i2cRx')
    BY <1>2, <1>3, <2>2, <2>3
  <2> QED
    BY <2>4, <2>5, <2>6 DEF I2cToCan, more, s
<1>7. ASSUME "overlap" \notin passed', "dropped" \notin passed'
      PROVE  TxCarries("i2c", Len(got.can["i2c"]))'
  <2>1. FollowsUp(lnTx, "i2c", got.ln["i2c"], Len(s), log)
    BY <1>7 DEF ReachInv, TxCarries, log, s
  <2>2. FollowsUp(lnTx, "i2c", got.ln["i2c"], Len(s), more)
    BY <1>2, <1>3, <2>1, FollowsMore
  <2> QED
    BY <2>2 DEF TxCarries, more, s
<1> QED
  BY <1>4, <1>5, <1>6, <1>7 DEF ReachInv

\* The order of the keys after a command of key k, which is then the only one in use.
LEMMA KeyOrderCome ==
  ASSUME TypeInv, I2cToCan, KeyOrder, NEW c \in KeyCommand, NEW k \in Keyboard,
         issued'["i2c"] = Append(issued["i2c"], c), UNCHANGED <<last, got>>,
         ~c.on => Len(issued["i2c"]) > 0 /\ SameTurnout(issued["i2c"][Len(issued["i2c"])], c),
         \A j \in Keyboard : Busy(j)' => j = k,
         \A d \in InUse(k)' : SameTurnout(c, d)
  PROVE  KeyOrder'
<1> DEFINE log == issued["i2c"]
           more == issued'["i2c"]
           s == got.can["i2c"]
<1>1. log \in Seq(Command) /\ Len(log) \in Nat /\ Len(s) \in Nat /\ Len(s) <= Len(log)
  BY LogFacts, BusNames DEF I2cToCan, Prefix
<1>2. more = Append(log, c) /\ c \in Command
  BY DEF KeyCommand
<1> HIDE DEF log, more, s
<1>3. Len(more) = Len(log) + 1 /\ more[Len(log) + 1] = c /\ \A i \in 1..Len(log) : more[i] = log[i]
  BY <1>1, <1>2
<1>4. ASSUME NEW n \in 1..Len(more)
      PROVE  more[n] \in KeyCommand /\ (~more[n].on => n > 1 /\ SameTurnout(more[n - 1], more[n]))
  <2>1. CASE n \in 1..Len(log)
    <3>1. log[n] \in KeyCommand /\ (~log[n].on => n > 1 /\ SameTurnout(log[n - 1], log[n]))
      BY <2>1 DEF KeyOrder, log
    <3>2. n > 1 => n - 1 \in 1..Len(log)
      BY <2>1
    <3> QED
      BY <1>3, <2>1, <3>1, <3>2
  <2>2. CASE n = Len(log) + 1
    <3>1. ~c.on => Len(log) > 0 /\ SameTurnout(log[Len(log)], c)
      BY DEF log
    <3>2. Len(log) > 0 => n > 1 /\ n - 1 = Len(log) /\ more[n - 1] = log[Len(log)]
      BY <1>1, <1>3, <2>2
    <3> QED
      BY <1>3, <2>2, <3>1, <3>2
  <2> QED
    BY <1>1, <1>3, <2>1, <2>2
<1>5. Len(s) > 0 => SameTurnout(last, more[Len(s)])
  <2>1. Len(s) > 0 => Len(s) \in 1..Len(log)
    BY <1>1
  <2>2. Len(s) > 0 => SameTurnout(last, log[Len(s)])
    BY DEF KeyOrder, log, s
  <2> QED
    BY <1>3, <2>1, <2>2
<1>6. \A j \in Keyboard : \A d \in InUse(j)' : j = k
  BY DEF InUse, Busy
<1>7. \A j \in Keyboard : \A d \in InUse(j)' : Len(more) > 0 /\ SameTurnout(more[Len(more)], d)
  BY <1>1, <1>3, <1>6
<1>8. \A i, j \in Keyboard : Busy(i)' /\ Busy(j)' => i = j
  OBVIOUS
<1> QED
  BY <1>4, <1>5, <1>7, <1>8 DEF KeyOrder, more, s

\* No key but k is in use after a step at key k.
LEMMA KeyAlone ==
  ASSUME TypeInv, NEW k \in Keyboard, NEW r, keyboard' = [keyboard EXCEPT ![k] = r],
         \A j \in Keyboard : Busy(j) => j = k
  PROVE  /\ \A j \in Keyboard : Busy(j)' => j = k
         /\ InUse(k)' = {r.held, r.asking} \ {Nothing}
<1>1. keyboard'[k] = r /\ \A j \in Keyboard \ {k} : keyboard'[j] = keyboard[j]
  BY DEF TypeInv
<1>2. \A j \in Keyboard \ {k} : ~Busy(j)'
  BY <1>1 DEF Busy
<1> QED
  BY <1>1, <1>2 DEF InUse

LEMMA ReachPress ==
  ASSUME TypeInv, ReachInv, NEW k \in Keyboard, NEW u \in scenario.commands, u.from = "i2c",
         Press(k, u.cmd)
  PROVE  ReachInv'
<1> DEFINE c == u.cmd
<1>1. c \in Command /\ c.kind = "turnout" /\ c.on
  BY GivenType
<1>2. c.at \div 16 = k
  BY DEF Press
<1>3. /\ issued' = Logged(issued, "i2c", c)
      /\ i2cRx' = Append(i2cRx, OfKeyboard(c))
      /\ keyboard' = [keyboard EXCEPT ![k] = [held |-> c, asking |-> c]]
      /\ UNCHANGED <<canRx, lnRx, lnTx, last, got>>
      /\ passed \subseteq passed' /\ ("overlap" \notin passed' => \A j \in Keyboard : ~Busy(j))
  BY DEF Press, Give, Send, canVars, lnVars
<1> HIDE DEF c
<1>4. c \in KeyCommand
  BY <1>1, <1>2, KeyType
<1>5. issued'["i2c"] = Append(issued["i2c"], c)
  <2>1. LogType /\ c.kind # "query"
    BY <1>1 DEF TypeInv
  <2> QED
    BY <1>1, <1>3, <2>1, LogMore, BusNames
<1>6. ASSUME "overlap" \notin passed' PROVE KeyOrder'
  <2>1. I2cToCan /\ KeyOrder
    BY <1>3, <1>6 DEF ReachInv
  <2> DEFINE r == [held |-> c, asking |-> c]
  <2>2. r.held = c /\ r.asking = c /\ keyboard' = [keyboard EXCEPT ![k] = r]
    BY <1>3
  <2> HIDE DEF r
  <2>3. /\ \A j \in Keyboard : Busy(j)' => j = k
        /\ InUse(k)' = {r.held, r.asking} \ {Nothing}
    BY <1>3, <1>6, <2>2, KeyAlone
  <2>4. \A d \in InUse(k)' : SameTurnout(c, d)
    BY <2>2, <2>3 DEF SameTurnout
  <2> QED
    BY <1>1, <1>3, <1>4, <1>5, <2>1, <2>3, <2>4, KeyOrderCome
<1> QED
  BY <1>1, <1>3, <1>6, ReachKey

LEMMA ReachRelease ==
  ASSUME TypeInv, ReachInv, NEW k \in Keyboard, Release(k)
  PROVE  ReachInv'
<1> DEFINE h == keyboard[k].held
           c == [h EXCEPT !.on = FALSE]
<1>1. /\ h # Nothing
      /\ issued' = Logged(issued, "i2c", c)
      /\ i2cRx' = Append(i2cRx, OfKeyboard(c))
      /\ keyboard' = [keyboard EXCEPT ![k] = [held |-> Nothing, asking |-> c]]
      /\ UNCHANGED <<canRx, lnRx, lnTx, last, got, passed>>
  BY DEF Release, Send, canVars, lnVars
<1>2. h \in KeyCommand
  BY <1>1 DEF TypeInv, Key
<1>3. Busy(k) /\ h \in InUse(k)
  BY <1>1 DEF Busy, InUse
<1> HIDE DEF h
<1>4. c = Switch(h.at, h.value, FALSE) /\ c \in KeyCommand
  BY <1>2, ReleasedType
<1> HIDE DEF c
<1>5. c \in Command /\ c.kind = "turnout" /\ SameTurnout(h, c)
  BY <1>4 DEF KeyCommand, SameTurnout, Switch
<1>6. issued'["i2c"] = Append(issued["i2c"], c)
  <2>1. LogType /\ c.kind # "query"
    BY <1>5 DEF TypeInv
  <2> QED
    BY <1>1, <1>5, <2>1, LogMore, BusNames
<1>7. ASSUME "overlap" \notin passed' PROVE KeyOrder'
  <2>1. I2cToCan /\ KeyOrder
    BY <1>1, <1>7 DEF ReachInv
  <2> DEFINE r == [held |-> Nothing, asking |-> c]
  <2>2. r.held = Nothing /\ r.asking = c /\ keyboard' = [keyboard EXCEPT ![k] = r]
    BY <1>1
  <2> HIDE DEF r
  <2>3. \A j \in Keyboard : Busy(j) => j = k
    BY <1>3, <2>1 DEF KeyOrder
  <2>4. /\ \A j \in Keyboard : Busy(j)' => j = k
        /\ InUse(k)' = {r.held, r.asking} \ {Nothing}
    BY <2>2, <2>3, KeyAlone
  <2>5. \A d \in InUse(k)' : SameTurnout(c, d)
    BY <2>2, <2>4 DEF SameTurnout
  <2>6. Len(issued["i2c"]) > 0 /\ SameTurnout(issued["i2c"][Len(issued["i2c"])], h)
    BY <1>3, <2>1 DEF KeyOrder
  <2>7. Len(issued["i2c"]) > 0 /\ SameTurnout(issued["i2c"][Len(issued["i2c"])], c)
    BY <1>5, <2>6 DEF SameTurnout
  <2> QED
    BY <1>1, <1>4, <1>6, <2>1, <2>4, <2>5, <2>7, KeyOrderCome
<1> QED
  BY <1>1, <1>5, <1>7, ReachKey

LEMMA ReachRepeat ==
  ASSUME TypeInv, ReachInv, NEW k \in Keyboard, Repeat(k)
  PROVE  ReachInv'
<1> DEFINE c == keyboard[k].asking
<1>1. /\ c # Nothing
      /\ issued' = Logged(issued, "i2c", c)
      /\ i2cRx' = Append(i2cRx, OfKeyboard(c))
      /\ UNCHANGED <<keyboard, canRx, lnRx, lnTx, last, got, passed>>
  BY DEF Repeat, Send, canVars, lnVars
<1>2. c \in KeyCommand
  BY <1>1 DEF TypeInv, Key
<1>3. Busy(k) /\ c \in InUse(k) /\ UNCHANGED <<Busy(k), InUse(k)>>
  BY <1>1 DEF Busy, InUse
<1> HIDE DEF c
<1>4. c \in Command /\ c.kind = "turnout"
  BY <1>2 DEF KeyCommand
<1>5. issued'["i2c"] = Append(issued["i2c"], c)
  <2>1. LogType /\ c.kind # "query"
    BY <1>4 DEF TypeInv
  <2> QED
    BY <1>1, <1>4, <2>1, LogMore, BusNames
<1>6. ASSUME "overlap" \notin passed' PROVE KeyOrder'
  <2>1. I2cToCan /\ KeyOrder
    BY <1>1, <1>6 DEF ReachInv
  <2>2. \A j \in Keyboard : Busy(j) => j = k
    BY <1>3, <2>1 DEF KeyOrder
  <2>3. \A j \in Keyboard : Busy(j)' => j = k
    BY <1>1, <2>2 DEF Busy
  <2>4. \A d \in InUse(k) : Len(issued["i2c"]) > 0 /\ SameTurnout(issued["i2c"][Len(issued["i2c"])], d)
    BY <2>1 DEF KeyOrder
  <2>5. Len(issued["i2c"]) > 0 /\ SameTurnout(issued["i2c"][Len(issued["i2c"])], c)
    BY <1>3, <2>4
  <2>6. \A d \in InUse(k)' : SameTurnout(c, d)
    BY <1>3, <2>4, <2>5 DEF SameTurnout
  <2> QED
    BY <1>1, <1>2, <1>5, <2>1, <2>3, <2>5, <2>6, KeyOrderCome
<1> QED
  BY <1>1, <1>4, <1>6, ReachKey

\* A keyboard that has its answer is no longer in use, or its key is still down.
LEMMA ReachAnswer ==
  ASSUME TypeInv, ReachInv, KeyboardReceives
  PROVE  ReachInv'
<1>1. /\ UNCHANGED <<canRx, i2cRx, lnRx, lnTx, last, issued, got, passed>>
      /\ \/ keyboard' = keyboard
         \/ \E k \in Keyboard : keyboard' = [keyboard EXCEPT ![k].asking = Nothing]
  BY DEF KeyboardReceives, taskVars, canVars, lnVars, history
<1>2. keyboard \in [Keyboard -> Key]
  BY DEF TypeInv
<1>3. ASSUME NEW j \in Keyboard
      PROVE  (Busy(j)' => Busy(j)) /\ InUse(j)' \subseteq InUse(j)
  <2>1. CASE keyboard' = keyboard
    BY <2>1 DEF Busy, InUse
  <2>2. ASSUME NEW k \in Keyboard, keyboard' = [keyboard EXCEPT ![k].asking = Nothing]
        PROVE  (Busy(j)' => Busy(j)) /\ InUse(j)' \subseteq InUse(j)
    <3>1. keyboard'[j].held = keyboard[j].held /\ keyboard'[j].asking \in {Nothing, keyboard[j].asking}
      BY <1>2, <2>2 DEF Key
    <3> QED
      BY <3>1 DEF Busy, InUse
  <2> QED
    BY <1>1, <2>1, <2>2
<1>4. ASSUME KeyOrder PROVE KeyOrder'
  BY <1>1, <1>3, <1>4 DEF KeyOrder
<1>5. CanForms(canRx') /\ TxForms(lnTx') /\ NotBack' /\ LnToCan'
  BY <1>1, LnToCanSame DEF ReachInv, NotBack
<1>6. CanToLn => CanToLn'
  BY <1>1 DEF CanToLn, TxCarries
<1>7. I2cToCan => I2cToCan'
  BY <1>1, I2cToCanSame
<1>8. TxCarries("i2c", Len(got.can["i2c"])) => TxCarries("i2c", Len(got.can["i2c"]))'
  BY <1>1 DEF TxCarries
<1> QED
  BY <1>1, <1>4, <1>5, <1>6, <1>7, <1>8 DEF ReachInv

\* The words of an address of the bus, and the address again.
LEMMA KeyAddress ==
  ASSUME NEW a \in 0..255, NEW v
  PROVE  /\ TurnoutAddr(makeMsg(a, v, TRUE)) = a
         /\ TurnoutAddr(makeMsg(a, v, FALSE)) \in Nat
         /\ sameDecoder(TurnoutAddr(makeMsg(a, v, FALSE)), a)
<1> DEFINE d == a \div 4
           e == a % 4
           q == d \div 4
           b == d % 4
<1>1. d \in 0..63 /\ e \in 0..3 /\ a = 4 * d + e
  OBVIOUS
<1> HIDE DEF d, e
<1>2. q \in 0..15 /\ b \in 0..3 /\ d = 4 * q + b
  BY <1>1
<1> HIDE DEF q, b
<1>3. (a \div 16) % 16 = q
  <2>1. a \div 16 = q
    BY <1>1, <1>2
  <2> QED
    BY <1>2, <2>1
<1>4. (a \div 4) % 4 = b
  BY DEF b, d
<1>5. a % 4 = e
  BY DEF e
<1> DEFINE x == TurnoutAddr(makeMsg(a, v, TRUE))
           y == TurnoutAddr(makeMsg(a, v, FALSE))
<1>6. x = 16 * q + 4 * b + e /\ y = 16 * q + 4 * b + 0
  <2>1. /\ makeMsg(a, v, TRUE) = [keyboard |-> q, decoder |-> b, output |-> e, value |-> v, on |-> TRUE]
        /\ makeMsg(a, v, FALSE) = [keyboard |-> q, decoder |-> b, output |-> 0, value |-> "red", on |-> FALSE]
    BY <1>3, <1>4, <1>5, Zenon DEF makeMsg
  <2>2. \A o, c, on :
          LET m == [keyboard |-> q, decoder |-> b, output |-> o, value |-> c, on |-> on]
          IN  TurnoutAddr(m) = 16 * q + 4 * b + o
    BY DEF TurnoutAddr
  <2> QED
    BY <2>1, <2>2, Zenon
<1> HIDE DEF x, y
<1>7. x = a
  BY <1>1, <1>2, <1>6
<1>8. y = 4 * d /\ y \in Nat
  BY <1>1, <1>2, <1>6
<1>9. sameDecoder(4 * d, a)
  <2>1. (4 * d) % 256 = 4 * d /\ a % 256 = a
    BY <1>1
  <2>2. (4 * d) \div 4 = d /\ a \div 4 = d
    BY <1>1
  <2> QED
    BY <2>1, <2>2 DEF sameDecoder
<1>10. sameDecoder(y, a)
  BY <1>8, <1>9
<1> QED
  BY <1>7, <1>8, <1>10 DEF x, y

\* What the forwarder makes of the message of a key is what the user asked for,
\* if a power-off is for the turnout which it remembers.
LEMMA KeyMeant ==
  ASSUME NEW c \in KeyCommand, last \in [at : Nat, value : Value], ~c.on => SameTurnout(last, c)
  PROVE  /\ MakeRR32CanMsg(OfKeyboard(c)).cmd = c
         /\ LnMessages(MakeRR32CanMsg(OfKeyboard(c))) = <<c>>
         /\ OfKeyboard(c).on = c.on
         /\ c.on => TurnoutAddr(OfKeyboard(c)) = c.at /\ OfKeyboard(c).value = c.value
<1> DEFINE m == OfKeyboard(c)
           f == MakeRR32CanMsg(m)
<1>1. /\ c \in Command /\ c.kind = "turnout" /\ c.at \in 0..255 /\ c.on \in BOOLEAN
      /\ c = Switch(c.at, c.value, c.on)
  BY DEF KeyCommand, Command, Switch
<1>2. m = makeMsg(c.at, c.value, c.on)
  BY DEF OfKeyboard
<1>3. m.on = c.on /\ (c.on => m.value = c.value)
  BY <1>2 DEF makeMsg
<1>4. /\ c.on => TurnoutAddr(m) = c.at
      /\ ~c.on => sameDecoder(TurnoutAddr(m), c.at)
  <2>1. /\ TurnoutAddr(makeMsg(c.at, c.value, TRUE)) = c.at
        /\ sameDecoder(TurnoutAddr(makeMsg(c.at, c.value, FALSE)), c.at)
    BY <1>1, KeyAddress
  <2>2. c.on = TRUE \/ c.on = FALSE
    BY <1>1
  <2> QED
    BY <1>2, <2>1, <2>2
<1>5. m \in Message
  BY <1>1, MessageType
<1> HIDE DEF m
<1>6. f.cmd = c
  <2>1. CASE c.on
    <3>1. f = Frame(Switch(TurnoutAddr(m), m.value, TRUE), Rail, FALSE, "i2c")
      BY <1>3, <2>1 DEF MakeRR32CanMsg
    <3>2. f = Frame(Switch(c.at, c.value, c.on), Rail, FALSE, "i2c")
      BY <1>1, <1>3, <1>4, <2>1, <3>1
    <3> QED
      BY <1>1, <3>2 DEF Frame
  <2>2. CASE ~c.on
    <3>1. last.at = c.at /\ last.value = c.value
      BY <2>2 DEF SameTurnout
    <3>2. f = Frame(Switch(last.at, last.value, FALSE), Rail, FALSE, "i2c")
      BY <1>3, <1>4, <2>2, <3>1 DEF MakeRR32CanMsg
    <3>3. f = Frame(Switch(c.at, c.value, c.on), Rail, FALSE, "i2c")
      BY <1>1, <2>2, <3>1, <3>2
    <3> QED
      BY <1>1, <3>3 DEF Frame
  <2> QED
    BY <2>1, <2>2
<1>7. f \in Frames /\ ~f.response
  BY <1>5, CanMsgType
<1> HIDE DEF f
<1>8. LnMessages(f) = <<c>>
  <2>1. LnMessages(f) # <<>>
    BY <1>1, <1>6, <1>7 DEF LnMessages
  <2>2. PICK d \in Command :
          /\ LnMessages(f) = <<d>> /\ d.kind = f.cmd.kind
          /\ (d.kind = "turnout" => f.cmd.at < 2048) /\ (d.kind = "sensor" => f.cmd.at < 4096)
               => d = f.cmd
    BY <1>7, <2>1, LnForm
  <2>3. d.kind = "turnout" /\ c.at < 2048
    BY <1>1, <1>6, <2>2
  <2> QED
    BY <1>6, <2>2, <2>3
<1> QED
  BY <1>3, <1>4, <1>6, <1>8 DEF f, m

\* The first message of the I2C bus is handled.
LEMMA ReachI2C ==
  ASSUME TypeInv, ReachInv, processI2CMessages
  PROVE  ReachInv'
<1> DEFINE m == Head(i2cRx)
           f == MakeRR32CanMsg(m)
           ms == LnMessages(f)
           addr == TurnoutAddr(m)
           log == issued["i2c"]
           s == got.can["i2c"]
<1>1. /\ i2cRx # <<>> /\ i2cRx' = Tail(i2cRx) /\ SendPacket(f) /\ AsyncSend(ms, f.from)
      /\ last' = IF m.on THEN [at |-> addr, value |-> m.value] ELSE last
      /\ UNCHANGED <<canRx, lnRx, keyboard, issued>>
  BY DEF processI2CMessages
<1>2. m \in Message /\ QueueType /\ last \in [at : Nat, value : Value]
  BY <1>1 DEF TypeInv, QueueType
<1>3. /\ Len(i2cRx) \in Nat /\ Len(i2cRx) >= 1 /\ Len(Tail(i2cRx)) = Len(i2cRx) - 1
      /\ m = i2cRx[1]
      /\ \A i \in 1..Len(Tail(i2cRx)) : Tail(i2cRx)[i] = i2cRx[i + 1]
  BY <1>1, Removed, QueuesAreSeq
<1>4. ASSUME NEW c \in KeyCommand, m = OfKeyboard(c), ~c.on => SameTurnout(last, c)
      PROVE  f.cmd = c /\ ms = <<c>> /\ m.on = c.on /\ (c.on => addr = c.at /\ m.value = c.value)
  BY <1>2, <1>4, KeyMeant
<1> HIDE DEF m, addr
<1>5. f \in Frames /\ f.cmd.kind = "turnout" /\ ~f.response /\ f.from = "i2c"
  BY <1>2, CanMsgType
<1> HIDE DEF f
<1>6. ms = <<>> \/ \E c \in Command : ms = <<c>> /\ c.kind = f.cmd.kind
  BY <1>5, LnForm
<1> HIDE DEF ms
<1>7. /\ got'.ln = got.ln /\ got'.can["i2c"] = Append(s, f.cmd)
      /\ got'.can["can"] = got.can["can"] /\ got'.can["ln"] = got.can["ln"]
  <2>1. /\ got'.ln = got.ln
        /\ got'.can[f.from] = Append(got.can[f.from], f.cmd)
        /\ \A b \in Bus \ {f.from} : got'.can[b] = got.can[b]
    BY <1>1, <1>5, SentCan
  <2> QED
    BY <1>5, <2>1 DEF Bus
<1>8. TxForms(lnTx')
  <2>1. ms = <<>> \/ \E c : ms = <<c>> /\ (f.from = "own" \/ (f.from # "ln" /\ c.kind # "query"))
    BY <1>5, <1>6
  <2>2. TxForms(lnTx)
    BY DEF ReachInv
  <2> QED
    BY <1>1, <1>2, <2>1, <2>2, TxFormAsync
<1>9. NotBack' /\ LnToCan' /\ CanForms(canRx')
  BY <1>1, <1>7, LnToCanSame DEF ReachInv, NotBack
<1>10. passed \subseteq passed'
  BY <1>1 DEF AsyncSend
<1>11. ASSUME "dropped" \notin passed' PROVE CanToLn'
  <2>1. PICK e \in Nat : /\ TxCarries("can", e)
                         /\ Carries(OfCan(canRx), Len(canRx), e, Len(issued["can"]), issued["can"])
    BY <1>10, <1>11 DEF ReachInv, CanToLn
  <2>2. /\ issued["can"] \in Seq(Command) /\ got.ln["can"] \in Seq(Command)
        /\ FollowsUp(lnTx, "can", got.ln["can"], e, issued["can"])
    BY <2>1, LogFacts, BusNames DEF TxCarries
  <2>3. f.from # "can"
    BY <1>5
  <2>4. FollowsUp(lnTx', "can", got.ln["can"], e, issued["can"])
    BY <1>1, <1>2, <1>11, <2>2, <2>3, FollowsAsync
  <2> QED
    BY <1>1, <1>7, <2>1, <2>4 DEF CanToLn, TxCarries
<1>12. log \in Seq(Command) /\ Len(log) \in Nat /\ s \in Seq(Command) /\ Len(s) \in Nat
       /\ got.ln["i2c"] \in Seq(Command)
  BY LogFacts, BusNames
<1> DEFINE n == Len(s)
<1>13. ASSUME "overlap" \notin passed'
       PROVE  \E c \in KeyCommand :
                /\ n < Len(log) /\ c = log[n + 1] /\ f.cmd = c /\ ms = <<c>>
                /\ SameTurnout(last', c)
  <2>1. I2cToCan /\ KeyOrder
    BY <1>10, <1>13 DEF ReachInv
  <2> DEFINE c == log[n + 1]
  <2>2. n + 1 \in 1..Len(log) /\ m = OfKeyboard(c)
    <3>1. /\ Len(log) = n + Len(i2cRx)
          /\ \A i \in 1..Len(i2cRx) : i2cRx[i] = OfKeyboard(log[n + i])
      BY <2>1 DEF I2cToCan
    <3> HIDE DEF log, n
    <3>2. 1 \in 1..Len(i2cRx)
      BY <1>3
    <3>3. n \in Nat
      BY <1>12 DEF n
    <3> QED
      BY <1>3, <3>1, <3>2, <3>3
  <2>3. c \in KeyCommand /\ (~c.on => n + 1 > 1 /\ SameTurnout(log[(n + 1) - 1], c))
    BY <2>1, <2>2 DEF KeyOrder
  <2>4. n > 0 => SameTurnout(last, log[n])
    BY <2>1 DEF KeyOrder
  <2> HIDE DEF log
  <2>5. n \in Nat /\ (n + 1) - 1 = n /\ (n + 1 > 1 => n > 0)
    BY <1>12
  <2> HIDE DEF n, c
  <2>6. ~c.on => SameTurnout(last, c)
    BY <2>3, <2>4, <2>5 DEF SameTurnout
  <2>7. f.cmd = c /\ ms = <<c>> /\ m.on = c.on /\ (c.on => addr = c.at /\ m.value = c.value)
    BY <1>4, <2>2, <2>3, <2>6
  <2>8. SameTurnout(last', c)
    <3>1. CASE c.on
      <4>1. last' = [at |-> addr, value |-> m.value]
        BY <1>1, <2>7, <3>1
      <4> QED
        BY <2>7, <3>1, <4>1 DEF SameTurnout
    <3>2. CASE ~c.on
      BY <1>1, <2>6, <2>7, <3>2
    <3> QED
      BY <3>1, <3>2
  <2>9. n < Len(log)
    BY <1>12, <2>2, <2>5
  <2> QED
    BY <2>3, <2>7, <2>8, <2>9 DEF c
<1>14. ASSUME "overlap" \notin passed' PROVE I2cToCan' /\ KeyOrder'
  <2>1. I2cToCan /\ KeyOrder
    BY <1>10, <1>14 DEF ReachInv
  <2>2. PICK c \in KeyCommand : /\ n < Len(log) /\ c = log[n + 1] /\ f.cmd = c
                                /\ SameTurnout(last', c)
    BY <1>13, <1>14
  <2> DEFINE more == Append(s, c)
  <2>3. got'.can["i2c"] = more /\ c \in Command
    BY <1>7, <2>2 DEF KeyCommand
  <2>4. Prefix(s, log) /\ Len(log) = n + Len(i2cRx)
        /\ \A i \in 1..Len(i2cRx) : i2cRx[i] = OfKeyboard(log[n + i])
    BY <2>1 DEF I2cToCan
  <2>5. Prefix(more, log) /\ Len(more) = n + 1
    <3> HIDE DEF log, s
    <3>1. Prefix(s, log) /\ Len(s) < Len(log) /\ c = log[Len(s) + 1]
      BY <2>2, <2>4
    <3>2. Prefix(Append(s, c), log)
      BY <1>12, <2>3, <3>1, PrefixNext
    <3>3. Len(Append(s, c)) = n + 1
      BY <1>12, <2>3
    <3> QED
      BY <3>2, <3>3
  <2> HIDE DEF more
  <2>6. I2cToCan'
    <3>1. Len(log) = Len(more) + Len(i2cRx') /\ \A i \in 1..Len(i2cRx') : i2cRx'[i] = OfKeyboard(log[Len(more) + i])
      <4> HIDE DEF log, n
      <4>1. n \in Nat
        BY <1>12 DEF n
      <4>2. \A i \in 1..Len(i2cRx') : i + 1 \in 1..Len(i2cRx) /\ n + (i + 1) = Len(more) + i
        BY <1>1, <1>3, <2>5, <4>1
      <4>3. Len(log) = Len(more) + Len(i2cRx')
        BY <1>1, <1>3, <2>4, <2>5, <4>1
      <4> QED
        BY <1>1, <1>3, <2>4, <4>2, <4>3
    <3> QED
      BY <1>1, <2>3, <2>5, <3>1 DEF I2cToCan
  <2>7. KeyOrder'
    <3>1. Len(more) > 0 => SameTurnout(last', log[Len(more)])
      BY <2>2, <2>5
    <3> QED
      BY <1>1, <2>1, <2>3, <3>1 DEF KeyOrder, Busy, InUse
  <2> QED
    BY <2>6, <2>7
<1>15. ASSUME "overlap" \notin passed', "dropped" \notin passed'
       PROVE  TxCarries("i2c", Len(got.can["i2c"]))'
  <2>1. PICK c \in KeyCommand : n < Len(log) /\ c = log[n + 1] /\ f.cmd = c /\ ms = <<c>>
    BY <1>13, <1>15
  <2>2. FollowsUp(lnTx, "i2c", got.ln["i2c"], n, log)
    BY <1>10, <1>15 DEF ReachInv, TxCarries
  <2>3. n \in Nat /\ Len(Append(s, f.cmd)) = n + 1
    <3>1. f.cmd \in Command
      BY <1>5 DEF Frames
    <3> QED
      BY <1>12, <3>1
  <2> HIDE DEF n, log, s
  <2>4. FollowsUp(lnTx', "i2c", got.ln["i2c"], n + 1, log)
    BY <1>1, <1>2, <1>5, <1>12, <1>15, <2>1, <2>2, <2>3, FollowsAsync
  <2> QED
    BY <1>1, <1>7, <2>3, <2>4 DEF TxCarries, log
<1> QED
  BY <1>8, <1>9, <1>11, <1>14, <1>15 DEF ReachInv

LEMMA ReachStep ==
  ASSUME TypeInv, ReachInv, [Next]_vars
  PROVE  ReachInv'
<1>1. CASE RoutingTask
  BY <1>1, ReachIdle, ReachStopGo, ReachCAN, ReachI2C, ReachLocoNet, ReachDummy, Zenon
     DEF RoutingTask
<1>2. CASE Users
  <2>1. ASSUME NEW u \in scenario.commands, u.from = "line", Edge(u.cmd.kind) PROVE ReachInv'
    <3>1. u.cmd.kind \in PowerKinds
      BY <2>1, GivenType
    <3> QED
      BY <2>1, <3>1, ReachIdle, Zenon
  <2>2. ASSUME NEW u \in scenario.commands, u.from = "can", CanUser(u.cmd, u.rail) PROVE ReachInv'
    <3>1. u.cmd \in Command /\ u.rail \in Rails /\ u.cmd.kind # "query" /\ Reach(u.cmd)
      BY <2>2, GivenType DEF Reach
    <3> QED
      BY <2>2, <3>1, ReachCanUser, Zenon
  <2>3. ASSUME NEW u \in scenario.commands, u.from = "ln", LnUser(u.cmd) PROVE ReachInv'
    <3>1. u.cmd \in Command
      BY <2>3, GivenType
    <3> QED
      BY <2>3, <3>1, ReachLnUser, Zenon
  <2> QED
    BY <1>2, <2>1, <2>2, <2>3, ReachPress, ReachRelease, ReachRepeat, ReachIdle, Zenon DEF Users
<1>3. CASE DoBlockingSend \/ Central \/ KeyboardReceives \/ UNCHANGED vars
  BY <1>3, ReachSend, ReachCentral, ReachAnswer, ReachIdle, Zenon
<1> QED
  BY <1>1, <1>2, <1>3, Zenon DEF Next

\* A queue that is empty carries nothing: all has arrived.
LEMMA Arrived ==
  ASSUME TypeInv, lnTx = <<>>, NEW w \in Bus, NEW m \in Nat, TxCarries(w, m), m = Len(issued[w])
  PROVE  got.ln[w] = issued[w]
<1>1. Len(lnTx) = 0
  OBVIOUS
<1>2. Prefix(got.ln[w], issued[w]) /\ Len(got.ln[w]) = m
  BY <1>1, CarriesEmpty DEF TxCarries, FollowsUp
<1> QED
  BY <1>2, LogFacts, PrefixWhole

\* GeneralOperation.md: control messages are forwarded between all buses.  Once
\* all is quiet, the commands of LocoNet have reached CAN, those of CAN LocoNet and
\* those of the keyboards both, each exactly once and in its order: all of the
\* commands of LocoNet; those to LocoNet unless its queue dropped a message; those
\* of the keyboards unless two keys were in use at a time.
THEOREM EachArrives == Spec => []EachReachesTheOthers
<1>1. Init => TypeInv /\ ReachInv
  BY TypeInit, ReachInit
<1>2. TypeInv /\ ReachInv /\ [Next]_vars => TypeInv' /\ ReachInv'
  BY TypeStep, ReachStep
<1>3. TypeInv /\ ReachInv => EachReachesTheOthers
  <2> SUFFICES ASSUME TypeInv, ReachInv, Rest PROVE EachReachesTheOthers
    BY DEF EachReachesTheOthers
  <2>1. /\ canRx = <<>> /\ i2cRx = <<>> /\ lnRx = <<>> /\ lnTx = <<>>
        /\ Len(canRx) = 0 /\ Len(i2cRx) = 0 /\ Len(lnRx) = 0
    BY DEF Rest
  <2>2. got.can["ln"] = issued["ln"]
    <3>1. Prefix(got.can["ln"], issued["ln"]) /\ Len(got.can["ln"]) = Len(issued["ln"])
      BY <2>1, CarriesEmpty DEF ReachInv, LnToCan
    <3> QED
      BY <3>1, LogFacts, PrefixWhole, BusNames
  <2>3. ASSUME "dropped" \notin passed PROVE got.ln["can"] = issued["can"]
    <3>1. PICK m \in Nat : /\ TxCarries("can", m)
                           /\ Carries(OfCan(canRx), Len(canRx), m, Len(issued["can"]), issued["can"])
      BY <2>3 DEF ReachInv, CanToLn
    <3>2. m = Len(issued["can"])
      BY <2>1, <3>1, CarriesEmpty
    <3> QED
      BY <2>1, <3>1, <3>2, Arrived, BusNames
  <2>4. ASSUME "overlap" \notin passed PROVE got.can["i2c"] = issued["i2c"]
    <3>1. Prefix(got.can["i2c"], issued["i2c"]) /\ Len(issued["i2c"]) = Len(got.can["i2c"]) + Len(i2cRx)
      BY <2>4 DEF ReachInv, I2cToCan
    <3>2. Len(got.can["i2c"]) \in Nat /\ got.can["i2c"] \in Seq(Command) /\ issued["i2c"] \in Seq(Command)
      BY LogFacts, BusNames
    <3>3. Len(issued["i2c"]) = Len(got.can["i2c"])
      BY <2>1, <3>1, <3>2
    <3> QED
      BY <3>1, <3>2, <3>3, PrefixWhole
  <2>5. ASSUME "overlap" \notin passed, "dropped" \notin passed PROVE got.ln["i2c"] = issued["i2c"]
    <3>1. TxCarries("i2c", Len(got.can["i2c"])) /\ Len(got.can["i2c"]) \in Nat
      BY <2>5, LogFacts, BusNames DEF ReachInv
    <3>2. Len(got.can["i2c"]) = Len(issued["i2c"])
      BY <2>4, <2>5
    <3> QED
      BY <2>1, <3>1, <3>2, Arrived, BusNames
  <2>6. NotBack
    BY DEF ReachInv
  <2> QED
    BY <2>2, <2>3, <2>4, <2>5, <2>6 DEF EachReachesTheOthers, NotBack
<1> QED
  BY <1>1, <1>2, <1>3, PTL DEF Spec
-----------------------------------------------------------------------------
(***************************************************************************)
(* The lamps follow the central.  In the order in which they arrive, the   *)
(* answers that are still under way lead a lamp to the position of its     *)
(* turnout.  A power-off, which is not shown, sets the turnout once more;  *)
(* it must find the turnout as it leaves it.                               *)
(***************************************************************************)
\* Power-offs come from keys only; answers of our own are given to keyboards of a
\* central that is in the go state.
UsersSwitchOn ==
  /\ Rail # "none"
  /\ \A s \in Scenarios :
       /\ s.respond => s.track = "go"
       /\ \A u \in s.commands :
            u.from \in {"can", "ln"} /\ u.cmd.kind = "turnout" => u.cmd.on

\* What sets a turnout at the central, and what sets a lamp.
Sets(f, t) ==
  /\ f.cmd.kind = "turnout" /\ f.rail # "none" /\ isMatchingTurnoutRailProtocol(f.rail)
  /\ f.cmd.at = t
Answers(f, t) ==
  /\ f.response /\ f.cmd.kind = "turnout" /\ isMatchingTurnoutRailProtocol(f.rail)
  /\ f.cmd.at = t /\ f.cmd.on
Lights(m, t) == m.on /\ TurnoutAddr(m) = t

\* No command that switches the turnout on, and no answer to one, is under way when a
\* key is pressed for it, unless the gateway answers itself.
UnderWay(t) ==
  \/ \E i \in 1..Len(i2cRx) : Lights(i2cRx[i], t)
  \/ \E i \in 1..Len(toCentral) : Sets(toCentral[i], t) /\ toCentral[i].cmd.on
  \/ \E i \in 1..Len(canRx) : Answers(canRx[i], t)
  \/ \E i \in 1..Len(i2cTx) : Lights(i2cTx[i], t)
ClearPress ==
  \A k \in Keyboard : \A u \in scenario.commands :
    Press(k, u.cmd) => scenario.respond \/ ~UnderWay(u.cmd.at)

\* What a queue does to one turnout, element by element, and that it leads from the
\* value b to the value v, the last of those that its first n elements set.
Unset == "unset"
SetBy(q, t)      == [i \in 1..Len(q) |-> IF Sets(q[i], t) THEN q[i].cmd.value ELSE Unset]
AnsweredBy(q, t) == [i \in 1..Len(q) |-> IF Answers(q[i], t) THEN q[i].cmd.value ELSE Unset]
LitBy(q, t)      == [i \in 1..Len(q) |-> IF Lights(q[i], t) THEN q[i].value ELSE Unset]
Final(s, n, b, v) ==
  \A i \in 0..n :
    (i = 0 \/ s[i] # Unset) /\ (\A j \in (i + 1)..n : s[j] = Unset)
      => v = IF i = 0 THEN b ELSE s[i]

\* The first n requests leave the turnout at v: whether the central handles them or
\* not, or, with answers of our own, because it handles them all.
Leads(n, t, v) ==
  IF scenario.respond THEN Final(SetBy(toCentral, t), n, position[t], v)
  ELSE position[t] = v /\ \A i \in 1..n : SetBy(toCentral, t)[i] \in {v, Unset}

\* The command that is remembered when the n-th message is handled is that of the
\* j-th, or for j = 0 the one remembered now.
Memory(q, m, j) == IF j = 0 THEN m ELSE [at |-> TurnoutAddr(q[j]), value |-> q[j].value]
IsPrior(q, j, n) == (j = 0 \/ q[j].on) /\ \A l \in (j + 1)..(n - 1) : ~q[l].on
Recalls(q, m, n, j) ==
  ~q[n].on /\ IsPrior(q, j, n) /\ sameDecoder(TurnoutAddr(q[n]), Memory(q, m, j).at)

NoneOfLn(t) == \A i \in 1..Len(lnRx) : ~(lnRx[i].kind = "turnout" /\ lnRx[i].at = t)

-----------------------------------------------------------------------------
\* A power-off on its way to the central finds the turnout as it leaves it.
FrameInv ==
  \A t \in Turnout : \A i \in 1..Len(toCentral) :
    Sets(toCentral[i], t) /\ ~toCentral[i].cmd.on => Leads(i - 1, t, toCentral[i].cmd.value)

\* So will one that the gateway has not handled.
OffSure(n, j, t, v) ==
  /\ NoneOfLn(t)
  /\ (scenario.respond /\ j # 0) \/ Leads(Len(toCentral), t, v)
  /\ ~scenario.respond =>
       \A l \in 1..(n - 1) : Lights(i2cRx[l], t) => i2cRx[l].value = v
OffInv ==
  \A n \in 1..Len(i2cRx) : \A j \in 0..(n - 1) : \A t \in Turnout, v \in Value :
    Recalls(i2cRx, last, n, j) /\ Memory(i2cRx, last, j) = [at |-> t, value |-> v]
      => OffSure(n, j, t, v)

\* What is remembered of the keyboard of a key in use is the command of this key.
KeyRecalls(k, c) ==
  \A j \in 0..Len(i2cRx) :
    LET d == Memory(i2cRx, last, j)
    IN  IsPrior(i2cRx, j, Len(i2cRx) + 1) /\ d.at \div 16 = k =>
          /\ SameTurnout(d, c)
          /\ scenario.respond /\ j = 0 /\ c.at \in Turnout => Leads(Len(toCentral), c.at, c.value)
KeyInv ==
  \A k \in Keyboard : \A c \in InUse(k) : NoneOfLn(c.at) /\ KeyRecalls(k, c)

\* A key that was answered has set its turnout, and what is under way leaves it so.
Replied(t, v) ==
  \/ \E i \in 1..Len(canRx) : Answers(canRx[i], t) /\ canRx[i].cmd.value = v
  \/ \E i \in 1..Len(i2cTx) : Lights(i2cTx[i], t) /\ i2cTx[i].value = v
ReplySure(k, c) ==
  /\ \A i \in 1..Len(i2cRx) : Lights(i2cRx[i], c.at) => i2cRx[i].value = c.value
  /\ \A i \in 1..Len(toCentral) :
       Sets(toCentral[i], c.at) /\ toCentral[i].cmd.on => toCentral[i].cmd.value = c.value
  /\ Replied(c.at, c.value) \/ ~keyboard[k].asking.on => position[c.at] = c.value
ReplyInv ==
  ~scenario.respond =>
    \A k \in Keyboard : \A c \in InUse(k) : c.at \in Turnout => ReplySure(k, c)

\* The answers under way lead each lamp to the position of its turnout, unless a
\* request that was answered already has not set it yet.
Shown == {t \in Turnout : t <= 255}
Pends(t) ==
  scenario.respond /\ \E i \in 1..Len(toCentral) : Sets(toCentral[i], t) /\ toCentral[i].cmd.on
LampInv ==
  \A t \in Shown : \E b \in Value :
    /\ Final(LitBy(i2cTx, t), Len(i2cTx), lamp[t], b)
    /\ Pends(t) \/ Final(AnsweredBy(canRx, t), Len(canRx), b, position[t])

\* With answers of our own nobody stops the central.
NoStopInv ==
  scenario.respond =>
    /\ track = "go" /\ "stop" \notin request /\ "stop" \notin seen
    /\ \A i \in 1..Len(lnRx) : lnRx[i].kind # "stop"
    /\ \A i \in 1..Len(toCentral) : toCentral[i].cmd.kind # "stop"

StopIssued == \E b \in Bus : \E i \in 1..Len(issued[b]) : issued[b][i].kind = "stop"
Covered == "crossed" \notin passed /\ (scenario.respond => ~StopIssued)

\* What the keys are for, and the types of what the other proofs do not need.
KeyForm ==
  \A k \in Keyboard :
    LET h == keyboard[k].held
        a == keyboard[k].asking
    IN  /\ h # Nothing => h.on /\ h.at \div 16 = k /\ a \in {h, Nothing}
        /\ h = Nothing /\ a # Nothing => ~a.on /\ a.at \div 16 = k
LampType ==
  /\ i2cTx \in Seq(Message) /\ lamp \in [Shown -> Value] /\ position \in [Turnout -> Value]
  /\ last.at <= 255
LnOn == \A i \in 1..Len(lnRx) : lnRx[i].kind = "turnout" => lnRx[i].on
FormInv == KeyForm /\ LampType /\ LnOn

Follow == FrameInv /\ OffInv /\ KeyInv /\ ReplyInv /\ LampInv
LampsInv == Covered => NoStopInv /\ Follow
-----------------------------------------------------------------------------
\* Queues, and where they lead.
LEMMA QueueAppend ==
  ASSUME NEW S, NEW q \in Seq(S), NEW f \in S
  PROVE  /\ Append(q, f) \in Seq(S) /\ Len(q) \in Nat /\ Len(Append(q, f)) = Len(q) + 1
         /\ \A i \in 1..Len(q) : Append(q, f)[i] = q[i] /\ q[i] \in S
         /\ Append(q, f)[Len(q) + 1] = f
OBVIOUS

LEMMA QueueTail ==
  ASSUME NEW S, NEW q \in Seq(S), q # <<>>
  PROVE  /\ Tail(q) \in Seq(S) /\ Head(q) \in S
         /\ Len(q) \in Nat /\ Len(q) >= 1 /\ Len(Tail(q)) = Len(q) - 1 /\ Head(q) = q[1]
         /\ \A i \in 1..(Len(q) - 1) : Tail(q)[i] = q[i + 1] /\ Tail(q)[i] \in S
         /\ \A i \in 1..Len(q) : q[i] \in S
OBVIOUS

LEMMA FinalLast ==
  ASSUME NEW n \in Nat, NEW r, NEW b, NEW v, r[n + 1] # Unset
  PROVE  Final(r, n + 1, b, v) <=> v = r[n + 1]
<1>1. n + 1 \in 0..(n + 1) /\ n + 1 # 0 /\ ((n + 1) + 1)..(n + 1) = {}
  OBVIOUS
<1>2. ASSUME NEW i \in 0..(n + 1), \A j \in (i + 1)..(n + 1) : r[j] = Unset
      PROVE  i = n + 1
  <2>1. n + 1 \notin (i + 1)..(n + 1)
    BY <1>2
  <2> QED
    BY <2>1
<1> QED
  BY <1>1, <1>2 DEF Final

LEMMA FinalMore ==
  ASSUME NEW n \in Nat, NEW s, NEW r, \A i \in 1..n : r[i] = s[i], NEW b, NEW v
  PROVE  /\ r[n + 1] # Unset => (Final(r, n + 1, b, v) <=> v = r[n + 1])
         /\ r[n + 1] = Unset => (Final(r, n + 1, b, v) <=> Final(s, n, b, v))
<1>1. CASE r[n + 1] # Unset
  BY <1>1, FinalLast
<1>2. CASE r[n + 1] = Unset
  <2>1. ASSUME NEW i \in 0..n
        PROVE  /\ (\A j \in (i + 1)..(n + 1) : r[j] = Unset) <=> (\A j \in (i + 1)..n : s[j] = Unset)
               /\ i = 0 \/ r[i] = s[i]
    <3>1. (i + 1)..(n + 1) = (i + 1)..n \cup {n + 1} /\ (i + 1)..n \subseteq 1..n
      OBVIOUS
    <3>2. i = 0 \/ i \in 1..n
      OBVIOUS
    <3> QED
      BY <1>2, <3>1, <3>2
  <2>2. 0..(n + 1) = 0..n \cup {n + 1} /\ n + 1 # 0
    OBVIOUS
  <2> QED
    BY <1>2, <2>1, <2>2 DEF Final
<1> QED
  BY <1>1, <1>2

LEMMA FinalLess ==
  ASSUME NEW n \in Nat, n >= 1, NEW s, NEW r, \A i \in 1..(n - 1) : r[i] = s[i + 1], NEW b, NEW v,
         Final(s, n, b, v)
  PROVE  Final(r, n - 1, IF s[1] = Unset THEN b ELSE s[1], v)
<1> DEFINE c == IF s[1] = Unset THEN b ELSE s[1]
<1> SUFFICES ASSUME NEW i \in 0..(n - 1), i = 0 \/ r[i] # Unset,
                    \A j \in (i + 1)..(n - 1) : r[j] = Unset
             PROVE  v = IF i = 0 THEN c ELSE r[i]
  BY DEF Final
<1>1. \A j \in ((i + 1) + 1)..n : s[j] = Unset
  <2> SUFFICES ASSUME NEW j \in ((i + 1) + 1)..n PROVE s[j] = Unset
    OBVIOUS
  <2>1. j - 1 \in (i + 1)..(n - 1) /\ j - 1 \in 1..(n - 1) /\ (j - 1) + 1 = j
    OBVIOUS
  <2> QED
    BY <2>1
<1>2. i + 1 \in 0..n /\ i + 1 # 0 /\ (i = 0 \/ r[i] = s[i + 1])
  BY n >= 1
<1>3. CASE s[i + 1] # Unset
  <2>1. v = s[i + 1]
    BY <1>1, <1>2, <1>3 DEF Final
  <2>2. i = 0 => v = c
    BY <1>3, <2>1
  <2> QED
    BY <1>2, <2>1, <2>2
<1>4. CASE s[i + 1] = Unset
  <2>1. i = 0
    BY <1>2, <1>4
  <2>2. \A j \in (0 + 1)..n : s[j] = Unset
    <3>1. (0 + 1)..n = {1} \cup ((0 + 1) + 1)..n
      OBVIOUS
    <3> QED
      BY <1>1, <1>4, <2>1, <3>1
  <2>3. v = b
    BY <2>2 DEF Final
  <2> QED
    BY <1>4, <2>1, <2>3
<1> QED
  BY <1>3, <1>4

LEMMA FinalPart ==
  ASSUME NEW n \in Nat, NEW s, NEW r, \A i \in 1..n : r[i] = s[i], NEW b, NEW v
  PROVE  Final(r, n, b, v) <=> Final(s, n, b, v)
<1>1. ASSUME NEW i \in 0..n
      PROVE  /\ (\A j \in (i + 1)..n : r[j] = Unset) <=> (\A j \in (i + 1)..n : s[j] = Unset)
             /\ i = 0 \/ r[i] = s[i]
  <2>1. (i + 1)..n \subseteq 1..n /\ (i = 0 \/ i \in 1..n)
    OBVIOUS
  <2> QED
    BY <2>1
<1> QED
  BY <1>1 DEF Final

LEMMA FinalNone ==
  ASSUME NEW s, NEW b, NEW v
  PROVE  Final(s, 0, b, v) <=> v = b
BY DEF Final

\* What one element does.
LEMMA SetOne ==
  ASSUME NEW q \in Seq(Frames), NEW i \in 1..Len(q), NEW t
  PROVE  /\ Sets(q[i], t) => SetBy(q, t)[i] = q[i].cmd.value
         /\ ~Sets(q[i], t) <=> SetBy(q, t)[i] = Unset
         /\ q[i].cmd.value # Unset
<1>1. q[i].cmd.value \in Value
  <2>1. q[i] \in Frames
    OBVIOUS
  <2>2. q[i].cmd \in Command
    BY <2>1 DEF Frames
  <2> QED
    BY <2>2 DEF Command, Value
<1>2. q[i].cmd.value # Unset
  BY <1>1 DEF Value, Unset
<1>3. SetBy(q, t)[i] = IF Sets(q[i], t) THEN q[i].cmd.value ELSE Unset
  BY DEF SetBy
<1> QED
  BY <1>1, <1>2, <1>3

LEMMA AnswerOne ==
  ASSUME NEW q \in Seq(Frames), NEW i \in 1..Len(q), NEW t
  PROVE  /\ Answers(q[i], t) => AnsweredBy(q, t)[i] = q[i].cmd.value
         /\ ~Answers(q[i], t) <=> AnsweredBy(q, t)[i] = Unset
         /\ q[i].cmd.value \in Value
<1>1. q[i].cmd.value \in Value
  <2>1. q[i] \in Frames
    OBVIOUS
  <2>2. q[i].cmd \in Command
    BY <2>1 DEF Frames
  <2> QED
    BY <2>2 DEF Command, Value
<1>2. q[i].cmd.value # Unset
  BY <1>1 DEF Value, Unset
<1>3. AnsweredBy(q, t)[i] = IF Answers(q[i], t) THEN q[i].cmd.value ELSE Unset
  BY DEF AnsweredBy
<1> QED
  BY <1>1, <1>2, <1>3

LEMMA LightOne ==
  ASSUME NEW q \in Seq(Message), NEW i \in 1..Len(q), NEW t
  PROVE  /\ Lights(q[i], t) => LitBy(q, t)[i] = q[i].value
         /\ ~Lights(q[i], t) <=> LitBy(q, t)[i] = Unset
         /\ q[i].value \in Value
<1>1. q[i].value \in Value
  <2>1. q[i] \in Message
    OBVIOUS
  <2> QED
    BY <2>1 DEF Message
<1>2. q[i].value # Unset
  BY <1>1 DEF Value, Unset
<1>3. LitBy(q, t)[i] = IF Lights(q[i], t) THEN q[i].value ELSE Unset
  BY DEF LitBy
<1> QED
  BY <1>1, <1>2, <1>3

\* What is remembered.
LEMMA PriorAppend ==
  ASSUME NEW q \in Seq(Message), NEW m \in Message, NEW d
  PROVE  /\ \A n \in 1..(Len(q) + 1) : \A j \in 0..(n - 1) :
              /\ IsPrior(Append(q, m), j, n) <=> IsPrior(q, j, n)
              /\ Memory(Append(q, m), d, j) = Memory(q, d, j)
         /\ \A j \in 0..(Len(q) + 1) :
              IsPrior(Append(q, m), j, (Len(q) + 1) + 1) =>
                \/ m.on /\ j = Len(q) + 1 /\ j # 0
                   /\ Memory(Append(q, m), d, j) = [at |-> TurnoutAddr(m), value |-> m.value]
                \/ ~m.on /\ j \in 0..Len(q) /\ IsPrior(q, j, Len(q) + 1)
<1> DEFINE r == Append(q, m)
           e == Len(q)
<1>1. e \in Nat /\ Len(r) = e + 1 /\ r[e + 1] = m /\ \A i \in 1..e : r[i] = q[i]
  BY QueueAppend
<1> HIDE DEF r, e
<1>2. ASSUME NEW n \in 1..(e + 1), NEW j \in 0..(n - 1)
      PROVE  /\ IsPrior(r, j, n) <=> IsPrior(q, j, n)
             /\ Memory(r, d, j) = Memory(q, d, j)
  <2>1. (j + 1)..(n - 1) \subseteq 1..e /\ (j = 0 \/ j \in 1..e)
    BY <1>1
  <2> QED
    BY <1>1, <2>1 DEF IsPrior, Memory
<1>3. ASSUME NEW j \in 0..(e + 1), IsPrior(r, j, (e + 1) + 1)
      PROVE  \/ /\ m.on /\ j = e + 1 /\ j # 0
                /\ Memory(r, d, j) = [at |-> TurnoutAddr(m), value |-> m.value]
             \/ ~m.on /\ j \in 0..e /\ IsPrior(q, j, e + 1)
  <2>1. CASE j = e + 1
    <3>1. j # 0 /\ r[j] = m
      BY <1>1, <2>1
    <3> QED
      BY <1>3, <2>1, <3>1 DEF IsPrior, Memory
  <2>2. CASE j # e + 1
    <3>1. j \in 0..e /\ e + 1 \in (j + 1)..(((e + 1) + 1) - 1)
      BY <1>1, <2>2
    <3>2. ~m.on
      BY <1>1, <1>3, <3>1 DEF IsPrior
    <3>3. IsPrior(r, j, e + 1)
      <4>1. (j + 1)..((e + 1) - 1) \subseteq (j + 1)..(((e + 1) + 1) - 1)
        BY <1>1
      <4> QED
        BY <1>3, <4>1 DEF IsPrior
    <3>4. e + 1 \in 1..(e + 1) /\ j \in 0..((e + 1) - 1)
      BY <1>1, <3>1
    <3>5. IsPrior(q, j, e + 1)
      BY <1>2, <3>3, <3>4
    <3> QED
      BY <3>1, <3>2, <3>5
  <2> QED
    BY <2>1, <2>2
<1> QED
  BY <1>2, <1>3 DEF r, e

\* After the first message d is remembered: what a later one recalls is what it would
\* have recalled before.
Remembered(m, c) == IF m.on THEN [at |-> TurnoutAddr(m), value |-> m.value] ELSE c

LEMMA PriorTail ==
  ASSUME NEW q \in Seq(Message), q # <<>>, NEW c,
         NEW n \in 1..Len(q), NEW j \in 0..(n - 1), IsPrior(Tail(q), j, n)
  PROVE  \E i \in 0..n :
           /\ IsPrior(q, i, n + 1)
           /\ Memory(q, c, i) = Memory(Tail(q), Remembered(Head(q), c), j)
           /\ \/ j # 0 /\ i = j + 1
              \/ j = 0 /\ ~Head(q).on /\ i = 0
              \/ j = 0 /\ Head(q).on /\ i = 1
<1> DEFINE r == Tail(q)
           d == Remembered(Head(q), c)
<1>0. d = IF Head(q).on THEN [at |-> TurnoutAddr(Head(q)), value |-> Head(q).value] ELSE c
  BY DEF Remembered
<1>1. /\ Len(q) \in Nat /\ Len(q) >= 1 /\ Head(q) = q[1]
      /\ \A i \in 1..(Len(q) - 1) : r[i] = q[i + 1]
  BY QueueTail
<1> HIDE DEF r, d
<1>2. \A l \in (j + 1)..(n - 1) : ~r[l].on
  BY DEF IsPrior, r
<1>3. \A l \in ((j + 1) + 1)..((n + 1) - 1) : ~q[l].on
  <2> SUFFICES ASSUME NEW l \in ((j + 1) + 1)..((n + 1) - 1) PROVE ~q[l].on
    OBVIOUS
  <2>1. l - 1 \in (j + 1)..(n - 1) /\ l - 1 \in 1..(Len(q) - 1) /\ (l - 1) + 1 = l
    BY <1>1
  <2> QED
    BY <1>1, <1>2, <2>1
<1>4. CASE j # 0
  <2>1. j \in 1..(Len(q) - 1) /\ j + 1 \in 0..n /\ j + 1 # 0
    BY <1>1, <1>4
  <2>2. q[j + 1] = r[j] /\ r[j].on
    BY <1>1, <1>4, <2>1 DEF IsPrior, r
  <2>3. IsPrior(q, j + 1, n + 1)
    BY <1>3, <2>2 DEF IsPrior
  <2>4. Memory(q, c, j + 1) = Memory(r, d, j)
    BY <1>4, <2>1, <2>2 DEF Memory
  <2> QED
    BY <1>4, <2>1, <2>3, <2>4 DEF r, d
<1>5. CASE j = 0 /\ Head(q).on
  <2>1. IsPrior(q, 1, n + 1)
    BY <1>1, <1>3, <1>5 DEF IsPrior
  <2>2. Memory(q, c, 1) = Memory(r, d, 0)
    BY <1>0, <1>1, <1>5 DEF Memory
  <2>3. 1 \in 0..n
    OBVIOUS
  <2> QED
    BY <1>5, <2>1, <2>2, <2>3 DEF r, d
<1>6. CASE j = 0 /\ ~Head(q).on
  <2>1. (0 + 1)..((n + 1) - 1) = {1} \cup ((0 + 1) + 1)..((n + 1) - 1)
    OBVIOUS
  <2>2. IsPrior(q, 0, n + 1)
    BY <1>1, <1>3, <1>6, <2>1 DEF IsPrior
  <2>3. Memory(q, c, 0) = Memory(r, d, 0)
    BY <1>0, <1>6 DEF Memory
  <2>4. 0 \in 0..n
    OBVIOUS
  <2> QED
    BY <1>6, <2>2, <2>3, <2>4 DEF r, d
<1> QED
  BY <1>4, <1>5, <1>6
\* A request more, and the first one handled or not.
LEMMA LeadsAppend ==
  ASSUME toCentral \in Seq(Frames), NEW g \in Frames, toCentral' = Append(toCentral, g),
         UNCHANGED <<position, scenario>>, NEW t, NEW v
  PROVE  /\ \A n \in 0..Len(toCentral) : Leads(n, t, v) => Leads(n, t, v)'
         /\ Leads(Len(toCentral), t, v) /\ (Sets(g, t) => g.cmd.value = v)
              => Leads(Len(toCentral), t, v)'
         /\ scenario.respond /\ Sets(g, t) /\ g.cmd.value = v => Leads(Len(toCentral), t, v)'
<1> DEFINE q == toCentral
           e == Len(q)
           r == Append(q, g)
           s == SetBy(q, t)
           z == SetBy(r, t)
<1>1. /\ e \in Nat /\ Len(r) = e + 1 /\ r[e + 1] = g /\ r \in Seq(Frames)
      /\ \A i \in 1..e : r[i] = q[i]
  BY QueueAppend
<1>2. \A i \in 1..e : z[i] = s[i]
  BY <1>1 DEF SetBy
<1>3. /\ Sets(g, t) => z[e + 1] = g.cmd.value /\ z[e + 1] # Unset
      /\ ~Sets(g, t) => z[e + 1] = Unset
  <2>1. e + 1 \in 1..Len(r) /\ r \in Seq(Frames)
    BY <1>1
  <2> HIDE DEF e, r
  <2>2. /\ Sets(r[e + 1], t) => z[e + 1] = r[e + 1].cmd.value
        /\ ~Sets(r[e + 1], t) <=> z[e + 1] = Unset
    BY <2>1, SetOne
  <2>3. r[e + 1] = g /\ g.cmd.value # Unset
    BY <1>1, <2>1, SetOne
  <2> QED
    BY <2>2, <2>3
<1>4. /\ SetBy(toCentral, t)' = z /\ Len(toCentral)' = e + 1
      /\ position' = position /\ scenario' = scenario
  BY <1>1
<1> HIDE DEF q, e, r, s, z
<1>5. ASSUME NEW n \in 0..e, Leads(n, t, v)
      PROVE  Leads(n, t, v)'
  <2>1. n \in Nat /\ \A i \in 1..n : z[i] = s[i]
    BY <1>1, <1>2
  <2>2. Final(z, n, position[t], v) <=> Final(s, n, position[t], v)
    BY <2>1, FinalPart, Zenon
  <2> QED
    BY <1>4, <1>5, <2>1, <2>2 DEF Leads, s, q
<1>6. ASSUME Leads(e, t, v), Sets(g, t) => g.cmd.value = v
      PROVE  Leads(Len(toCentral), t, v)'
  <2>1. CASE scenario.respond
    <3>1. Final(z, e + 1, position[t], v)
      <4>1. Final(s, e, position[t], v)
        BY <1>6, <2>1 DEF Leads, s, q
      <4> QED
        BY <1>1, <1>2, <1>3, <1>6, <4>1, FinalMore
    <3> QED
      BY <1>4, <2>1, <3>1 DEF Leads
  <2>2. CASE ~scenario.respond
    <3>1. position[t] = v /\ \A i \in 1..e : s[i] \in {v, Unset}
      BY <1>6, <2>2 DEF Leads, s, q
    <3>2. \A i \in 1..(e + 1) : z[i] \in {v, Unset}
      <4>1. 1..(e + 1) = 1..e \cup {e + 1}
        BY <1>1
      <4> QED
        BY <1>2, <1>3, <1>6, <3>1, <4>1
    <3> QED
      BY <1>4, <2>2, <3>1, <3>2 DEF Leads
  <2> QED
    BY <2>1, <2>2
<1>7. ASSUME scenario.respond, Sets(g, t), g.cmd.value = v
      PROVE  Leads(Len(toCentral), t, v)'
  <2>1. z[e + 1] # Unset /\ v = z[e + 1] /\ e \in Nat
    BY <1>1, <1>3, <1>7
  <2>2. Final(z, e + 1, position[t], v)
    <3>1. Final(z, e + 1, position[t], v) <=> v = z[e + 1]
      BY <2>1, FinalLast
    <3> QED
      BY <2>1, <3>1
  <2> QED
    BY <1>4, <1>7, <2>2 DEF Leads
<1> QED
  BY <1>5, <1>6, <1>7 DEF e, q

LEMMA LeadsTail ==
  ASSUME toCentral \in Seq(Frames), toCentral # <<>>, toCentral' = Tail(toCentral),
         scenario' = scenario, NEW t, NEW v, NEW n \in 1..Len(toCentral), Leads(n, t, v),
         position'[t] \in {position[t], Head(toCentral).cmd.value},
         ~Sets(Head(toCentral), t) => position'[t] = position[t],
         scenario.respond /\ Sets(Head(toCentral), t) => position'[t] = Head(toCentral).cmd.value
  PROVE  Leads(n - 1, t, v)'
<1> DEFINE q == toCentral
           r == Tail(q)
           s == SetBy(q, t)
           z == SetBy(r, t)
<1>1. /\ Len(q) \in Nat /\ Len(q) >= 1 /\ Len(r) = Len(q) - 1 /\ Head(q) = q[1]
      /\ \A i \in 1..(Len(q) - 1) : r[i] = q[i + 1]
  BY QueueTail
<1>2. \A i \in 1..(n - 1) : z[i] = s[i + 1] /\ i + 1 \in 1..n
  <2> SUFFICES ASSUME NEW i \in 1..(n - 1) PROVE z[i] = s[i + 1] /\ i + 1 \in 1..n
    OBVIOUS
  <2>1. i \in 1..Len(r) /\ i + 1 \in 1..Len(q) /\ i \in 1..(Len(q) - 1) /\ i + 1 \in 1..n
    BY <1>1
  <2>2. r[i] = q[i + 1]
    BY <1>1, <2>1
  <2> QED
    BY <2>1, <2>2 DEF SetBy
<1>3. /\ Sets(q[1], t) => s[1] = q[1].cmd.value /\ s[1] # Unset
      /\ ~Sets(q[1], t) => s[1] = Unset
  <2>1. 1 \in 1..Len(q)
    BY <1>1
  <2> QED
    BY <2>1, SetOne
<1>4. SetBy(toCentral, t)' = z
  OBVIOUS
<1>5. 1 \in 1..n /\ n \in Nat /\ n >= 1
  BY <1>1
<1> DEFINE b == IF s[1] = Unset THEN position[t] ELSE s[1]
<1>6. CASE scenario.respond
  <2>1. b = position'[t]
    BY <1>1, <1>3, <1>6
  <2>2. Final(s, n, position[t], v)
    BY <1>6 DEF Leads
  <2> HIDE DEF s, z
  <2>3. Final(z, n - 1, b, v)
    BY <1>2, <1>5, <2>2, FinalLess
  <2> HIDE DEF b
  <2> QED
    BY <1>4, <1>6, <2>1, <2>3 DEF Leads
<1>7. CASE ~scenario.respond
  <2>1. position[t] = v /\ \A i \in 1..n : s[i] \in {v, Unset}
    BY <1>7 DEF Leads
  <2> HIDE DEF s, z
  <2>2. position'[t] = v
    BY <1>1, <1>3, <1>5, <2>1
  <2>3. \A i \in 1..(n - 1) : z[i] \in {v, Unset}
    BY <1>2, <2>1
  <2> QED
    BY <1>4, <1>7, <2>2, <2>3 DEF Leads
<1> QED
  BY <1>6, <1>7

LEMMA LeadsNone ==
  ASSUME NEW t, NEW v
  PROVE  Leads(0, t, v) <=> position[t] = v
<1>1. Final(SetBy(toCentral, t), 0, position[t], v) <=> v = position[t]
  BY FinalNone
<1>2. 1..0 = {}
  OBVIOUS
<1> QED
  BY <1>1, <1>2 DEF Leads

\* The power-offs on their way to the central.
LEMMA FrameMore ==
  ASSUME toCentral \in Seq(Frames), FrameInv, NEW g \in Frames, toCentral' = Append(toCentral, g),
         UNCHANGED <<position, scenario>>,
         \A t \in Turnout : Sets(g, t) /\ ~g.cmd.on => Leads(Len(toCentral), t, g.cmd.value)
  PROVE  FrameInv'
<1> SUFFICES ASSUME NEW t \in Turnout, NEW i \in 1..Len(toCentral'), NEW v,
                    Sets(toCentral'[i], t), ~toCentral'[i].cmd.on, v = toCentral'[i].cmd.value
             PROVE  Leads(i - 1, t, v)'
  BY Zenon DEF FrameInv
<1>1. /\ Len(toCentral) \in Nat /\ Len(toCentral') = Len(toCentral) + 1
      /\ toCentral'[Len(toCentral) + 1] = g
      /\ \A l \in 1..Len(toCentral) : toCentral'[l] = toCentral[l]
  BY QueueAppend
<1>2. i - 1 \in 0..Len(toCentral) /\ Leads(i - 1, t, v)
  <2>1. CASE i \in 1..Len(toCentral)
    <3>1. toCentral'[i] = toCentral[i]
      BY <1>1, <2>1
    <3> QED
      BY <1>1, <2>1, <3>1 DEF FrameInv
  <2>2. CASE i = Len(toCentral) + 1
    <3>1. toCentral'[i] = g /\ i - 1 = Len(toCentral)
      BY <1>1, <2>2
    <3> QED
      BY <1>1, <3>1
  <2> QED
    BY <1>1, <2>1, <2>2
<1> QED
  BY <1>2, LeadsAppend
\* A request of another bus leaves the keys alone, if it is for a turnout that no key
\* and no power-off is for.
Unused(t) ==
  /\ \A n \in 1..Len(i2cRx) : \A j \in 0..(n - 1) :
       Recalls(i2cRx, last, n, j) => Memory(i2cRx, last, j).at # t
  /\ \A k \in Keyboard : \A c \in InUse(k) : c.at # t

LEMMA SentFrames ==
  ASSUME toCentral \in Seq(Frames), FrameInv, OffInv, KeyInv, ReplyInv,
         NEW g \in Frames, toCentral' = Append(toCentral, g),
         UNCHANGED <<position, scenario, i2cRx, last, keyboard>>,
         \A t : NoneOfLn(t) => NoneOfLn(t)',
         \A t, v : Replied(t, v)' => Replied(t, v),
         \A t \in Turnout : Sets(g, t) => g.cmd.on /\ Unused(t)
  PROVE  FrameInv' /\ OffInv' /\ KeyInv' /\ ReplyInv'
<1>1. FrameInv'
  BY FrameMore
<1>2. \A k \in Keyboard : InUse(k)' = InUse(k)
  BY DEF InUse
<1>3. ASSUME NEW t \in Turnout, NEW v, ~Sets(g, t), Leads(Len(toCentral), t, v)
      PROVE  Leads(Len(toCentral), t, v)'
  BY <1>3, LeadsAppend
<1>4. OffInv'
  <2> SUFFICES ASSUME NEW n \in 1..Len(i2cRx), NEW j \in 0..(n - 1),
                      NEW t \in Turnout, NEW v \in Value,
                      Recalls(i2cRx, last, n, j), Memory(i2cRx, last, j) = [at |-> t, value |-> v]
               PROVE  OffSure(n, j, t, v)'
    BY Zenon DEF OffInv
  <2>1. OffSure(n, j, t, v)
    BY DEF OffInv
  <2>2. ~Sets(g, t)
    BY DEF Unused
  <2>3. NoneOfLn(t)'
    BY <2>1 DEF OffSure
  <2> QED
    BY <1>3, <2>1, <2>2, <2>3 DEF OffSure
<1>5. KeyInv'
  <2> SUFFICES ASSUME NEW k \in Keyboard, NEW c \in InUse(k)
               PROVE  NoneOfLn(c.at)' /\ KeyRecalls(k, c)'
    BY <1>2 DEF KeyInv
  <2>1. NoneOfLn(c.at) /\ KeyRecalls(k, c)
    BY DEF KeyInv
  <2>2. c.at \in Turnout => ~Sets(g, c.at)
    BY DEF Unused
  <2> QED
    BY <1>3, <2>1, <2>2 DEF KeyRecalls
<1>6. ReplyInv'
  <2> SUFFICES ASSUME ~scenario.respond, NEW k \in Keyboard, NEW c \in InUse(k), c.at \in Turnout
               PROVE  ReplySure(k, c)'
    BY <1>2 DEF ReplyInv
  <2>1. ReplySure(k, c)
    BY DEF ReplyInv
  <2>2. ~Sets(g, c.at)
    BY DEF Unused
  <2>3. \A i \in 1..Len(toCentral') :
          Sets(toCentral'[i], c.at) => i \in 1..Len(toCentral) /\ toCentral'[i] = toCentral[i]
    <3>1. /\ Len(toCentral) \in Nat /\ Len(toCentral') = Len(toCentral) + 1
          /\ toCentral'[Len(toCentral) + 1] = g
          /\ \A l \in 1..Len(toCentral) : toCentral'[l] = toCentral[l]
      BY QueueAppend
    <3> QED
      BY <2>2, <3>1
  <2> QED
    BY <2>1, <2>3 DEF ReplySure
<1> QED
  BY <1>1, <1>4, <1>5, <1>6

\* What leaves the requests alone.
LEMMA KeptFrames ==
  ASSUME FrameInv, OffInv, KeyInv, ReplyInv,
         UNCHANGED <<toCentral, position, scenario, i2cRx, last, keyboard>>,
         \A n \in 1..Len(i2cRx) : \A j \in 0..(n - 1) : \A t \in Turnout :
           Recalls(i2cRx, last, n, j) /\ Memory(i2cRx, last, j).at = t /\ NoneOfLn(t) => NoneOfLn(t)',
         \A k \in Keyboard : \A c \in InUse(k) : NoneOfLn(c.at) => NoneOfLn(c.at)',
         \A t, v : Replied(t, v)' => Replied(t, v)
  PROVE  FrameInv' /\ OffInv' /\ KeyInv' /\ ReplyInv'
<1>1. \A n, t, v : Leads(n, t, v)' <=> Leads(n, t, v)
  BY DEF Leads
<1>2. FrameInv'
  BY <1>1 DEF FrameInv
<1>3. \A k \in Keyboard : InUse(k)' = InUse(k)
  BY DEF InUse
<1>4. OffInv'
  <2> SUFFICES ASSUME NEW n \in 1..Len(i2cRx), NEW j \in 0..(n - 1),
                      NEW t \in Turnout, NEW v \in Value,
                      Recalls(i2cRx, last, n, j), Memory(i2cRx, last, j) = [at |-> t, value |-> v]
               PROVE  OffSure(n, j, t, v)'
    BY Zenon DEF OffInv
  <2>1. OffSure(n, j, t, v)
    BY DEF OffInv
  <2>2. NoneOfLn(t)'
    BY <2>1 DEF OffSure
  <2> QED
    BY <1>1, <2>1, <2>2 DEF OffSure
<1>5. KeyInv'
  <2> SUFFICES ASSUME NEW k \in Keyboard, NEW c \in InUse(k)
               PROVE  NoneOfLn(c.at)' /\ KeyRecalls(k, c)'
    BY <1>3 DEF KeyInv
  <2>1. NoneOfLn(c.at) /\ KeyRecalls(k, c)
    BY DEF KeyInv
  <2> QED
    BY <1>1, <2>1 DEF KeyRecalls
<1>6. ReplyInv'
  <2> SUFFICES ASSUME ~scenario.respond, NEW k \in Keyboard, NEW c \in InUse(k), c.at \in Turnout
               PROVE  ReplySure(k, c)'
    BY <1>3 DEF ReplyInv
  <2>1. ReplySure(k, c)
    BY DEF ReplyInv
  <2> QED
    BY <2>1 DEF ReplySure
<1> QED
  BY <1>2, <1>4, <1>5, <1>6

\* Messages to the keyboards, and answers of the central.
LEMMA LitAppend ==
  ASSUME NEW q \in Seq(Message), NEW m \in Message, NEW t, NEW b, NEW v
  PROVE  /\ Lights(m, t) => Final(LitBy(Append(q, m), t), Len(Append(q, m)), b, m.value)
         /\ ~Lights(m, t) /\ Final(LitBy(q, t), Len(q), b, v)
              => Final(LitBy(Append(q, m), t), Len(Append(q, m)), b, v)
<1> DEFINE r == Append(q, m)
           e == Len(q)
           s == LitBy(q, t)
           z == LitBy(r, t)
<1>1. /\ e \in Nat /\ Len(r) = e + 1 /\ r[e + 1] = m /\ r \in Seq(Message)
      /\ \A i \in 1..e : r[i] = q[i]
  BY QueueAppend
<1>2. \A i \in 1..e : z[i] = s[i]
  BY <1>1 DEF LitBy
<1> HIDE DEF r, e
<1>3. e + 1 \in 1..Len(r)
  BY <1>1
<1>4. /\ Lights(r[e + 1], t) => z[e + 1] = r[e + 1].value
      /\ ~Lights(r[e + 1], t) <=> z[e + 1] = Unset
  BY <1>1, <1>3, LightOne
<1> HIDE DEF s, z
<1>5. ASSUME Lights(m, t) PROVE Final(z, e + 1, b, m.value)
  <2>1. z[e + 1] # Unset /\ m.value = z[e + 1]
    BY <1>1, <1>4, <1>5
  <2>2. Final(z, e + 1, b, m.value) <=> m.value = z[e + 1]
    BY <1>1, <2>1, FinalLast
  <2> QED
    BY <2>1, <2>2
<1>6. ASSUME ~Lights(m, t), Final(s, e, b, v) PROVE Final(z, e + 1, b, v)
  <2>1. z[e + 1] = Unset
    BY <1>1, <1>4, <1>6
  <2> QED
    BY <1>1, <1>2, <1>6, <2>1, FinalMore
<1> QED
  BY <1>1, <1>5, <1>6 DEF s, z, r, e

LEMMA LitTail ==
  ASSUME NEW q \in Seq(Message), q # <<>>, NEW t, NEW b, NEW v, Final(LitBy(q, t), Len(q), b, v)
  PROVE  Final(LitBy(Tail(q), t), Len(Tail(q)), IF Lights(Head(q), t) THEN Head(q).value ELSE b, v)
<1> DEFINE r == Tail(q)
           n == Len(q)
           s == LitBy(q, t)
           z == LitBy(r, t)
           c == IF s[1] = Unset THEN b ELSE s[1]
<1>1. /\ n \in Nat /\ n >= 1 /\ Len(r) = n - 1 /\ Head(q) = q[1]
      /\ \A i \in 1..(n - 1) : r[i] = q[i + 1]
  BY QueueTail
<1>2. \A i \in 1..(n - 1) : z[i] = s[i + 1]
  <2> SUFFICES ASSUME NEW i \in 1..(n - 1) PROVE z[i] = s[i + 1]
    OBVIOUS
  <2>1. i \in 1..Len(r) /\ i + 1 \in 1..Len(q) /\ r[i] = q[i + 1]
    BY <1>1
  <2> QED
    BY <2>1 DEF LitBy
<1>3. 1 \in 1..Len(q)
  BY <1>1
<1>4. c = IF Lights(Head(q), t) THEN Head(q).value ELSE b
  <2>1. /\ Lights(q[1], t) => s[1] = q[1].value
        /\ ~Lights(q[1], t) <=> s[1] = Unset
    BY <1>3, LightOne
  <2> QED
    BY <1>1, <2>1
<1> HIDE DEF s, z
<1>5. Final(s, n, b, v)
  BY DEF s
<1>6. Final(z, n - 1, c, v)
  BY <1>1, <1>2, <1>5, FinalLess
<1> HIDE DEF c
<1> QED
  BY <1>1, <1>4, <1>6 DEF z, r

LEMMA AnsweredAppend ==
  ASSUME NEW q \in Seq(Frames), NEW m \in Frames, NEW t, NEW b, NEW v
  PROVE  /\ Answers(m, t) => Final(AnsweredBy(Append(q, m), t), Len(Append(q, m)), b, m.cmd.value)
         /\ ~Answers(m, t) /\ Final(AnsweredBy(q, t), Len(q), b, v)
              => Final(AnsweredBy(Append(q, m), t), Len(Append(q, m)), b, v)
<1> DEFINE r == Append(q, m)
           e == Len(q)
           s == AnsweredBy(q, t)
           z == AnsweredBy(r, t)
<1>1. /\ e \in Nat /\ Len(r) = e + 1 /\ r[e + 1] = m /\ r \in Seq(Frames)
      /\ \A i \in 1..e : r[i] = q[i]
  BY QueueAppend
<1>2. \A i \in 1..e : z[i] = s[i]
  BY <1>1 DEF AnsweredBy
<1> HIDE DEF r, e
<1>3. e + 1 \in 1..Len(r)
  BY <1>1
<1>4. /\ Answers(r[e + 1], t) => z[e + 1] = r[e + 1].cmd.value
      /\ ~Answers(r[e + 1], t) <=> z[e + 1] = Unset
  BY <1>1, <1>3, AnswerOne
<1> HIDE DEF s, z
<1>5. ASSUME Answers(m, t) PROVE Final(z, e + 1, b, m.cmd.value)
  <2>1. z[e + 1] # Unset /\ m.cmd.value = z[e + 1]
    BY <1>1, <1>4, <1>5
  <2>2. Final(z, e + 1, b, m.cmd.value) <=> m.cmd.value = z[e + 1]
    BY <1>1, <2>1, FinalLast
  <2> QED
    BY <2>1, <2>2
<1>6. ASSUME ~Answers(m, t), Final(s, e, b, v) PROVE Final(z, e + 1, b, v)
  <2>1. z[e + 1] = Unset
    BY <1>1, <1>4, <1>6
  <2> QED
    BY <1>1, <1>2, <1>6, <2>1, FinalMore
<1> QED
  BY <1>1, <1>5, <1>6 DEF s, z, r, e

LEMMA AnsweredTail ==
  ASSUME NEW q \in Seq(Frames), q # <<>>, NEW t, NEW b, NEW v, Final(AnsweredBy(q, t), Len(q), b, v)
  PROVE  Final(AnsweredBy(Tail(q), t), Len(Tail(q)), IF Answers(Head(q), t) THEN Head(q).cmd.value ELSE b, v)
<1> DEFINE r == Tail(q)
           n == Len(q)
           s == AnsweredBy(q, t)
           z == AnsweredBy(r, t)
           c == IF s[1] = Unset THEN b ELSE s[1]
<1>1. /\ n \in Nat /\ n >= 1 /\ Len(r) = n - 1 /\ Head(q) = q[1]
      /\ \A i \in 1..(n - 1) : r[i] = q[i + 1]
  BY QueueTail
<1>2. \A i \in 1..(n - 1) : z[i] = s[i + 1]
  <2> SUFFICES ASSUME NEW i \in 1..(n - 1) PROVE z[i] = s[i + 1]
    OBVIOUS
  <2>1. i \in 1..Len(r) /\ i + 1 \in 1..Len(q) /\ r[i] = q[i + 1]
    BY <1>1
  <2> QED
    BY <2>1 DEF AnsweredBy
<1>3. 1 \in 1..Len(q)
  BY <1>1
<1>4. c = IF Answers(Head(q), t) THEN Head(q).cmd.value ELSE b
  <2>1. /\ Answers(q[1], t) => s[1] = q[1].cmd.value
        /\ ~Answers(q[1], t) <=> s[1] = Unset
    BY <1>3, AnswerOne
  <2> QED
    BY <1>1, <2>1
<1> HIDE DEF s, z
<1>5. Final(s, n, b, v)
  BY DEF s
<1>6. Final(z, n - 1, c, v)
  BY <1>1, <1>2, <1>5, FinalLess
<1> HIDE DEF c
<1> QED
  BY <1>1, <1>4, <1>6 DEF z, r

\* A message to or from a keyboard, by what it names.
LEMMA MessageMade ==
  ASSUME NEW a \in Nat, NEW v \in Value, NEW b \in BOOLEAN
  PROVE  /\ makeMsg(a, v, b) \in Message /\ makeMsg(a, v, b).on = b
         /\ b => makeMsg(a, v, b).value = v
         /\ b /\ a <= 255 => TurnoutAddr(makeMsg(a, v, b)) = a
<1> DEFINE c == Switch(a, v, b)
<1>1. c \in Command /\ c.at = a /\ c.value = v /\ c.on = b
  BY DEF Switch, Command, Value
<1>2. OfKeyboard(c) = makeMsg(a, v, b)
  BY <1>1 DEF OfKeyboard
<1> HIDE DEF c
<1>3. makeMsg(a, v, b) \in Message
  BY <1>1, <1>2, MessageType
<1>4. makeMsg(a, v, b).on = b /\ (b => makeMsg(a, v, b).value = v)
  BY DEF makeMsg
<1>5. ASSUME b, a <= 255 PROVE TurnoutAddr(makeMsg(a, v, b)) = a
  <2>1. a \in 0..255 /\ b = TRUE
    BY <1>5
  <2> QED
    BY <2>1, KeyAddress
<1> QED
  BY <1>3, <1>4, <1>5

LEMMA MessageAddress ==
  ASSUME NEW m \in Message
  PROVE  /\ TurnoutAddr(m) \in 0..255 /\ TurnoutAddr(m) \in Nat
         /\ m.value \in Value /\ m.on \in BOOLEAN
<1>1. /\ m.keyboard \in 0..15 /\ m.decoder \in 0..3 /\ m.output \in 0..3
      /\ m.value \in Value /\ m.on \in BOOLEAN
  BY DEF Message
<1> QED
  BY <1>1 DEF TurnoutAddr

\* What the forwarder makes of a message.
LEMMA FrameMade ==
  ASSUME NEW m \in Message, last \in [at : Nat, value : Value]
  PROVE  /\ MakeRR32CanMsg(m).cmd.on = m.on
         /\ m.on => /\ MakeRR32CanMsg(m).cmd.value = m.value
                    /\ MakeRR32CanMsg(m).cmd.at = TurnoutAddr(m)
                    /\ Rail # "none" => Sets(MakeRR32CanMsg(m), TurnoutAddr(m))
         /\ ~m.on => \A t : Sets(MakeRR32CanMsg(m), t) =>
              /\ t = last.at /\ MakeRR32CanMsg(m).cmd.value = last.value
              /\ sameDecoder(TurnoutAddr(m), last.at)
<1> DEFINE f == MakeRR32CanMsg(m)
<1>1. CASE m.on
  <2>1. f = Frame(Switch(TurnoutAddr(m), m.value, TRUE), Rail, FALSE, "i2c")
    BY <1>1 DEF MakeRR32CanMsg
  <2>2. /\ f.cmd.on = TRUE /\ f.cmd.value = m.value /\ f.cmd.at = TurnoutAddr(m)
        /\ f.cmd.kind = "turnout" /\ f.rail = Rail
    BY <2>1 DEF Frame, Switch
  <2>3. isMatchingTurnoutRailProtocol(Rail)
    BY DEF isMatchingTurnoutRailProtocol
  <2>4. m.on = TRUE
    BY <1>1 DEF Message
  <2> HIDE DEF f
  <2>5. Rail # "none" => Sets(f, TurnoutAddr(m))
    BY <2>2, <2>3 DEF Sets
  <2> QED
    BY <1>1, <2>2, <2>4, <2>5 DEF f
<1>2. CASE ~m.on
  <2>0. m.on = FALSE
    BY <1>2 DEF Message
  <2>1. CASE sameDecoder(TurnoutAddr(m), last.at)
    <3>1. f = Frame(Switch(last.at, last.value, FALSE), Rail, FALSE, "i2c")
      BY <1>2, <2>1 DEF MakeRR32CanMsg
    <3>2. f.cmd.on = FALSE /\ f.cmd.value = last.value /\ f.cmd.at = last.at
      BY <3>1 DEF Frame, Switch
    <3> HIDE DEF f
    <3>3. \A t : Sets(f, t) => t = last.at
      BY <3>2 DEF Sets
    <3> QED
      BY <1>2, <2>0, <2>1, <3>2, <3>3 DEF f
  <2>2. CASE ~sameDecoder(TurnoutAddr(m), last.at)
    <3>1. f = Frame(Switch(0, "red", FALSE), "none", FALSE, "i2c")
      BY <1>2, <2>2 DEF MakeRR32CanMsg
    <3>2. f.cmd.on = FALSE /\ f.rail = "none"
      BY <3>1 DEF Frame, Switch
    <3> HIDE DEF f
    <3>3. \A t : ~Sets(f, t)
      BY <3>2 DEF Sets
    <3> QED
      BY <1>2, <2>0, <3>2, <3>3 DEF f
  <2> QED
    BY <2>1, <2>2
<1> QED
  BY <1>1, <1>2

LEMMA I2cEffect ==
  ASSUME TypeInv, processI2CMessages
  PROVE  /\ QueueType /\ last \in [at : Nat, value : Value] /\ i2cRx # <<>>
         /\ i2cRx' = Tail(i2cRx) /\ Head(i2cRx) \in Message
         /\ MakeRR32CanMsg(Head(i2cRx)) \in Frames
         /\ toCentral' = Append(toCentral, MakeRR32CanMsg(Head(i2cRx)))
         /\ last' = IF Head(i2cRx).on
                    THEN [at |-> TurnoutAddr(Head(i2cRx)), value |-> Head(i2cRx).value] ELSE last
         /\ i2cTx' = i2cTx \o ownResponse(Head(i2cRx))
         /\ passed \subseteq passed'
         /\ UNCHANGED <<position, scenario, keyboard, lnRx, canRx, lamp, issued, track, request, seen>>
<1>1. QueueType /\ last \in [at : Nat, value : Value]
  BY DEF TypeInv
<1>2. i2cRx # <<>> /\ i2cRx' = Tail(i2cRx)
  BY DEF processI2CMessages
<1>3. Head(i2cRx) \in Message
  BY <1>1, <1>2 DEF QueueType
<1>4. MakeRR32CanMsg(Head(i2cRx)) \in Frames
  BY <1>1, <1>3, CanMsgType
<1>5. passed \subseteq passed'
  BY DEF processI2CMessages, AsyncSend
<1> QED
  BY <1>1, <1>2, <1>3, <1>4, <1>5 DEF processI2CMessages, SendPacket, lineVars, userVars

\* A power-off that is handled now.
LEMMA OffFirst ==
  ASSUME QueueType, OffInv, last \in [at : Nat, value : Value], i2cRx # <<>>,
         ~Head(i2cRx).on, sameDecoder(TurnoutAddr(Head(i2cRx)), last.at), last.at \in Turnout
  PROVE  Leads(Len(toCentral), last.at, last.value)
<1>1. 1 \in 1..Len(i2cRx) /\ i2cRx[1] = Head(i2cRx) /\ 0 \in 0..(1 - 1)
  BY QueueTail DEF QueueType
<1>2. IsPrior(i2cRx, 0, 1) /\ Memory(i2cRx, last, 0) = last
  BY DEF IsPrior, Memory
<1>3. Recalls(i2cRx, last, 1, 0)
  BY <1>1, <1>2 DEF Recalls
<1>4. last = [at |-> last.at, value |-> last.value] /\ last.value \in Value
  OBVIOUS
<1>5. OffSure(1, 0, last.at, last.value)
  BY <1>1, <1>2, <1>3, <1>4 DEF OffInv
<1> QED
  BY <1>5 DEF OffSure

LEMMA PriorTaken ==
  ASSUME i2cRx \in Seq(Message), i2cRx # <<>>,
         last' = IF Head(i2cRx).on
                 THEN [at |-> TurnoutAddr(Head(i2cRx)), value |-> Head(i2cRx).value] ELSE last
  PROVE  \A n \in 1..Len(i2cRx) : \A j \in 0..(n - 1) : IsPrior(Tail(i2cRx), j, n) =>
           \E i \in 0..n :
             /\ IsPrior(i2cRx, i, n + 1) /\ Memory(i2cRx, last, i) = Memory(Tail(i2cRx), last', j)
             /\ \/ j # 0 /\ i = j + 1
                \/ j = 0 /\ ~Head(i2cRx).on /\ i = 0
                \/ j = 0 /\ Head(i2cRx).on /\ i = 1
<1>1. last' = Remembered(Head(i2cRx), last)
  BY DEF Remembered
<1>2. ASSUME NEW n \in 1..Len(i2cRx), NEW j \in 0..(n - 1), IsPrior(Tail(i2cRx), j, n)
      PROVE  \E i \in 0..n :
               /\ IsPrior(i2cRx, i, n + 1)
               /\ Memory(i2cRx, last, i) = Memory(Tail(i2cRx), Remembered(Head(i2cRx), last), j)
               /\ \/ j # 0 /\ i = j + 1
                  \/ j = 0 /\ ~Head(i2cRx).on /\ i = 0
                  \/ j = 0 /\ Head(i2cRx).on /\ i = 1
  BY <1>2, PriorTail
<1> QED
  BY <1>1, <1>2

\* The frame, by what it sets.
LEMMA I2cSets ==
  ASSUME TypeInv, UsersSwitchOn, processI2CMessages
  PROVE  LET m == Head(i2cRx)
             f == MakeRR32CanMsg(m)
         IN  /\ f.cmd.on = m.on
             /\ m.on => f.cmd.value = m.value /\ Sets(f, TurnoutAddr(m))
             /\ \A t : Sets(f, t) /\ m.on => t = TurnoutAddr(m)
             /\ ~m.on => \A t : Sets(f, t) =>
                  t = last.at /\ f.cmd.value = last.value /\ sameDecoder(TurnoutAddr(m), last.at)
<1> DEFINE m == Head(i2cRx)
           f == MakeRR32CanMsg(m)
<1>1. last \in [at : Nat, value : Value] /\ m \in Message
  BY I2cEffect
<1>2. m.on => f.cmd.at = TurnoutAddr(m)
  BY <1>1, FrameMade
<1> QED
  BY <1>1, <1>2, FrameMade DEF UsersSwitchOn, Sets

LEMMA I2cQueues ==
  ASSUME TypeInv, processI2CMessages
  PROVE  /\ Len(i2cRx) \in Nat /\ Len(i2cRx) >= 1 /\ Len(i2cRx') = Len(i2cRx) - 1
         /\ Head(i2cRx) = i2cRx[1]
         /\ i2cRx \in Seq(Message) /\ toCentral \in Seq(Frames)
         /\ \A i \in 1..(Len(i2cRx) - 1) : i2cRx'[i] = i2cRx[i + 1]
<1>1. QueueType /\ i2cRx # <<>> /\ i2cRx' = Tail(i2cRx)
  BY I2cEffect
<1> QED
  BY <1>1, QueueTail DEF QueueType

LEMMA I2cFrames ==
  ASSUME TypeInv, UsersSwitchOn, FrameInv, OffInv, processI2CMessages
  PROVE  FrameInv' /\ OffInv'
<1> DEFINE m == Head(i2cRx)
           f == MakeRR32CanMsg(m)
<1>1. /\ QueueType /\ last \in [at : Nat, value : Value] /\ i2cRx # <<>> /\ i2cRx' = Tail(i2cRx)
      /\ m \in Message /\ f \in Frames /\ toCentral' = Append(toCentral, f)
      /\ last' = IF m.on THEN [at |-> TurnoutAddr(m), value |-> m.value] ELSE last
      /\ UNCHANGED <<position, scenario, lnRx>>
  BY I2cEffect
<1>2. /\ f.cmd.on = m.on
      /\ m.on => f.cmd.value = m.value /\ Sets(f, TurnoutAddr(m))
      /\ \A t : Sets(f, t) /\ m.on => t = TurnoutAddr(m)
      /\ ~m.on => \A t : Sets(f, t) =>
           t = last.at /\ f.cmd.value = last.value /\ sameDecoder(TurnoutAddr(m), last.at)
  BY I2cSets
<1>3. /\ Len(i2cRx) \in Nat /\ Len(i2cRx) >= 1 /\ Len(i2cRx') = Len(i2cRx) - 1 /\ m = i2cRx[1]
      /\ i2cRx \in Seq(Message) /\ toCentral \in Seq(Frames)
      /\ \A i \in 1..(Len(i2cRx) - 1) : i2cRx'[i] = i2cRx[i + 1]
  BY I2cQueues
<1> HIDE DEF f
<1>4. \A t \in Turnout : Sets(f, t) /\ ~m.on => Leads(Len(toCentral), t, f.cmd.value)
  BY <1>1, <1>2, OffFirst
<1>5. FrameInv'
  BY <1>1, <1>2, <1>3, <1>4, FrameMore
<1>6. OffInv'
  <2> SUFFICES ASSUME NEW n \in 1..Len(i2cRx'), NEW j \in 0..(n - 1),
                      NEW t \in Turnout, NEW v \in Value,
                      Recalls(i2cRx', last', n, j), Memory(i2cRx', last', j) = [at |-> t, value |-> v]
               PROVE  OffSure(n, j, t, v)'
    BY Zenon DEF OffInv
  <2>1. n \in 1..Len(i2cRx) /\ n \in 1..(Len(i2cRx) - 1) /\ n + 1 \in 1..Len(i2cRx)
    BY <1>3
  <2>2. IsPrior(Tail(i2cRx), j, n)
    BY <1>1 DEF Recalls
  <2>3. PICK i \in 0..n :
          /\ IsPrior(i2cRx, i, n + 1) /\ Memory(i2cRx, last, i) = Memory(Tail(i2cRx), last', j)
          /\ \/ j # 0 /\ i = j + 1
             \/ j = 0 /\ ~m.on /\ i = 0
             \/ j = 0 /\ m.on /\ i = 1
    <3>1. i2cRx \in Seq(Message) /\ i2cRx # <<>> /\ n \in 1..Len(i2cRx)
      BY <1>1, <1>3, <2>1
    <3>2. last' = IF Head(i2cRx).on
                  THEN [at |-> TurnoutAddr(Head(i2cRx)), value |-> Head(i2cRx).value] ELSE last
      BY <1>1
    <3> QED
      BY <2>2, <3>1, <3>2, PriorTaken
  <2>4. Memory(i2cRx, last, i) = [at |-> t, value |-> v]
    BY <1>1, <2>3
  <2>5. Recalls(i2cRx, last, n + 1, i)
    <3>1. i2cRx'[n] = i2cRx[n + 1]
      BY <1>3, <2>1
    <3> QED
      BY <1>1, <2>3, <3>1 DEF Recalls
  <2>6. OffSure(n + 1, i, t, v)
    <3>1. i \in 0..((n + 1) - 1)
      BY <2>1
    <3> QED
      BY <2>1, <2>4, <2>5, <3>1 DEF OffInv
  <2>7. NoneOfLn(t)'
    BY <1>1, <2>6 DEF OffSure, NoneOfLn
  <2>8. ~scenario.respond => \A l \in 1..n : Lights(i2cRx[l], t) => i2cRx[l].value = v
    BY <2>6 DEF OffSure
  <2>9. ~scenario.respond => \A l \in 1..(n - 1) : Lights(i2cRx'[l], t) => i2cRx'[l].value = v
    <3> SUFFICES ASSUME ~scenario.respond, NEW l \in 1..(n - 1), Lights(i2cRx'[l], t)
                 PROVE  i2cRx'[l].value = v
      OBVIOUS
    <3>1. l + 1 \in 1..n /\ i2cRx'[l] = i2cRx[l + 1]
      BY <1>3, <2>1
    <3> QED
      BY <2>8, <3>1
  <2>10. (scenario.respond /\ j # 0) \/ Leads(Len(toCentral), t, v)'
    <3>1. CASE scenario.respond /\ j = 0 /\ m.on
      <4>1. TurnoutAddr(m) = t /\ m.value = v
        BY <1>3, <2>3, <2>4, <3>1 DEF Memory
      <4> QED
        BY <1>1, <1>2, <1>3, <3>1, <4>1, LeadsAppend
    <3>2. CASE scenario.respond /\ j = 0 /\ ~m.on
      <4>1. last.value = v /\ i = 0
        BY <2>3, <2>4, <3>2 DEF Memory
      <4>2. Leads(Len(toCentral), t, v)
        BY <2>6, <4>1 DEF OffSure
      <4>3. Sets(f, t) => f.cmd.value = v
        BY <1>2, <3>2, <4>1
      <4> QED
        BY <1>1, <1>3, <4>2, <4>3, LeadsAppend
    <3>3. CASE ~scenario.respond
      <4>1. Leads(Len(toCentral), t, v)
        BY <2>6, <3>3 DEF OffSure
      <4>2. Sets(f, t) => f.cmd.value = v
        <5>1. CASE m.on
          <6>1. 1 \in 1..n
            BY <2>1
          <6>2. Sets(f, t) => Lights(i2cRx[1], t)
            BY <1>2, <1>3, <5>1 DEF Lights
          <6> QED
            BY <1>2, <1>3, <2>8, <3>3, <5>1, <6>1, <6>2
        <5>2. CASE ~m.on
          <6> SUFFICES ASSUME Sets(f, t) PROVE f.cmd.value = v
            OBVIOUS
          <6>1. Leads(Len(toCentral), t, f.cmd.value)
            BY <1>4, <5>2
          <6> QED
            BY <3>3, <4>1, <6>1 DEF Leads
        <5> QED
          BY <5>1, <5>2
      <4> QED
        BY <1>1, <1>3, <4>1, <4>2, LeadsAppend
    <3> QED
      BY <3>1, <3>2, <3>3
  <2> QED
    BY <1>1, <2>7, <2>9, <2>10 DEF OffSure
<1> QED
  BY <1>5, <1>6

LEMMA ConcatOne ==
  ASSUME NEW S, NEW q \in Seq(S), NEW f \in S
  PROVE  q \o <<f>> = Append(q, f) /\ q \o <<>> = q
OBVIOUS

LEMMA I2cKeys ==
  ASSUME TypeInv, LampType, UsersSwitchOn, KeyInv, ReplyInv, processI2CMessages
  PROVE  KeyInv' /\ ReplyInv'
<1> DEFINE m == Head(i2cRx)
           f == MakeRR32CanMsg(m)
<1>1. /\ last \in [at : Nat, value : Value] /\ i2cRx # <<>> /\ i2cRx' = Tail(i2cRx)
      /\ m \in Message /\ f \in Frames /\ toCentral' = Append(toCentral, f)
      /\ last' = IF m.on THEN [at |-> TurnoutAddr(m), value |-> m.value] ELSE last
      /\ i2cTx' = i2cTx \o ownResponse(m)
      /\ UNCHANGED <<position, scenario, lnRx, keyboard, canRx>>
  BY I2cEffect
<1>2. /\ f.cmd.on = m.on
      /\ m.on => f.cmd.value = m.value /\ Sets(f, TurnoutAddr(m))
      /\ \A t : Sets(f, t) /\ m.on => t = TurnoutAddr(m)
      /\ ~m.on => \A t : Sets(f, t) =>
           t = last.at /\ f.cmd.value = last.value /\ sameDecoder(TurnoutAddr(m), last.at)
  BY I2cSets
<1>3. /\ Len(i2cRx) \in Nat /\ Len(i2cRx) >= 1 /\ Len(i2cRx') = Len(i2cRx) - 1 /\ m = i2cRx[1]
      /\ i2cRx \in Seq(Message) /\ toCentral \in Seq(Frames)
      /\ \A i \in 1..(Len(i2cRx) - 1) : i2cRx'[i] = i2cRx[i + 1]
  BY I2cQueues
<1> HIDE DEF f
<1>4. \A k \in Keyboard : InUse(k)' = InUse(k)
  BY <1>1 DEF InUse
<1>5. KeyInv'
  <2> SUFFICES ASSUME NEW k \in Keyboard, NEW c \in InUse(k)
               PROVE  NoneOfLn(c.at)' /\ KeyRecalls(k, c)'
    BY <1>4 DEF KeyInv
  <2>1. NoneOfLn(c.at) /\ KeyRecalls(k, c)
    BY DEF KeyInv
  <2>2. NoneOfLn(c.at)'
    BY <1>1, <2>1 DEF NoneOfLn
  <2>3. ASSUME NEW j \in 0..Len(i2cRx'), IsPrior(i2cRx', j, Len(i2cRx') + 1),
               Memory(i2cRx', last', j).at \div 16 = k
        PROVE  /\ SameTurnout(Memory(i2cRx', last', j), c)
               /\ scenario.respond /\ j = 0 /\ c.at \in Turnout
                    => Leads(Len(toCentral), c.at, c.value)'
    <3> DEFINE n == Len(i2cRx)
    <3>1. n \in 1..Len(i2cRx) /\ Len(i2cRx') + 1 = n /\ j \in 0..(n - 1)
      BY <1>3
    <3>2. IsPrior(Tail(i2cRx), j, n)
      BY <1>1, <2>3, <3>1
    <3>3. PICK i \in 0..n :
            /\ IsPrior(i2cRx, i, n + 1) /\ Memory(i2cRx, last, i) = Memory(Tail(i2cRx), last', j)
            /\ \/ j # 0 /\ i = j + 1
               \/ j = 0 /\ ~Head(i2cRx).on /\ i = 0
               \/ j = 0 /\ Head(i2cRx).on /\ i = 1
      BY <1>1, <1>3, <3>1, <3>2, PriorTaken
    <3>4. Memory(i2cRx, last, i) = Memory(i2cRx', last', j)
      BY <1>1, <3>3
    <3>5. /\ SameTurnout(Memory(i2cRx, last, i), c)
          /\ scenario.respond /\ i = 0 /\ c.at \in Turnout => Leads(Len(toCentral), c.at, c.value)
      BY <2>1, <2>3, <3>3, <3>4 DEF KeyRecalls
    <3>6. ASSUME scenario.respond, j = 0, c.at \in Turnout
          PROVE  Leads(Len(toCentral), c.at, c.value)'
      <4>1. CASE m.on
        <5>1. TurnoutAddr(m) = c.at /\ m.value = c.value
          BY <1>3, <3>3, <3>5, <3>6, <4>1 DEF Memory, SameTurnout
        <5> QED
          BY <1>1, <1>2, <1>3, <3>6, <4>1, <5>1, LeadsAppend
      <4>2. CASE ~m.on
        <5>1. last.value = c.value /\ i = 0
          BY <3>3, <3>5, <3>6, <4>2 DEF Memory, SameTurnout
        <5>2. Leads(Len(toCentral), c.at, c.value)
          BY <3>5, <3>6, <5>1
        <5>3. Sets(f, c.at) => f.cmd.value = c.value
          BY <1>2, <4>2, <5>1
        <5> QED
          BY <1>1, <1>3, <5>2, <5>3, LeadsAppend
      <4> QED
        BY <4>1, <4>2
    <3> QED
      BY <3>4, <3>5, <3>6
  <2> QED
    BY <1>1, <2>2, <2>3 DEF KeyRecalls
<1>6. ReplyInv'
  <2> SUFFICES ASSUME ~scenario.respond, NEW k \in Keyboard, NEW c \in InUse(k), c.at \in Turnout
               PROVE  ReplySure(k, c)'
    BY <1>1, <1>4 DEF ReplyInv
  <2>1. ReplySure(k, c)
    BY DEF ReplyInv
  <2>2. i2cTx' = i2cTx
    <3>1. ownResponse(m) = <<>> /\ i2cTx \in Seq(Message)
      BY DEF ownResponse, LampType
    <3> QED
      BY <1>1, <3>1
  <2>3. \A i \in 1..Len(i2cRx') : Lights(i2cRx'[i], c.at) => i2cRx'[i].value = c.value
    <3> SUFFICES ASSUME NEW i \in 1..Len(i2cRx'), Lights(i2cRx'[i], c.at)
                 PROVE  i2cRx'[i].value = c.value
      OBVIOUS
    <3>1. i + 1 \in 1..Len(i2cRx) /\ i2cRx'[i] = i2cRx[i + 1]
      BY <1>3
    <3> QED
      BY <2>1, <3>1 DEF ReplySure
  <2>4. \A i \in 1..Len(toCentral') :
          Sets(toCentral'[i], c.at) /\ toCentral'[i].cmd.on => toCentral'[i].cmd.value = c.value
    <3>1. /\ Len(toCentral) \in Nat /\ Len(toCentral') = Len(toCentral) + 1
          /\ toCentral'[Len(toCentral) + 1] = f
          /\ \A l \in 1..Len(toCentral) : toCentral'[l] = toCentral[l]
      BY <1>1, <1>3, QueueAppend
    <3>2. ASSUME Sets(f, c.at), f.cmd.on PROVE f.cmd.value = c.value
      <4>1. m.on /\ TurnoutAddr(m) = c.at
        BY <1>2, <3>2
      <4>2. 1 \in 1..Len(i2cRx) /\ Lights(i2cRx[1], c.at)
        BY <1>3, <4>1 DEF Lights
      <4> QED
        BY <1>2, <1>3, <2>1, <4>1, <4>2 DEF ReplySure
    <3> SUFFICES ASSUME NEW i \in 1..Len(toCentral'), Sets(toCentral'[i], c.at), toCentral'[i].cmd.on
                 PROVE  toCentral'[i].cmd.value = c.value
      OBVIOUS
    <3>3. i \in 1..Len(toCentral) \/ i = Len(toCentral) + 1
      BY <3>1
    <3> QED
      BY <2>1, <3>1, <3>2, <3>3 DEF ReplySure
  <2>5. Replied(c.at, c.value)' <=> Replied(c.at, c.value)
    BY <1>1, <2>2 DEF Replied
  <2> QED
    BY <1>1, <2>1, <2>3, <2>4, <2>5 DEF ReplySure
<1> QED
  BY <1>5, <1>6

\* With answers of our own the lamp changes before the turnout does.
LEMMA I2cLamp ==
  ASSUME TypeInv, LampType, UsersSwitchOn, LampInv, processI2CMessages
  PROVE  LampInv'
<1> DEFINE m == Head(i2cRx)
           f == MakeRR32CanMsg(m)
           w == makeMsg(TurnoutAddr(m), m.value, m.on)
<1>1. /\ m \in Message /\ f \in Frames /\ toCentral' = Append(toCentral, f)
      /\ i2cTx' = i2cTx \o ownResponse(m) /\ toCentral \in Seq(Frames)
      /\ UNCHANGED <<position, scenario, canRx, lamp>>
  BY I2cEffect DEF QueueType
<1>2. f.cmd.on = m.on /\ (m.on => Sets(f, TurnoutAddr(m)))
  BY I2cSets
<1>3. /\ w \in Message /\ w.on = m.on /\ (m.on => w.value = m.value /\ TurnoutAddr(w) = TurnoutAddr(m))
      /\ m.value \in Value /\ m.on \in BOOLEAN
  <2>1. TurnoutAddr(m) \in 0..255 /\ m.value \in Value /\ m.on \in BOOLEAN
    BY <1>1, MessageAddress
  <2>2. TurnoutAddr(m) \in Nat /\ TurnoutAddr(m) <= 255
    BY <2>1
  <2> QED
    BY <2>1, <2>2, MessageMade
<1>4. i2cTx \in Seq(Message)
  BY DEF LampType
<1>5. i2cTx' = IF scenario.respond THEN Append(i2cTx, w) ELSE i2cTx
  <2>1. CASE scenario.respond
    <3>1. ownResponse(m) = <<w>>
      BY <2>1 DEF ownResponse
    <3>2. i2cTx \o <<w>> = Append(i2cTx, w)
      BY <1>3, <1>4, ConcatOne
    <3> QED
      BY <1>1, <2>1, <3>1, <3>2
  <2>2. CASE ~scenario.respond
    <3>1. ownResponse(m) = <<>>
      BY <2>2 DEF ownResponse
    <3> QED
      BY <1>1, <1>4, <2>2, <3>1
  <2> QED
    BY <2>1, <2>2
<1>6. /\ Len(toCentral) \in Nat /\ Len(toCentral') = Len(toCentral) + 1
      /\ toCentral'[Len(toCentral) + 1] = f
      /\ \A l \in 1..Len(toCentral) : toCentral'[l] = toCentral[l]
  BY <1>1, QueueAppend
<1> HIDE DEF f, w
<1> SUFFICES ASSUME NEW t \in Shown
             PROVE  \E b \in Value :
                      /\ Final(LitBy(i2cTx', t), Len(i2cTx'), lamp'[t], b)
                      /\ Pends(t)' \/ Final(AnsweredBy(canRx', t), Len(canRx'), b, position'[t])
  BY DEF LampInv
<1>7. PICK b \in Value :
        /\ Final(LitBy(i2cTx, t), Len(i2cTx), lamp[t], b)
        /\ Pends(t) \/ Final(AnsweredBy(canRx, t), Len(canRx), b, position[t])
  BY DEF LampInv
<1>8. Pends(t) => Pends(t)'
  <2> SUFFICES ASSUME Pends(t) PROVE Pends(t)'
    OBVIOUS
  <2>1. PICK i \in 1..Len(toCentral) : Sets(toCentral[i], t) /\ toCentral[i].cmd.on
    BY DEF Pends
  <2>2. i \in 1..Len(toCentral') /\ toCentral'[i] = toCentral[i]
    BY <1>6
  <2> QED
    BY <1>1, <2>1, <2>2 DEF Pends
<1>9. CASE scenario.respond /\ Lights(w, t)
  <2>1. Final(LitBy(Append(i2cTx, w), t), Len(Append(i2cTx, w)), lamp[t], w.value)
    BY <1>3, <1>4, <1>9, LitAppend
  <2>2. Final(LitBy(i2cTx', t), Len(i2cTx'), lamp'[t], m.value)
    BY <1>1, <1>3, <1>5, <1>9, <2>1 DEF Lights
  <2>3. Sets(f, t) /\ f.cmd.on
    BY <1>2, <1>3, <1>9 DEF Lights
  <2>4. Len(toCentral) + 1 \in 1..Len(toCentral')
    BY <1>6
  <2>5. Pends(t)'
    BY <1>1, <1>6, <1>9, <2>3, <2>4 DEF Pends
  <2> QED
    BY <1>3, <2>2, <2>5
<1>10. CASE scenario.respond /\ ~Lights(w, t)
  <2>1. Final(LitBy(Append(i2cTx, w), t), Len(Append(i2cTx, w)), lamp[t], b)
    BY <1>3, <1>4, <1>7, <1>10, LitAppend
  <2> QED
    BY <1>1, <1>5, <1>7, <1>8, <1>10, <2>1
<1>11. CASE ~scenario.respond
  BY <1>1, <1>5, <1>7, <1>8, <1>11
<1> QED
  BY <1>9, <1>10, <1>11

-----------------------------------------------------------------------------
\* Requests that are sent for others than the keyboards.
LEMMA MemoryType ==
  ASSUME QueueType, last \in [at : Nat, value : Value], NEW j \in 0..Len(i2cRx)
  PROVE  Memory(i2cRx, last, j) \in [at : Nat, value : Value]
<1>1. CASE j = 0
  BY <1>1 DEF Memory
<1>2. CASE j # 0
  <2>1. j \in 1..Len(i2cRx) /\ i2cRx[j] \in Message
    BY <1>2 DEF QueueType
  <2>2. TurnoutAddr(i2cRx[j]) \in Nat /\ i2cRx[j].value \in Value
    BY <2>1, MessageAddress
  <2>3. Memory(i2cRx, last, j) = [at |-> TurnoutAddr(i2cRx[j]), value |-> i2cRx[j].value]
    BY <1>2 DEF Memory
  <2>4. \A a \in Nat, v \in Value : [at |-> a, value |-> v] \in [at : Nat, value : Value]
    OBVIOUS
  <2> QED
    BY <2>2, <2>3, <2>4
<1> QED
  BY <1>1, <1>2

LEMMA PendsMore ==
  ASSUME toCentral \in Seq(Frames), NEW g \in Frames, toCentral' = Append(toCentral, g),
         scenario' = scenario
  PROVE  \A t : Pends(t) => Pends(t)'
<1> SUFFICES ASSUME NEW t, Pends(t) PROVE Pends(t)'
  OBVIOUS
<1>1. PICK i \in 1..Len(toCentral) : Sets(toCentral[i], t) /\ toCentral[i].cmd.on
  BY DEF Pends
<1>2. i \in 1..Len(toCentral') /\ toCentral'[i] = toCentral[i]
  <2>1. /\ Len(toCentral) \in Nat /\ Len(toCentral') = Len(toCentral) + 1
        /\ \A l \in 1..Len(toCentral) : toCentral'[l] = toCentral[l]
    BY QueueAppend
  <2> QED
    BY <2>1
<1> QED
  BY <1>1, <1>2 DEF Pends

LEMMA LampMore ==
  ASSUME LampInv, canRx \in Seq(Frames), NEW g \in Frames, \A t : ~Answers(g, t),
         canRx' = canRx \/ canRx' = Append(canRx, g), UNCHANGED <<i2cTx, lamp, position>>,
         \A t : Pends(t) => Pends(t)'
  PROVE  LampInv'
<1> SUFFICES ASSUME NEW t \in Shown
             PROVE  \E b \in Value :
                      /\ Final(LitBy(i2cTx', t), Len(i2cTx'), lamp'[t], b)
                      /\ Pends(t)' \/ Final(AnsweredBy(canRx', t), Len(canRx'), b, position'[t])
  BY DEF LampInv
<1>1. PICK b \in Value :
        /\ Final(LitBy(i2cTx, t), Len(i2cTx), lamp[t], b)
        /\ Pends(t) \/ Final(AnsweredBy(canRx, t), Len(canRx), b, position[t])
  BY DEF LampInv
<1>2. ASSUME Final(AnsweredBy(canRx, t), Len(canRx), b, position[t])
      PROVE  Final(AnsweredBy(canRx', t), Len(canRx'), b, position'[t])
  <2>1. Final(AnsweredBy(Append(canRx, g), t), Len(Append(canRx, g)), b, position[t])
    BY <1>2, AnsweredAppend
  <2> QED
    BY <1>2, <2>1
<1> QED
  BY <1>1, <1>2

LEMMA NoneTail ==
  ASSUME lnRx \in Seq(Command), lnRx # <<>>, lnRx' = Tail(lnRx)
  PROVE  \A t : NoneOfLn(t) => NoneOfLn(t)'
<1>1. /\ Len(lnRx) \in Nat /\ Len(lnRx) >= 1 /\ Len(lnRx') = Len(lnRx) - 1
      /\ \A i \in 1..(Len(lnRx) - 1) : lnRx'[i] = lnRx[i + 1]
  BY QueueTail
<1> SUFFICES ASSUME NEW t, NoneOfLn(t), NEW i \in 1..Len(lnRx')
             PROVE  ~(lnRx'[i].kind = "turnout" /\ lnRx'[i].at = t)
  BY DEF NoneOfLn
<1>2. i + 1 \in 1..Len(lnRx) /\ lnRx'[i] = lnRx[i + 1]
  BY <1>1
<1> QED
  BY <1>2 DEF NoneOfLn

LEMMA LampsStopGo ==
  ASSUME TypeInv, Follow, processI2CStopGo
  PROVE  Follow'
<1> DEFINE g == Frame(MakeRR32CanPowerMsg, "none", FALSE, "line")
<1>1. /\ toCentral' = toCentral \/ toCentral' = Append(toCentral, g)
      /\ UNCHANGED <<position, scenario, i2cRx, last, keyboard, lnRx, canRx, i2cTx, lamp>>
  BY DEF processI2CStopGo, SendPacket, i2cVars, userVars
<1>2. g \in Frames /\ (\A t : ~Sets(g, t) /\ ~Answers(g, t))
  <2>1. MakeRR32CanPowerMsg \in {Power(k) : k \in PowerKinds}
    BY DEF MakeRR32CanPowerMsg, PowerKinds
  <2>2. MakeRR32CanPowerMsg \in Command
    BY <2>1, PowerType
  <2>3. g \in Frames
    BY <2>2 DEF Frame, Frames, Rails, Bus
  <2>4. \A t : ~Sets(g, t) /\ ~Answers(g, t)
    BY DEF Sets, Answers, Frame
  <2> QED
    BY <2>3, <2>4
<1> HIDE DEF g
<1>3. toCentral \in Seq(Frames) /\ canRx \in Seq(Frames)
  BY DEF TypeInv, QueueType
<1>4. /\ \A t : NoneOfLn(t) => NoneOfLn(t)'
      /\ \A t, v : Replied(t, v)' => Replied(t, v)
  BY <1>1 DEF NoneOfLn, Replied
<1>5. FrameInv' /\ OffInv' /\ KeyInv' /\ ReplyInv'
  <2>1. CASE toCentral' = Append(toCentral, g)
    BY <1>1, <1>2, <1>3, <1>4, <2>1, SentFrames DEF Follow
  <2>2. CASE toCentral' = toCentral
    BY <1>1, <1>4, <2>2, KeptFrames DEF Follow
  <2> QED
    BY <1>1, <2>1, <2>2
<1>6. \A t : Pends(t) => Pends(t)'
  <2>1. CASE toCentral' = Append(toCentral, g)
    BY <1>1, <1>2, <1>3, <2>1, PendsMore
  <2>2. CASE toCentral' = toCentral
    BY <1>1, <2>2 DEF Pends
  <2> QED
    BY <1>1, <2>1, <2>2
<1>7. LampInv'
  BY <1>1, <1>2, <1>3, <1>6, LampMore DEF Follow
<1> QED
  BY <1>5, <1>7 DEF Follow

LEMMA LampsCanUser ==
  ASSUME TypeInv, FormInv, UsersSwitchOn, Follow, Covered',
         NEW u \in scenario.commands, u.from = "can", CanUser(u.cmd, u.rail)
  PROVE  Follow'
<1> DEFINE c == u.cmd
           g == Frame(c, u.rail, c.kind = "sensor", "can")
<1>1. /\ c \in Command /\ u.rail \in Rails
      /\ c.kind = "turnout" => c.on
  BY GivenType DEF TypeInv, UsersSwitchOn
<1>2. g \in Frames
  BY <1>1, CanFrameType
<1>3. /\ toCentral' = Append(toCentral, g) /\ canRx' = Append(canRx, g)
      /\ UNCHANGED <<position, scenario, i2cRx, last, keyboard, lnRx, i2cTx, lamp>>
      /\ Crossing(c)
  BY DEF CanUser, Give, i2cVars, lnVars
<1>4. \A t : ~Answers(g, t)
  BY DEF Answers, Frame
<1>5. ASSUME NEW t \in Turnout, Sets(g, t) PROVE g.cmd.on /\ Unused(t)
  <2>1. c.kind = "turnout" /\ c.at = t /\ g.cmd = c
    BY <1>5 DEF Sets, Frame
  <2>2. /\ \A k \in Keyboard : Busy(k) => UsedBy(k) # t
        /\ \A i \in 1..Len(i2cRx) : ~sameDecoder(TurnoutAddr(i2cRx[i]), t)
    BY <1>3, <2>1 DEF Crossing, Covered
  <2>3. \A n \in 1..Len(i2cRx) : \A j \in 0..(n - 1) :
          Recalls(i2cRx, last, n, j) => Memory(i2cRx, last, j).at # t
    BY <2>2 DEF Recalls
  <2>4. ASSUME NEW k \in Keyboard, NEW d \in InUse(k) PROVE d.at # t
    <3>1. Busy(k) /\ UsedBy(k) = d.at
      BY DEF InUse, FormInv, KeyForm, Busy, UsedBy
    <3> QED
      BY <2>2, <3>1
  <2> QED
    BY <1>1, <2>1, <2>3, <2>4 DEF Unused
<1> HIDE DEF g
<1>6. toCentral \in Seq(Frames) /\ canRx \in Seq(Frames)
  BY DEF TypeInv, QueueType
<1>7. \A t, v : Replied(t, v)' => Replied(t, v)
  <2> SUFFICES ASSUME NEW t, NEW v, NEW i \in 1..Len(canRx'),
                      Answers(canRx'[i], t), canRx'[i].cmd.value = v
               PROVE  Replied(t, v)
    BY <1>3 DEF Replied
  <2>1. /\ Len(canRx) \in Nat /\ Len(canRx') = Len(canRx) + 1
        /\ canRx'[Len(canRx) + 1] = g
        /\ \A l \in 1..Len(canRx) : canRx'[l] = canRx[l]
    BY <1>2, <1>3, <1>6, QueueAppend
  <2>2. i \in 1..Len(canRx) /\ canRx'[i] = canRx[i]
    BY <1>4, <2>1
  <2> QED
    BY <2>2 DEF Replied
<1>8. \A t : NoneOfLn(t) => NoneOfLn(t)'
  BY <1>3 DEF NoneOfLn
<1>9. FrameInv' /\ OffInv' /\ KeyInv' /\ ReplyInv'
  BY <1>2, <1>3, <1>5, <1>6, <1>7, <1>8, SentFrames DEF Follow
<1>10. \A t : Pends(t) => Pends(t)'
  BY <1>2, <1>3, <1>6, PendsMore
<1>11. LampInv'
  BY <1>2, <1>3, <1>4, <1>6, <1>10, LampMore DEF Follow
<1> QED
  BY <1>9, <1>11 DEF Follow

LEMMA LampsLocoNet ==
  ASSUME TypeInv, FormInv, Follow, processLocoNet
  PROVE  Follow'
<1> DEFINE c == Head(lnRx)
           g == FromLn(c)
<1>1. /\ lnRx # <<>> /\ lnRx' = Tail(lnRx) /\ toCentral' = Append(toCentral, g)
      /\ i2cTx' = i2cTx \o forwardToI2C(g)
      /\ UNCHANGED <<position, scenario, i2cRx, last, keyboard, canRx, lamp>>
  BY DEF processLocoNet, SendPacket, userVars
<1>2. lnRx \in Seq(Command) /\ toCentral \in Seq(Frames) /\ canRx \in Seq(Frames) /\ QueueType
  BY DEF TypeInv, QueueType
<1>3. /\ c \in Command /\ Len(lnRx) \in Nat /\ Len(lnRx) >= 1 /\ c = lnRx[1]
      /\ Len(lnRx') = Len(lnRx) - 1 /\ \A i \in 1..(Len(lnRx) - 1) : lnRx'[i] = lnRx[i + 1]
  BY <1>1, <1>2, QueueTail
<1>4. g \in Frames /\ g.cmd = c /\ g.response = (c.kind = "sensor")
  BY <1>3, FromLnType
<1> HIDE DEF g
<1>5. \A t : ~Answers(g, t)
  BY <1>4 DEF Answers
<1>6. i2cTx' = i2cTx
  <2>1. forwardToI2C(g) = <<>>
    BY <1>4 DEF forwardToI2C
  <2> QED
    BY <1>1, <2>1 DEF FormInv, LampType
<1>7. \A t : NoneOfLn(t) => NoneOfLn(t)'
  BY <1>1, <1>2, NoneTail
<1>8. \A t, v : Replied(t, v)' => Replied(t, v)
  BY <1>1, <1>6 DEF Replied
<1>9. ASSUME NEW t \in Turnout, Sets(g, t) PROVE g.cmd.on /\ Unused(t)
  <2>1. c.kind = "turnout" /\ c.at = t
    BY <1>4, <1>9 DEF Sets
  <2>2. ~NoneOfLn(t) /\ c.on
    BY <1>3, <2>1 DEF NoneOfLn, FormInv, LnOn
  <2>3. ASSUME NEW n \in 1..Len(i2cRx), NEW j \in 0..(n - 1), Recalls(i2cRx, last, n, j),
               Memory(i2cRx, last, j).at = t
        PROVE  FALSE
    <3> DEFINE d == Memory(i2cRx, last, j)
    <3>1. j \in 0..Len(i2cRx)
      BY <1>2 DEF QueueType
    <3>2. d \in [at : Nat, value : Value]
      BY <1>2, <3>1, MemoryType DEF TypeInv
    <3>3. d = [at |-> t, value |-> d.value] /\ d.value \in Value
      BY <2>3, <3>2
    <3> HIDE DEF d
    <3>4. OffSure(n, j, t, d.value)
      BY <2>3, <3>3 DEF Follow, OffInv, d
    <3> QED
      BY <2>2, <3>4 DEF OffSure
  <2>4. \A k \in Keyboard : \A d \in InUse(k) : d.at # t
    BY <2>2 DEF Follow, KeyInv
  <2> QED
    BY <1>4, <2>2, <2>3, <2>4 DEF Unused
<1>10. FrameInv' /\ OffInv' /\ KeyInv' /\ ReplyInv'
  BY <1>1, <1>2, <1>4, <1>7, <1>8, <1>9, SentFrames DEF Follow
<1>11. \A t : Pends(t) => Pends(t)'
  BY <1>1, <1>2, <1>4, PendsMore
<1>12. LampInv'
  BY <1>1, <1>2, <1>4, <1>5, <1>6, <1>11, LampMore DEF Follow
<1> QED
  BY <1>10, <1>12 DEF Follow

\* What leaves all of it alone.
LEMMA LampsAside ==
  ASSUME Follow, UNCHANGED <<toCentral, position, scenario, i2cRx, last, keyboard, canRx, i2cTx, lamp>>,
         \A t : NoneOfLn(t) => NoneOfLn(t)'
  PROVE  Follow'
<1>1. \A t, v : Replied(t, v)' => Replied(t, v)
  BY DEF Replied
<1>2. FrameInv' /\ OffInv' /\ KeyInv' /\ ReplyInv'
  BY <1>1, KeptFrames DEF Follow
<1>3. LampInv'
  BY DEF Follow, LampInv, Pends
<1> QED
  BY <1>2, <1>3 DEF Follow

LEMMA LampsLnUser ==
  ASSUME TypeInv, FormInv, Follow, Covered', NEW c, LnUser(c)
  PROVE  Follow'
<1>1. /\ lnRx' = Append(lnRx, c) /\ Crossing(c)
      /\ UNCHANGED <<toCentral, position, scenario, i2cRx, last, keyboard, canRx, i2cTx, lamp>>
  BY DEF LnUser, Give, i2cVars, canVars
<1>2. ASSUME NEW t, NoneOfLn(t), ~(c.kind = "turnout" /\ c.at = t) PROVE NoneOfLn(t)'
  <2>1. lnRx \in Seq(Command)
    BY DEF TypeInv, QueueType
  <2>2. /\ Len(lnRx) \in Nat /\ Len(lnRx') = Len(lnRx) + 1 /\ lnRx'[Len(lnRx) + 1] = c
        /\ \A i \in 1..Len(lnRx) : lnRx'[i] = lnRx[i]
    BY <1>1, <2>1
  <2> SUFFICES ASSUME NEW i \in 1..Len(lnRx')
               PROVE  ~(lnRx'[i].kind = "turnout" /\ lnRx'[i].at = t)
    BY DEF NoneOfLn
  <2>3. i \in 1..Len(lnRx) \/ i = Len(lnRx) + 1
    BY <2>2
  <2> QED
    BY <1>2, <2>2, <2>3 DEF NoneOfLn
<1>3. c.kind = "turnout" =>
        /\ \A k \in Keyboard : Busy(k) => UsedBy(k) # c.at
        /\ \A i \in 1..Len(i2cRx) : ~sameDecoder(TurnoutAddr(i2cRx[i]), c.at)
  BY <1>1 DEF Crossing, Covered
<1>4. ASSUME NEW n \in 1..Len(i2cRx), NEW j \in 0..(n - 1), NEW t \in Turnout,
             Recalls(i2cRx, last, n, j), Memory(i2cRx, last, j).at = t, NoneOfLn(t)
      PROVE  NoneOfLn(t)'
  <2>1. sameDecoder(TurnoutAddr(i2cRx[n]), t)
    BY <1>4 DEF Recalls
  <2> QED
    BY <1>2, <1>3, <1>4, <2>1
<1>5. ASSUME NEW k \in Keyboard, NEW d \in InUse(k), NoneOfLn(d.at) PROVE NoneOfLn(d.at)'
  <2>1. Busy(k) /\ UsedBy(k) = d.at
    BY DEF InUse, FormInv, KeyForm, Busy, UsedBy
  <2> QED
    BY <1>2, <1>3, <1>5, <2>1
<1>6. \A t, v : Replied(t, v)' => Replied(t, v)
  BY <1>1 DEF Replied
<1>7. FrameInv' /\ OffInv' /\ KeyInv' /\ ReplyInv'
  BY <1>1, <1>4, <1>5, <1>6, KeptFrames DEF Follow
<1>8. LampInv'
  BY <1>1 DEF Follow, LampInv, Pends
<1> QED
  BY <1>7, <1>8 DEF Follow

\* An answer as the keyboards are told of it.
LEMMA ForwardMade ==
  ASSUME NEW f \in Frames
  PROVE  \/ forwardToI2C(f) = <<>> /\ \A t \in Shown : ~Answers(f, t)
         \/ \E w \in Message :
              /\ forwardToI2C(f) = <<w>>
              /\ \A t : (Lights(w, t) <=> Answers(f, t)) /\ (Lights(w, t) => w.value = f.cmd.value)
<1> DEFINE w == makeMsg(f.cmd.at, f.cmd.value, f.cmd.on)
           goes == /\ f.cmd.kind = "turnout" /\ f.response /\ isMatchingTurnoutRailProtocol(f.rail)
                   /\ f.cmd.at <= 255
<1>1. f.cmd.at \in Nat /\ f.cmd.value \in Value /\ f.cmd.on \in BOOLEAN
  <2>1. f.cmd \in Command
    BY DEF Frames
  <2> QED
    BY <2>1 DEF Command, Value
<1>2. CASE goes
  <2>1. forwardToI2C(f) = <<w>>
    BY <1>2 DEF forwardToI2C
  <2>2. /\ w \in Message /\ w.on = f.cmd.on
        /\ f.cmd.on => w.value = f.cmd.value /\ TurnoutAddr(w) = f.cmd.at
    BY <1>1, <1>2, MessageMade
  <2> HIDE DEF w
  <2>3. \A t : (Lights(w, t) <=> Answers(f, t)) /\ (Lights(w, t) => w.value = f.cmd.value)
    BY <1>2, <2>2 DEF Lights, Answers
  <2> QED
    BY <2>1, <2>2, <2>3
<1>3. CASE ~goes
  <2>1. forwardToI2C(f) = <<>>
    BY <1>3 DEF forwardToI2C
  <2>2. \A t \in Shown : ~Answers(f, t)
    BY <1>3 DEF Shown, Answers
  <2> QED
    BY <2>1, <2>2
<1> HIDE DEF goes
<1> QED
  BY <1>2, <1>3

LEMMA LampsCAN ==
  ASSUME TypeInv, FormInv, Follow, processCAN
  PROVE  Follow'
<1> DEFINE f == Head(canRx)
<1>1. /\ canRx # <<>> /\ canRx' = Tail(canRx) /\ i2cTx' = i2cTx \o forwardToI2C(f)
      /\ UNCHANGED <<toCentral, position, scenario, i2cRx, last, keyboard, lnRx, lamp>>
  BY DEF processCAN, userVars
<1>2. canRx \in Seq(Frames) /\ i2cTx \in Seq(Message)
  BY DEF TypeInv, QueueType, FormInv, LampType
<1>3. /\ f \in Frames /\ Len(canRx) \in Nat /\ Len(canRx) >= 1 /\ Len(canRx') = Len(canRx) - 1
      /\ f = canRx[1] /\ \A i \in 1..(Len(canRx) - 1) : canRx'[i] = canRx[i + 1]
  BY <1>1, <1>2, QueueTail
<1> HIDE DEF f
<1>4. \/ i2cTx' = i2cTx /\ \A t \in Shown : ~Answers(f, t)
      \/ \E w \in Message :
           /\ i2cTx' = Append(i2cTx, w)
           /\ \A t : (Lights(w, t) <=> Answers(f, t)) /\ (Lights(w, t) => w.value = f.cmd.value)
  <2>1. CASE forwardToI2C(f) = <<>> /\ \A t \in Shown : ~Answers(f, t)
    <3>1. i2cTx' = i2cTx
      BY <1>1, <1>2, <2>1
    <3> QED
      BY <2>1, <3>1
  <2>2. ASSUME NEW w \in Message, forwardToI2C(f) = <<w>>,
               \A t : (Lights(w, t) <=> Answers(f, t)) /\ (Lights(w, t) => w.value = f.cmd.value)
        PROVE  \E x \in Message :
                 /\ i2cTx' = Append(i2cTx, x)
                 /\ \A t : (Lights(x, t) <=> Answers(f, t)) /\ (Lights(x, t) => x.value = f.cmd.value)
    <3>1. i2cTx \o <<w>> = Append(i2cTx, w)
      BY <1>2, ConcatOne
    <3>2. i2cTx' = Append(i2cTx, w)
      BY <1>1, <2>2, <3>1
    <3> QED
      BY <2>2, <3>2
  <2> QED
    BY <1>3, <2>1, <2>2, ForwardMade
<1>5. ASSUME NEW t, NEW v, Replied(t, v)' PROVE Replied(t, v)
  <2>1. ASSUME NEW i \in 1..Len(canRx'), Answers(canRx'[i], t), canRx'[i].cmd.value = v
        PROVE  Replied(t, v)
    <3>1. i + 1 \in 1..Len(canRx) /\ canRx'[i] = canRx[i + 1]
      BY <1>3
    <3> QED
      BY <2>1, <3>1 DEF Replied
  <2>2. ASSUME NEW i \in 1..Len(i2cTx'), Lights(i2cTx'[i], t), i2cTx'[i].value = v
        PROVE  Replied(t, v)
    <3>1. CASE i2cTx' = i2cTx
      BY <2>2, <3>1 DEF Replied
    <3>2. ASSUME NEW w \in Message, i2cTx' = Append(i2cTx, w),
                 \A s : (Lights(w, s) <=> Answers(f, s)) /\ (Lights(w, s) => w.value = f.cmd.value)
          PROVE  Replied(t, v)
      <4>1. /\ Len(i2cTx) \in Nat /\ Len(i2cTx') = Len(i2cTx) + 1 /\ i2cTx'[Len(i2cTx) + 1] = w
            /\ \A l \in 1..Len(i2cTx) : i2cTx'[l] = i2cTx[l]
        BY <1>2, <3>2, QueueAppend
      <4>2. CASE i \in 1..Len(i2cTx)
        BY <2>2, <4>1, <4>2 DEF Replied
      <4>3. CASE i = Len(i2cTx) + 1
        <5>1. Answers(f, t) /\ f.cmd.value = v
          BY <2>2, <3>2, <4>1, <4>3
        <5>2. 1 \in 1..Len(canRx)
          BY <1>3
        <5> QED
          BY <1>3, <5>1, <5>2 DEF Replied
      <4> QED
        BY <4>1, <4>2, <4>3
    <3> QED
      BY <1>4, <3>1, <3>2
  <2> QED
    BY <1>5, <2>1, <2>2 DEF Replied
<1>6. FrameInv' /\ OffInv' /\ KeyInv' /\ ReplyInv'
  <2>1. \A t : NoneOfLn(t) => NoneOfLn(t)'
    BY <1>1 DEF NoneOfLn
  <2> QED
    BY <1>1, <1>5, <2>1, KeptFrames DEF Follow
<1>7. LampInv'
  <2> SUFFICES ASSUME NEW t \in Shown
               PROVE  \E b \in Value :
                        /\ Final(LitBy(i2cTx', t), Len(i2cTx'), lamp'[t], b)
                        /\ Pends(t)' \/ Final(AnsweredBy(canRx', t), Len(canRx'), b, position'[t])
    BY DEF LampInv
  <2>1. PICK b \in Value :
          /\ Final(LitBy(i2cTx, t), Len(i2cTx), lamp[t], b)
          /\ Pends(t) \/ Final(AnsweredBy(canRx, t), Len(canRx), b, position[t])
    BY DEF Follow, LampInv
  <2>2. Pends(t)' <=> Pends(t)
    BY <1>1 DEF Pends
  <2>3. Final(AnsweredBy(canRx, t), Len(canRx), b, position[t]) =>
          Final(AnsweredBy(canRx', t), Len(canRx'),
                IF Answers(f, t) THEN f.cmd.value ELSE b, position'[t])
    BY <1>1, <1>2, AnsweredTail DEF f
  <2>4. f.cmd.value \in Value
    <3>1. 1 \in 1..Len(canRx)
      BY <1>3
    <3> QED
      BY <1>2, <1>3, <3>1, AnswerOne
  <2>5. CASE i2cTx' = i2cTx /\ ~Answers(f, t)
    BY <1>1, <2>1, <2>2, <2>3, <2>5
  <2>6. ASSUME NEW w \in Message, i2cTx' = Append(i2cTx, w),
               Lights(w, t) <=> Answers(f, t), Lights(w, t) => w.value = f.cmd.value
        PROVE  \E c \in Value :
                 /\ Final(LitBy(i2cTx', t), Len(i2cTx'), lamp'[t], c)
                 /\ Pends(t)' \/ Final(AnsweredBy(canRx', t), Len(canRx'), c, position'[t])
    <3>1. CASE Lights(w, t)
      <4>1. Final(LitBy(i2cTx', t), Len(i2cTx'), lamp'[t], f.cmd.value)
        BY <1>1, <1>2, <2>6, <3>1, LitAppend
      <4> QED
        BY <2>1, <2>2, <2>3, <2>4, <2>6, <3>1, <4>1
    <3>2. CASE ~Lights(w, t)
      <4>1. Final(LitBy(i2cTx', t), Len(i2cTx'), lamp'[t], b)
        BY <1>1, <1>2, <2>1, <2>6, <3>2, LitAppend
      <4> QED
        BY <2>1, <2>2, <2>3, <2>6, <3>2, <4>1
    <3> QED
      BY <3>1, <3>2
  <2> QED
    BY <1>4, <2>5, <2>6
<1> QED
  BY <1>6, <1>7 DEF Follow

\* The keyboards get their answers.
LEMMA LampsAnswer ==
  ASSUME TypeInv, FormInv, Follow, KeyboardReceives
  PROVE  Follow'
<1> DEFINE m == Head(i2cTx)
           e == m.keyboard
<1>1. /\ i2cTx # <<>> /\ i2cTx' = Tail(i2cTx)
      /\ keyboard' = IF /\ e \in Keyboard /\ keyboard[e].asking # Nothing
                        /\ OfKeyboard(keyboard[e].asking) = m
                     THEN [keyboard EXCEPT ![e].asking = Nothing] ELSE keyboard
      /\ lamp' = IF m.on /\ TurnoutAddr(m) \in Turnout
                 THEN [lamp EXCEPT ![TurnoutAddr(m)] = m.value] ELSE lamp
      /\ UNCHANGED <<toCentral, position, scenario, i2cRx, last, canRx, lnRx>>
  BY DEF KeyboardReceives, taskVars, canVars, lnVars, userVars
<1>2. /\ i2cTx \in Seq(Message) /\ lamp \in [Shown -> Value]
      /\ keyboard \in [Keyboard -> Key]
  BY DEF FormInv, LampType, TypeInv
<1>3. /\ m \in Message /\ Len(i2cTx) \in Nat /\ Len(i2cTx) >= 1 /\ m = i2cTx[1]
      /\ Len(i2cTx') = Len(i2cTx) - 1 /\ \A i \in 1..(Len(i2cTx) - 1) : i2cTx'[i] = i2cTx[i + 1]
  BY <1>1, <1>2, QueueTail
<1>4. TurnoutAddr(m) \in 0..255 /\ m.value \in Value
  BY <1>3, MessageAddress
<1> HIDE DEF m
<1>5. ASSUME NEW k \in Keyboard
      PROVE  /\ InUse(k)' \subseteq InUse(k)
             /\ \/ keyboard'[k] = keyboard[k]
                \/ /\ keyboard[k].asking # Nothing /\ OfKeyboard(keyboard[k].asking) = m
                   /\ keyboard'[k].asking = Nothing /\ keyboard'[k].held = keyboard[k].held
  <2>1. CASE keyboard' = keyboard
    BY <2>1 DEF InUse
  <2>2. CASE /\ e \in Keyboard /\ keyboard[e].asking # Nothing
             /\ OfKeyboard(keyboard[e].asking) = m
             /\ keyboard' = [keyboard EXCEPT ![e].asking = Nothing]
    <3>1. CASE k = e
      <4>1. keyboard'[k] = [keyboard[k] EXCEPT !.asking = Nothing]
        BY <1>2, <2>2, <3>1
      <4>2. keyboard'[k].asking = Nothing /\ keyboard'[k].held = keyboard[k].held
        BY <1>2, <4>1 DEF Key
      <4> QED
        BY <2>2, <3>1, <4>2 DEF InUse
    <3>2. CASE k # e
      <4>1. keyboard'[k] = keyboard[k]
        BY <1>2, <2>2, <3>2
      <4> QED
        BY <4>1 DEF InUse
    <3> QED
      BY <3>1, <3>2
  <2> HIDE DEF e
  <2> QED
    BY <1>1, <2>1, <2>2
<1>6. FrameInv' /\ OffInv' /\ KeyInv'
  <2>1. \A n, t, v : Leads(n, t, v)' <=> Leads(n, t, v)
    BY <1>1 DEF Leads
  <2>2. FrameInv'
    BY <1>1, <2>1 DEF Follow, FrameInv
  <2>3. \A t : NoneOfLn(t)' <=> NoneOfLn(t)
    BY <1>1 DEF NoneOfLn
  <2>4. OffInv'
    BY <1>1, <2>1, <2>3 DEF Follow, OffInv, OffSure
  <2>5. ASSUME NEW k \in Keyboard, NEW c \in InUse(k)' PROVE NoneOfLn(c.at)' /\ KeyRecalls(k, c)'
    <3>1. NoneOfLn(c.at) /\ KeyRecalls(k, c)
      BY <1>5 DEF Follow, KeyInv
    <3> QED
      BY <1>1, <2>1, <2>3, <3>1 DEF KeyRecalls
  <2> QED
    BY <2>2, <2>4, <2>5 DEF KeyInv
<1>7. ReplyInv'
  <2> SUFFICES ASSUME ~scenario.respond, NEW k \in Keyboard, NEW c \in InUse(k)', c.at \in Turnout
               PROVE  ReplySure(k, c)'
    BY <1>1 DEF ReplyInv
  <2>1. c \in InUse(k) /\ ReplySure(k, c)
    BY <1>5 DEF Follow, ReplyInv
  <2>2. Replied(c.at, c.value)' => Replied(c.at, c.value)
    <3> SUFFICES ASSUME NEW i \in 1..Len(i2cTx'), Lights(i2cTx'[i], c.at), i2cTx'[i].value = c.value
                 PROVE  Replied(c.at, c.value)
      BY <1>1 DEF Replied
    <3>1. i + 1 \in 1..Len(i2cTx) /\ i2cTx'[i] = i2cTx[i + 1]
      BY <1>3
    <3> QED
      BY <3>1 DEF Replied
  <2>3. ASSUME ~keyboard'[k].asking.on PROVE ~keyboard[k].asking.on \/ Replied(c.at, c.value)
    <3>1. CASE keyboard'[k] = keyboard[k]
      BY <2>3, <3>1
    <3>2. CASE /\ keyboard[k].asking # Nothing /\ OfKeyboard(keyboard[k].asking) = m
               /\ keyboard'[k].asking = Nothing /\ keyboard'[k].held = keyboard[k].held
      <4> SUFFICES ASSUME keyboard[k].asking.on PROVE Replied(c.at, c.value)
        OBVIOUS
      <4>1. c = keyboard[k].asking
        BY <2>1, <3>2 DEF InUse, FormInv, KeyForm
      <4>2. c \in KeyCommand /\ c.on = TRUE
        <5>1. c \in KeyCommand
          BY <1>2, <3>2, <4>1 DEF Key
        <5>2. c.on \in BOOLEAN
          BY <5>1 DEF KeyCommand, Command
        <5> QED
          BY <4>1, <5>1, <5>2
      <4>3. c.at \in Nat /\ c.at <= 255 /\ c.value \in Value
        BY <4>2 DEF KeyCommand, Command, Value
      <4>4. m = makeMsg(c.at, c.value, TRUE)
        BY <3>2, <4>1, <4>2 DEF OfKeyboard
      <4>5. m.on /\ m.value = c.value /\ TurnoutAddr(m) = c.at
        BY <4>3, <4>4, MessageMade
      <4>6. 1 \in 1..Len(i2cTx) /\ Lights(i2cTx[1], c.at) /\ i2cTx[1].value = c.value
        BY <1>3, <4>5 DEF Lights
      <4> QED
        BY <4>6 DEF Replied
    <3> QED
      BY <1>5, <3>1, <3>2
  <2> QED
    BY <1>1, <2>1, <2>2, <2>3 DEF ReplySure
<1>8. LampInv'
  <2> SUFFICES ASSUME NEW t \in Shown
               PROVE  \E b \in Value :
                        /\ Final(LitBy(i2cTx', t), Len(i2cTx'), lamp'[t], b)
                        /\ Pends(t)' \/ Final(AnsweredBy(canRx', t), Len(canRx'), b, position'[t])
    BY DEF LampInv
  <2>1. PICK b \in Value :
          /\ Final(LitBy(i2cTx, t), Len(i2cTx), lamp[t], b)
          /\ Pends(t) \/ Final(AnsweredBy(canRx, t), Len(canRx), b, position[t])
    BY DEF Follow, LampInv
  <2>2. Final(LitBy(i2cTx', t), Len(i2cTx'), IF Lights(m, t) THEN m.value ELSE lamp[t], b)
    BY <1>1, <1>2, <2>1, LitTail DEF m
  <2>3. lamp'[t] = IF Lights(m, t) THEN m.value ELSE lamp[t]
    <3>1. t \in Turnout
      BY DEF Shown
    <3>2. CASE Lights(m, t)
      <4>1. lamp' = [lamp EXCEPT ![t] = m.value]
        BY <1>1, <3>1, <3>2 DEF Lights
      <4> QED
        BY <1>2, <3>2, <4>1
    <3>3. CASE ~Lights(m, t)
      <4>1. CASE m.on /\ TurnoutAddr(m) \in Turnout
        <5>1. TurnoutAddr(m) # t
          BY <3>3, <4>1 DEF Lights
        <5>2. lamp' = [lamp EXCEPT ![TurnoutAddr(m)] = m.value]
          BY <1>1, <4>1
        <5> QED
          BY <1>2, <3>3, <5>1, <5>2
      <4>2. CASE ~(m.on /\ TurnoutAddr(m) \in Turnout)
        BY <1>1, <3>3, <4>2
      <4> QED
        BY <4>1, <4>2
    <3> QED
      BY <3>2, <3>3
  <2>4. Pends(t)' <=> Pends(t)
    BY <1>1 DEF Pends
  <2> QED
    BY <1>1, <2>1, <2>2, <2>3, <2>4
<1> QED
  BY <1>6, <1>7, <1>8 DEF Follow

\* The central handles a request.
LEMMA CentralEffect ==
  ASSUME TypeInv, LampType, NoStopInv, Central
  PROVE  LET f == Head(toCentral)
             g == [f EXCEPT !.response = TRUE]
         IN  /\ toCentral # <<>> /\ toCentral' = Tail(toCentral) /\ f \in Frames /\ g \in Frames
             /\ UNCHANGED <<i2cRx, i2cTx, lamp, keyboard, last, scenario, lnRx>>
             /\ g.cmd = f.cmd /\ \A t : Answers(g, t) => Sets(f, t) \/ canRx' = canRx
             /\ canRx' \in {canRx, Append(canRx, g)}
             /\ \A t \in Turnout :
                  \/ /\ canRx' = Append(canRx, g) /\ Sets(f, t) /\ (Answers(g, t) <=> f.cmd.on)
                     /\ position'[t] = f.cmd.value
                  \/ /\ canRx' = canRx \/ ~Answers(g, t)
                     /\ position'[t] = position[t] /\ (Sets(f, t) => ~scenario.respond)
<1> DEFINE f == Head(toCentral)
           c == f.cmd
           g == [f EXCEPT !.response = TRUE]
           done == \/ c.kind \in PowerKinds
                   \/ c.kind = "turnout" /\ track = "go" /\ f.rail # "none"
           moved == done /\ c.kind = "turnout" /\ isMatchingTurnoutRailProtocol(f.rail) /\ c.at \in Turnout
<1>1. /\ toCentral # <<>> /\ toCentral' = Tail(toCentral)
      /\ canRx' = IF done THEN Append(canRx, g) ELSE canRx
      /\ position' = IF moved THEN [position EXCEPT ![c.at] = c.value] ELSE position
      /\ UNCHANGED <<i2cRx, i2cTx, lamp, keyboard, last, scenario, lnRx>>
  BY DEF Central, i2cVars, lnVars, userVars
<1>2. f \in Frames
  BY <1>1 DEF TypeInv, QueueType
<1> HIDE DEF f
<1>3. g \in Frames /\ g.cmd = f.cmd /\ g.rail = f.rail /\ g.response = TRUE
  BY <1>2 DEF Frames
<1> HIDE DEF g
<1>4. \A t : Answers(g, t) => Sets(f, t) \/ ~done
  BY <1>3 DEF Answers, Sets, PowerKinds
<1>5. \A t : Sets(f, t) => (Answers(g, t) <=> f.cmd.on)
  BY <1>3 DEF Answers, Sets
<1>6. ASSUME NEW t, Sets(f, t), scenario.respond PROVE done
  BY <1>6 DEF NoStopInv, Sets
<1>7. ASSUME NEW t \in Turnout
      PROVE  \/ /\ canRx' = Append(canRx, g) /\ Sets(f, t) /\ (Answers(g, t) <=> f.cmd.on)
                /\ position'[t] = f.cmd.value
             \/ /\ canRx' = canRx \/ ~Answers(g, t)
                /\ position'[t] = position[t] /\ (Sets(f, t) => ~scenario.respond)
  <2>1. CASE Sets(f, t) /\ done
    <3>1. moved /\ c.at = t
      BY <2>1 DEF Sets
    <3>2. position' = [position EXCEPT ![t] = f.cmd.value]
      BY <1>1, <3>1
    <3>3. position'[t] = f.cmd.value
      BY <3>2 DEF LampType
    <3>4. canRx' = Append(canRx, g)
      BY <1>1, <2>1
    <3> QED
      BY <1>5, <2>1, <3>3, <3>4
  <2>2. CASE ~(Sets(f, t) /\ done)
    <3>1. ~(moved /\ c.at = t)
      <4> SUFFICES ASSUME moved, c.at = t PROVE FALSE
        OBVIOUS
      <4>1. f.rail # "none"
        BY DEF PowerKinds
      <4> QED
        BY <2>2, <4>1 DEF Sets
    <3>2. position'[t] = position[t]
      <4>1. CASE moved
        <5>1. position' = [position EXCEPT ![c.at] = c.value] /\ c.at # t
          BY <1>1, <3>1, <4>1
        <5> QED
          BY <5>1 DEF LampType
      <4>2. CASE ~moved
        <5> HIDE DEF moved
        <5> QED
          BY <1>1, <4>2
      <4> QED
        BY <4>1, <4>2
    <3>3. canRx' = canRx \/ ~Answers(g, t)
      BY <1>1, <1>4, <2>2
    <3>4. Sets(f, t) => ~scenario.respond
      BY <1>6, <2>2
    <3> QED
      BY <3>2, <3>3, <3>4
  <2> QED
    BY <2>1, <2>2
<1>8. canRx' \in {canRx, Append(canRx, g)}
  BY <1>1
<1>9. \A t : Answers(g, t) => Sets(f, t) \/ canRx' = canRx
  BY <1>1, <1>4
<1> QED
  BY <1>1, <1>2, <1>3, <1>7, <1>8, <1>9 DEF f, g

LEMMA LampsCentral ==
  ASSUME TypeInv, FormInv, NoStopInv, Follow, Central
  PROVE  Follow'
<1> DEFINE f == Head(toCentral)
           g == [f EXCEPT !.response = TRUE]
<1>1. /\ toCentral # <<>> /\ toCentral' = Tail(toCentral) /\ f \in Frames /\ g \in Frames
      /\ UNCHANGED <<i2cRx, i2cTx, lamp, keyboard, last, scenario, lnRx>>
      /\ g.cmd = f.cmd /\ \A t : Answers(g, t) => Sets(f, t) \/ canRx' = canRx
      /\ canRx' \in {canRx, Append(canRx, g)}
      /\ \A t \in Turnout :
           \/ /\ canRx' = Append(canRx, g) /\ Sets(f, t) /\ (Answers(g, t) <=> f.cmd.on)
              /\ position'[t] = f.cmd.value
           \/ /\ canRx' = canRx \/ ~Answers(g, t)
              /\ position'[t] = position[t] /\ (Sets(f, t) => ~scenario.respond)
  BY CentralEffect DEF FormInv
<1>2. toCentral \in Seq(Frames) /\ canRx \in Seq(Frames)
  BY DEF TypeInv, QueueType
<1>3. /\ Len(toCentral) \in Nat /\ Len(toCentral) >= 1 /\ Len(toCentral') = Len(toCentral) - 1
      /\ f = toCentral[1] /\ \A i \in 1..(Len(toCentral) - 1) : toCentral'[i] = toCentral[i + 1]
  BY <1>1, <1>2, QueueTail
<1> HIDE DEF g
<1>4. ASSUME NEW t \in Turnout, NEW v, NEW n \in 1..Len(toCentral), Leads(n, t, v)
      PROVE  Leads(n - 1, t, v)'
  <2>1. /\ position'[t] \in {position[t], f.cmd.value}
        /\ ~Sets(f, t) => position'[t] = position[t]
        /\ scenario.respond /\ Sets(f, t) => position'[t] = f.cmd.value
    BY <1>1
  <2> QED
    BY <1>1, <1>2, <1>4, <2>1, LeadsTail
<1>5. ASSUME NEW t \in Turnout, NEW v, Leads(Len(toCentral), t, v)
      PROVE  Leads(Len(toCentral), t, v)'
  <2>1. PICK n \in 1..Len(toCentral) : n = Len(toCentral)
    BY <1>3
  <2>2. Leads(n - 1, t, v)'
    BY <1>4, <1>5, <2>1
  <2>3. n - 1 = Len(toCentral)'
    BY <1>3, <2>1
  <2> QED
    BY <2>2, <2>3
<1> HIDE DEF f
<1>6. FrameInv'
  <2> SUFFICES ASSUME NEW t \in Turnout, NEW i \in 1..Len(toCentral'), NEW v,
                      Sets(toCentral'[i], t), ~toCentral'[i].cmd.on, v = toCentral'[i].cmd.value
               PROVE  Leads(i - 1, t, v)'
    BY Zenon DEF FrameInv
  <2>1. i \in 1..Len(toCentral) /\ i + 1 \in 1..Len(toCentral) /\ toCentral'[i] = toCentral[i + 1]
        /\ (i + 1) - 1 = i
    BY <1>3
  <2>2. Leads((i + 1) - 1, t, v)
    BY <2>1 DEF Follow, FrameInv
  <2> QED
    BY <1>4, <2>1, <2>2
<1>7. \A t : NoneOfLn(t)' <=> NoneOfLn(t)
  BY <1>1 DEF NoneOfLn
<1>8. OffInv'
  <2> SUFFICES ASSUME NEW n \in 1..Len(i2cRx), NEW j \in 0..(n - 1),
                      NEW t \in Turnout, NEW v \in Value,
                      Recalls(i2cRx, last, n, j), Memory(i2cRx, last, j) = [at |-> t, value |-> v]
               PROVE  OffSure(n, j, t, v)'
    BY <1>1, Zenon DEF OffInv
  <2>1. OffSure(n, j, t, v)
    BY DEF Follow, OffInv
  <2> QED
    BY <1>1, <1>5, <1>7, <2>1 DEF OffSure
<1>9. \A k \in Keyboard : InUse(k)' = InUse(k)
  BY <1>1 DEF InUse
<1>10. KeyInv'
  <2> SUFFICES ASSUME NEW k \in Keyboard, NEW c \in InUse(k)
               PROVE  NoneOfLn(c.at)' /\ KeyRecalls(k, c)'
    BY <1>9 DEF KeyInv
  <2>1. NoneOfLn(c.at) /\ KeyRecalls(k, c)
    BY DEF Follow, KeyInv
  <2> QED
    BY <1>1, <1>5, <1>7, <2>1 DEF KeyRecalls
\* A power-off that is handled changes nothing.
<1>11. ASSUME NEW t \in Turnout, Sets(f, t), ~f.cmd.on PROVE position[t] = f.cmd.value
  <2>1. 1 \in 1..Len(toCentral) /\ 1 - 1 = 0
    BY <1>3
  <2>2. Leads(0, t, f.cmd.value)
    BY <1>3, <1>11, <2>1 DEF Follow, FrameInv
  <2> QED
    BY <2>2, LeadsNone
<1>12. ReplyInv'
  <2> SUFFICES ASSUME ~scenario.respond, NEW k \in Keyboard, NEW c \in InUse(k), c.at \in Turnout
               PROVE  ReplySure(k, c)'
    BY <1>1, <1>9 DEF ReplyInv
  <2>1. ReplySure(k, c)
    BY DEF Follow, ReplyInv
  <2>2. \A i \in 1..Len(toCentral') :
          Sets(toCentral'[i], c.at) /\ toCentral'[i].cmd.on => toCentral'[i].cmd.value = c.value
    <3> SUFFICES ASSUME NEW i \in 1..Len(toCentral'), Sets(toCentral'[i], c.at), toCentral'[i].cmd.on
                 PROVE  toCentral'[i].cmd.value = c.value
      OBVIOUS
    <3>1. i + 1 \in 1..Len(toCentral) /\ toCentral'[i] = toCentral[i + 1]
      BY <1>3
    <3> QED
      BY <2>1, <3>1 DEF ReplySure
  <2>3. CASE canRx' = canRx \/ ~Answers(g, c.at)
    <3>1. Replied(c.at, c.value)' => Replied(c.at, c.value)
      <4>1. ASSUME NEW i \in 1..Len(canRx'), Answers(canRx'[i], c.at), canRx'[i].cmd.value = c.value
            PROVE  Replied(c.at, c.value)
        <5>1. CASE canRx' = canRx
          BY <4>1, <5>1 DEF Replied
        <5>2. CASE canRx' = Append(canRx, g) /\ ~Answers(g, c.at)
          <6>1. /\ Len(canRx) \in Nat /\ Len(canRx') = Len(canRx) + 1
                /\ canRx'[Len(canRx) + 1] = g
                /\ \A l \in 1..Len(canRx) : canRx'[l] = canRx[l]
            BY <1>1, <1>2, <5>2, QueueAppend
          <6>2. i \in 1..Len(canRx) /\ canRx'[i] = canRx[i]
            BY <4>1, <5>2, <6>1
          <6> QED
            BY <4>1, <6>2 DEF Replied
        <5> QED
          BY <1>1, <2>3, <5>1, <5>2
      <4> QED
        BY <1>1, <4>1 DEF Replied
    <3>2. position[c.at] = c.value => position'[c.at] = c.value
      <4>1. CASE position'[c.at] = position[c.at]
        BY <4>1
      <4>2. CASE Sets(f, c.at) /\ position'[c.at] = f.cmd.value /\ f.cmd.on
        <5>1. 1 \in 1..Len(toCentral)
          BY <1>3
        <5> QED
          BY <1>3, <2>1, <4>2, <5>1 DEF ReplySure
      <4>3. CASE Sets(f, c.at) /\ position'[c.at] = f.cmd.value /\ ~f.cmd.on
        BY <1>11, <4>3
      <4> QED
        BY <1>1, <4>1, <4>2, <4>3
    <3> QED
      BY <1>1, <2>1, <2>2, <3>1, <3>2 DEF ReplySure
  <2>4. CASE Answers(g, c.at) /\ canRx' # canRx
    <3>1. Sets(f, c.at) /\ f.cmd.on /\ position'[c.at] = f.cmd.value
      BY <1>1, <2>4
    <3>2. 1 \in 1..Len(toCentral)
      BY <1>3
    <3>3. position'[c.at] = c.value
      BY <1>3, <2>1, <3>1, <3>2 DEF ReplySure
    <3> QED
      BY <1>1, <2>1, <2>2, <3>3 DEF ReplySure
  <2> QED
    BY <2>3, <2>4
<1>13. LampInv'
  <2> SUFFICES ASSUME NEW t \in Shown
               PROVE  \E b \in Value :
                        /\ Final(LitBy(i2cTx', t), Len(i2cTx'), lamp'[t], b)
                        /\ Pends(t)' \/ Final(AnsweredBy(canRx', t), Len(canRx'), b, position'[t])
    BY DEF LampInv
  <2>1. PICK b \in Value :
          /\ Final(LitBy(i2cTx, t), Len(i2cTx), lamp[t], b)
          /\ Pends(t) \/ Final(AnsweredBy(canRx, t), Len(canRx), b, position[t])
    BY DEF Follow, LampInv
  <2>2. t \in Turnout
    BY DEF Shown
  <2>3. Pends(t)' \/ Final(AnsweredBy(canRx', t), Len(canRx'), b, position'[t])
    <3>1. CASE canRx' = Append(canRx, g) /\ Sets(f, t) /\ f.cmd.on /\ Answers(g, t)
               /\ position'[t] = f.cmd.value
      <4>1. Final(AnsweredBy(Append(canRx, g), t), Len(Append(canRx, g)), b, g.cmd.value)
        BY <1>1, <1>2, <3>1, AnsweredAppend
      <4> QED
        BY <1>1, <3>1, <4>1
    <3>2. CASE ~(Sets(f, t) /\ f.cmd.on /\ scenario.respond)
               /\ (canRx' = canRx \/ ~Answers(g, t)) /\ position'[t] = position[t]
      <4>1. CASE Pends(t)
        <5>1. PICK i \in 1..Len(toCentral) : Sets(toCentral[i], t) /\ toCentral[i].cmd.on
          BY <4>1 DEF Pends
        <5>2. i # 1
          BY <1>3, <3>2, <4>1, <5>1 DEF Pends
        <5>3. i - 1 \in 1..Len(toCentral') /\ i - 1 \in 1..(Len(toCentral) - 1) /\ (i - 1) + 1 = i
          BY <1>3, <5>2
        <5>4. toCentral'[i - 1] = toCentral[i]
          BY <1>3, <5>3
        <5> QED
          BY <1>1, <4>1, <5>1, <5>3, <5>4 DEF Pends
      <4>2. CASE Final(AnsweredBy(canRx, t), Len(canRx), b, position[t])
        <5>1. CASE canRx' = canRx
          BY <3>2, <4>2, <5>1
        <5>2. CASE canRx' = Append(canRx, g) /\ ~Answers(g, t)
          <6>1. Final(AnsweredBy(Append(canRx, g), t), Len(Append(canRx, g)), b, position[t])
            BY <1>1, <1>2, <4>2, <5>2, AnsweredAppend
          <6> QED
            BY <3>2, <5>2, <6>1
        <5> QED
          BY <1>1, <3>2, <5>1, <5>2
      <4> QED
        BY <2>1, <4>1, <4>2
    <3>3. CASE canRx' = Append(canRx, g) /\ Sets(f, t) /\ ~f.cmd.on /\ ~Answers(g, t)
               /\ position'[t] = f.cmd.value
      BY <1>11, <2>2, <3>2, <3>3
    <3> QED
      BY <1>1, <2>2, <3>1, <3>2, <3>3
  <2> QED
    BY <1>1, <2>1, <2>3
<1> QED
  BY <1>6, <1>8, <1>10, <1>12, <1>13 DEF Follow

-----------------------------------------------------------------------------
\* Keys: one more message w waits for the gateway.
LEMMA KeyMessage ==
  ASSUME NEW c \in KeyCommand
  PROVE  /\ c.at \in 0..255 /\ c.value \in Value /\ c.on \in BOOLEAN
         /\ OfKeyboard(c) \in Message /\ OfKeyboard(c).on = c.on
         /\ c.on => OfKeyboard(c).value = c.value /\ TurnoutAddr(OfKeyboard(c)) = c.at
         /\ ~c.on => sameDecoder(TurnoutAddr(OfKeyboard(c)), c.at)
<1>1. c.at \in 0..255 /\ c.at \in Nat /\ c.at <= 255 /\ c.value \in Value /\ c.on \in BOOLEAN
  BY DEF KeyCommand, Command, Value
<1>2. OfKeyboard(c) = makeMsg(c.at, c.value, c.on)
  BY DEF OfKeyboard
<1>3. /\ makeMsg(c.at, c.value, c.on) \in Message /\ makeMsg(c.at, c.value, c.on).on = c.on
      /\ c.on => /\ makeMsg(c.at, c.value, c.on).value = c.value
                 /\ TurnoutAddr(makeMsg(c.at, c.value, c.on)) = c.at
  BY <1>1, MessageMade
<1>4. ASSUME ~c.on PROVE sameDecoder(TurnoutAddr(OfKeyboard(c)), c.at)
  <2>1. c.on = FALSE
    BY <1>1, <1>4
  <2> QED
    BY <1>1, <1>2, <2>1, KeyAddress
<1> QED
  BY <1>1, <1>2, <1>3, <1>4

LEMMA MemoryReach ==
  ASSUME QueueType, last \in [at : Nat, value : Value], LampType, NEW j \in 0..Len(i2cRx)
  PROVE  Memory(i2cRx, last, j).at \in 0..255
<1>1. CASE j = 0
  <2>1. last.at \in Nat /\ last.at <= 255
    BY DEF LampType
  <2>2. Memory(i2cRx, last, j).at = last.at
    BY <1>1 DEF Memory
  <2>3. \A a \in Nat : a <= 255 => a \in 0..255
    OBVIOUS
  <2> QED
    BY <2>1, <2>2, <2>3, Zenon
<1>2. CASE j # 0
  <2>1. j \in 1..Len(i2cRx) /\ i2cRx[j] \in Message
    BY <1>2 DEF QueueType
  <2>2. TurnoutAddr(i2cRx[j]) \in 0..255
    BY <2>1, MessageAddress
  <2> QED
    BY <1>2, <2>2 DEF Memory
<1> QED
  BY <1>1, <1>2

LEMMA SameKeyboard ==
  ASSUME NEW a, NEW b \in 0..255, NEW c \in 0..255, sameDecoder(a, b), sameDecoder(a, c)
  PROVE  b \div 16 = c \div 16
<1>1. (b % 256) \div 4 = (c % 256) \div 4
  BY DEF sameDecoder
<1>2. b % 256 = b /\ c % 256 = c
  OBVIOUS
<1>3. b \div 4 = c \div 4
  BY <1>1, <1>2
<1> QED
  BY <1>3

\* What is to be shown of a power-off that is sent.
OffNew(m) ==
  \A j \in 0..Len(i2cRx) : \A t \in Turnout, v \in Value :
    ~m.on /\ IsPrior(i2cRx, j, Len(i2cRx) + 1) /\ sameDecoder(TurnoutAddr(m), t)
      /\ Memory(i2cRx, last, j) = [at |-> t, value |-> v]
      => OffSure(Len(i2cRx) + 1, j, t, v)

LEMMA OffMore ==
  ASSUME QueueType, OffInv, NEW w \in Message, i2cRx' = Append(i2cRx, w),
         UNCHANGED <<toCentral, position, scenario, last, lnRx>>, OffNew(w)
  PROVE  OffInv'
<1> DEFINE e == Len(i2cRx)
<1>1. /\ i2cRx \in Seq(Message) /\ e \in Nat /\ Len(i2cRx') = e + 1 /\ i2cRx'[e + 1] = w
      /\ \A i \in 1..e : i2cRx'[i] = i2cRx[i]
  BY QueueAppend DEF QueueType
<1>2. \A n \in 1..(e + 1) : \A j \in 0..(n - 1) :
        /\ IsPrior(i2cRx', j, n) <=> IsPrior(i2cRx, j, n)
        /\ Memory(i2cRx', last, j) = Memory(i2cRx, last, j)
  BY <1>1, PriorAppend
<1> SUFFICES ASSUME NEW n \in 1..Len(i2cRx'), NEW j \in 0..(n - 1),
                    NEW t \in Turnout, NEW v \in Value,
                    Recalls(i2cRx', last', n, j), Memory(i2cRx', last', j) = [at |-> t, value |-> v]
             PROVE  OffSure(n, j, t, v)'
  BY Zenon DEF OffInv
<1>3. n \in 1..(e + 1)
  BY <1>1
<1>4. IsPrior(i2cRx, j, n) /\ Memory(i2cRx, last, j) = [at |-> t, value |-> v]
  BY <1>2, <1>3 DEF Recalls
<1>5. ~i2cRx'[n].on /\ sameDecoder(TurnoutAddr(i2cRx'[n]), t)
  BY DEF Recalls
<1>6. OffSure(n, j, t, v)
  <2>1. CASE n \in 1..e
    <3>1. i2cRx'[n] = i2cRx[n]
      BY <1>1, <2>1
    <3>2. Recalls(i2cRx, last, n, j)
      BY <1>4, <1>5, <3>1 DEF Recalls
    <3> QED
      BY <1>4, <2>1, <3>2 DEF OffInv
  <2>2. CASE n = e + 1
    <3>1. j \in 0..e /\ i2cRx'[n] = w
      BY <1>1, <2>2
    <3> QED
      BY <1>4, <1>5, <2>2, <3>1 DEF OffNew
  <2> QED
    BY <1>3, <2>1, <2>2
<1>7. \A l \in 1..(n - 1) : i2cRx'[l] = i2cRx[l]
  BY <1>1, <1>3
<1>8. NoneOfLn(t)' <=> NoneOfLn(t)
  BY DEF NoneOfLn
<1>9. Leads(Len(toCentral), t, v)' <=> Leads(Len(toCentral), t, v)
  BY DEF Leads
<1> QED
  BY <1>6, <1>7, <1>8, <1>9 DEF OffSure

\* A power-off of a key that was answered finds the turnout as it leaves it.
LEMMA OffOfKey ==
  ASSUME TypeInv, FormInv, Follow, NEW k \in Keyboard, NEW c \in InUse(k), c \in KeyCommand,
         c.at \div 16 = k, ~keyboard[k].asking.on, NEW a, sameDecoder(a, c.at),
         NEW j \in 0..Len(i2cRx), NEW t \in Turnout, NEW v \in Value,
         IsPrior(i2cRx, j, Len(i2cRx) + 1), Memory(i2cRx, last, j) = [at |-> t, value |-> v],
         sameDecoder(a, t)
  PROVE  OffSure(Len(i2cRx) + 1, j, t, v)
<1>1. QueueType /\ last \in [at : Nat, value : Value] /\ LampType /\ toCentral \in Seq(Frames)
  BY DEF TypeInv, FormInv, QueueType
<1>2. t \in 0..255 /\ c.at \in 0..255
  BY <1>1, MemoryReach, KeyMessage
<1>3. t \div 16 = k
  BY <1>2, SameKeyboard
<1>4. /\ t = c.at /\ v = c.value /\ NoneOfLn(t)
      /\ scenario.respond /\ j = 0 => Leads(Len(toCentral), t, v)
  <2>1. NoneOfLn(c.at) /\ KeyRecalls(k, c)
    BY DEF Follow, KeyInv
  <2> QED
    BY <1>3, <2>1 DEF KeyRecalls, SameTurnout
<1>5. ASSUME ~scenario.respond
      PROVE  /\ Leads(Len(toCentral), t, v)
             /\ \A l \in 1..Len(i2cRx) : Lights(i2cRx[l], t) => i2cRx[l].value = v
  <2>1. ReplySure(k, c)
    BY <1>4, <1>5 DEF Follow, ReplyInv
  <2>2. position[t] = v
    BY <1>4, <2>1 DEF ReplySure
  <2>3. ASSUME NEW i \in 1..Len(toCentral) PROVE SetBy(toCentral, t)[i] \in {v, Unset}
    <3>1. /\ Sets(toCentral[i], t) => SetBy(toCentral, t)[i] = toCentral[i].cmd.value
          /\ ~Sets(toCentral[i], t) => SetBy(toCentral, t)[i] = Unset
      BY <1>1, SetOne
    <3>2. CASE Sets(toCentral[i], t) /\ toCentral[i].cmd.on
      BY <1>4, <2>1, <3>1, <3>2 DEF ReplySure
    <3>3. CASE Sets(toCentral[i], t) /\ ~toCentral[i].cmd.on
      <4>1. Leads(i - 1, t, toCentral[i].cmd.value)
        BY <3>3 DEF Follow, FrameInv
      <4>2. position[t] = toCentral[i].cmd.value
        BY <1>5, <4>1 DEF Leads
      <4> QED
        BY <2>2, <3>1, <3>3, <4>2
    <3> QED
      BY <3>1, <3>2, <3>3
  <2> QED
    BY <1>4, <1>5, <2>1, <2>2, <2>3 DEF Leads, ReplySure
<1>6. (Len(i2cRx) + 1) - 1 = Len(i2cRx)
  BY <1>1 DEF QueueType
<1> QED
  BY <1>4, <1>5, <1>6 DEF OffSure

\* What is remembered of a keyboard is what its last message says.
LEMMA RecallsMore ==
  ASSUME QueueType, NEW w \in Message, i2cRx' = Append(i2cRx, w),
         UNCHANGED <<toCentral, position, scenario, last>>,
         NEW k \in Keyboard, NEW c, ~w.on => KeyRecalls(k, c),
         w.on /\ TurnoutAddr(w) \div 16 = k => TurnoutAddr(w) = c.at /\ w.value = c.value
  PROVE  KeyRecalls(k, c)'
<1> DEFINE e == Len(i2cRx)
<1>1. i2cRx \in Seq(Message) /\ e \in Nat /\ Len(i2cRx') = e + 1
  BY QueueAppend DEF QueueType
<1>2. /\ \A j \in 0..e : Memory(i2cRx', last, j) = Memory(i2cRx, last, j)
      /\ \A j \in 0..(e + 1) : IsPrior(i2cRx', j, (e + 1) + 1) =>
           \/ w.on /\ j = e + 1 /\ j # 0
              /\ Memory(i2cRx', last, j) = [at |-> TurnoutAddr(w), value |-> w.value]
           \/ ~w.on /\ j \in 0..e /\ IsPrior(i2cRx, j, e + 1)
  <2>1. e + 1 \in 1..(Len(i2cRx) + 1) /\ (e + 1) - 1 = e
    BY <1>1
  <2> QED
    BY <1>1, <2>1, PriorAppend
<1>3. Leads(Len(toCentral), c.at, c.value)' <=> Leads(Len(toCentral), c.at, c.value)
  BY DEF Leads
<1>4. ASSUME NEW j \in 0..Len(i2cRx'), IsPrior(i2cRx', j, Len(i2cRx') + 1),
             Memory(i2cRx', last', j).at \div 16 = k
      PROVE  /\ SameTurnout(Memory(i2cRx', last', j), c)
             /\ scenario.respond /\ j = 0 /\ c.at \in Turnout
                  => Leads(Len(toCentral), c.at, c.value)'
  <2>1. CASE w.on
    <3>1. j # 0 /\ Memory(i2cRx', last, j) = [at |-> TurnoutAddr(w), value |-> w.value]
      BY <1>1, <1>2, <1>4, <2>1
    <3>2. TurnoutAddr(w) \div 16 = k
      BY <1>4, <3>1
    <3> QED
      BY <2>1, <3>1, <3>2 DEF SameTurnout
  <2>2. CASE ~w.on
    <3>1. j \in 0..e /\ IsPrior(i2cRx, j, e + 1) /\ Memory(i2cRx', last, j) = Memory(i2cRx, last, j)
      BY <1>1, <1>2, <1>4, <2>2
    <3> QED
      BY <1>3, <1>4, <2>2, <3>1 DEF KeyRecalls
  <2> QED
    BY <2>1, <2>2
<1> QED
  BY <1>4 DEF KeyRecalls

LEMMA ReplyMore ==
  ASSUME QueueType, NEW w \in Message, i2cRx' = Append(i2cRx, w),
         UNCHANGED <<toCentral, position, scenario, canRx, i2cTx>>,
         NEW k \in Keyboard, NEW c, NEW d, SameTurnout(c, d), ReplySure(k, c),
         Lights(w, d.at) => w.value = d.value,
         ~keyboard'[k].asking.on => ~keyboard[k].asking.on
  PROVE  ReplySure(k, d)'
<1>1. /\ i2cRx \in Seq(Message) /\ Len(i2cRx) \in Nat /\ Len(i2cRx') = Len(i2cRx) + 1
      /\ i2cRx'[Len(i2cRx) + 1] = w /\ \A i \in 1..Len(i2cRx) : i2cRx'[i] = i2cRx[i]
  BY QueueAppend DEF QueueType
<1>2. c.at = d.at /\ c.value = d.value
  BY DEF SameTurnout
<1>3. ASSUME NEW i \in 1..Len(i2cRx'), Lights(i2cRx'[i], d.at) PROVE i2cRx'[i].value = d.value
  <2>1. CASE i \in 1..Len(i2cRx)
    BY <1>1, <1>2, <1>3, <2>1 DEF ReplySure
  <2>2. CASE i = Len(i2cRx) + 1
    BY <1>1, <1>3, <2>2
  <2> QED
    BY <1>1, <2>1, <2>2
<1>4. Replied(d.at, d.value)' => Replied(c.at, c.value)
  BY <1>2 DEF Replied
<1> QED
  BY <1>2, <1>3, <1>4 DEF ReplySure

LEMMA FrameSame ==
  ASSUME Follow, UNCHANGED <<toCentral, position, scenario, canRx, i2cTx, lamp>>
  PROVE  FrameInv' /\ LampInv'
<1>1. \A n, t, v : Leads(n, t, v)' <=> Leads(n, t, v)
  BY DEF Leads
<1>2. FrameInv'
  BY <1>1 DEF Follow, FrameInv
<1>3. LampInv'
  BY DEF Follow, LampInv, Pends
<1> QED
  BY <1>2, <1>3

\* The keys in use are commands for turnouts of their keyboard.
LEMMA KeyOwn ==
  ASSUME TypeInv, FormInv, NEW k \in Keyboard, NEW c \in InUse(k)
  PROVE  c \in KeyCommand /\ c.at \div 16 = k
<1>1. keyboard[k] \in Key
  BY DEF TypeInv
<1>2. c \in KeyCommand
  BY <1>1 DEF Key, InUse
<1>3. c.at \div 16 = k
  BY DEF InUse, FormInv, KeyForm
<1> QED
  BY <1>2, <1>3

LEMMA LampsPress ==
  ASSUME TypeInv, FormInv, Follow, Covered', ClearPress,
         NEW k \in Keyboard, NEW u \in scenario.commands, u.from = "i2c", Press(k, u.cmd)
  PROVE  Follow'
<1> DEFINE c == u.cmd
           w == OfKeyboard(c)
<1>1. c \in Command /\ c.kind = "turnout" /\ c.on
  BY GivenType
<1>2. /\ c.at \div 16 = k
      /\ keyboard' = [keyboard EXCEPT ![k] = [held |-> c, asking |-> c]]
      /\ i2cRx' = Append(i2cRx, w)
      /\ UNCHANGED <<toCentral, position, scenario, last, canRx, i2cTx, lamp, lnRx>>
      /\ \A i \in 1..Len(lnRx) : lnRx[i].at # c.at
  BY DEF Press, Send, Give, canVars, lnVars, Covered
<1>3. scenario.respond \/ ~UnderWay(c.at)
  BY DEF ClearPress
<1>4. c \in KeyCommand
  BY <1>1, <1>2, KeyType
<1> HIDE DEF c
<1>5. w \in Message /\ w.on /\ w.value = c.value /\ TurnoutAddr(w) = c.at
  BY <1>1, <1>4, KeyMessage
<1> HIDE DEF w
<1>6. QueueType /\ keyboard \in [Keyboard -> Key]
  BY DEF TypeInv
<1>7. OffInv'
  <2>1. OffNew(w)
    BY <1>5 DEF OffNew
  <2>2. QueueType /\ OffInv /\ w \in Message /\ i2cRx' = Append(i2cRx, w)
    BY <1>2, <1>5, <1>6 DEF Follow
  <2>3. UNCHANGED <<toCentral, position, scenario, last, lnRx>>
    BY <1>2
  <2> QED
    BY <2>1, <2>2, <2>3, OffMore
<1>8. ASSUME NEW i \in Keyboard
      PROVE  /\ i = k => keyboard'[i].asking = c /\ InUse(i)' = {c} \ {Nothing}
             /\ i # k => keyboard'[i] = keyboard[i] /\ InUse(i)' = InUse(i)
  <2>1. CASE i = k
    <3>1. keyboard'[i] = [held |-> c, asking |-> c]
      BY <1>2, <1>6, <2>1
    <3> QED
      BY <2>1, <3>1 DEF InUse
  <2>2. CASE i # k
    <3>1. keyboard'[i] = keyboard[i]
      BY <1>2, <1>6, <2>2
    <3> QED
      BY <2>2, <3>1 DEF InUse
  <2> QED
    BY <2>1, <2>2
<1>9. \A t : NoneOfLn(t)' <=> NoneOfLn(t)
  BY <1>2 DEF NoneOfLn
<1>10. ASSUME NEW i \in Keyboard, NEW d \in InUse(i)' PROVE NoneOfLn(d.at)' /\ KeyRecalls(i, d)'
  <2>1. CASE i = k
    <3>1. d = c
      BY <1>8, <1>10, <2>1
    <3>2. NoneOfLn(c.at)
      BY <1>2 DEF NoneOfLn
    <3> QED
      BY <1>2, <1>5, <1>6, <1>9, <3>1, <3>2, RecallsMore
  <2>2. CASE i # k
    <3>1. NoneOfLn(d.at) /\ KeyRecalls(i, d)
      BY <1>8, <1>10, <2>2 DEF Follow, KeyInv
    <3>2. TurnoutAddr(w) \div 16 # i
      BY <1>2, <1>5, <2>2
    <3> QED
      BY <1>2, <1>5, <1>6, <1>9, <3>1, <3>2, RecallsMore
  <2> QED
    BY <2>1, <2>2
<1>11. ASSUME ~scenario.respond, NEW i \in Keyboard, NEW d \in InUse(i)', d.at \in Turnout
       PROVE  ReplySure(i, d)'
  <2>1. CASE i = k
    <3>1. d = c /\ keyboard'[i].asking = c
      BY <1>8, <1>11, <2>1
    <3>2. /\ \A l \in 1..Len(i2cRx) : ~Lights(i2cRx[l], c.at)
          /\ \A l \in 1..Len(toCentral) : ~(Sets(toCentral[l], c.at) /\ toCentral[l].cmd.on)
          /\ ~Replied(c.at, c.value)
      BY <1>3, <1>11 DEF UnderWay, Replied
    <3>3. \A l \in 1..Len(i2cRx') : Lights(i2cRx'[l], c.at) => i2cRx'[l].value = c.value
      <4> SUFFICES ASSUME NEW l \in 1..Len(i2cRx'), Lights(i2cRx'[l], c.at)
                   PROVE  i2cRx'[l].value = c.value
        OBVIOUS
      <4>1. /\ Len(i2cRx) \in Nat /\ Len(i2cRx') = Len(i2cRx) + 1 /\ i2cRx'[Len(i2cRx) + 1] = w
            /\ \A n \in 1..Len(i2cRx) : i2cRx'[n] = i2cRx[n]
        BY <1>2, <1>5, <1>6, QueueAppend DEF QueueType
      <4>2. l \in 1..Len(i2cRx) \/ l = Len(i2cRx) + 1
        BY <4>1
      <4> QED
        BY <1>5, <3>2, <4>1, <4>2
    <3>4. ~Replied(c.at, c.value)'
      BY <1>2, <3>2 DEF Replied
    <3> QED
      BY <1>1, <1>2, <3>1, <3>2, <3>3, <3>4 DEF ReplySure, c
  <2>2. CASE i # k
    <3>1. d \in InUse(i) /\ keyboard'[i] = keyboard[i]
      BY <1>8, <1>11, <2>2
    <3>2. ReplySure(i, d)
      BY <1>11, <3>1 DEF Follow, ReplyInv
    <3>3. d.at \div 16 = i
      BY <3>1, KeyOwn
    <3>4. ~Lights(w, d.at)
      BY <1>2, <1>5, <2>2, <3>3 DEF Lights
    <3> QED
      BY <1>2, <1>5, <1>6, <3>1, <3>2, <3>4, ReplyMore DEF SameTurnout
  <2> QED
    BY <2>1, <2>2
<1>12. KeyInv' /\ ReplyInv'
  BY <1>2, <1>10, <1>11 DEF KeyInv, ReplyInv
<1>13. FrameInv' /\ LampInv'
  BY <1>2, FrameSame
<1> QED
  BY <1>7, <1>12, <1>13 DEF Follow

LEMMA LampsRelease ==
  ASSUME TypeInv, FormInv, Follow, NEW k \in Keyboard, Release(k)
  PROVE  Follow'
<1> DEFINE h == keyboard[k].held
           c == [h EXCEPT !.on = FALSE]
           w == OfKeyboard(c)
<1>1. /\ h # Nothing /\ keyboard[k].asking = Nothing
      /\ keyboard' = [keyboard EXCEPT ![k] = [held |-> Nothing, asking |-> c]]
      /\ i2cRx' = Append(i2cRx, w)
      /\ UNCHANGED <<toCentral, position, scenario, last, canRx, i2cTx, lamp, lnRx>>
  BY DEF Release, Send, canVars, lnVars, userVars
<1>2. QueueType /\ keyboard \in [Keyboard -> Key]
  BY DEF TypeInv
<1>3. h \in InUse(k)
  BY <1>1 DEF InUse
<1>4. h \in KeyCommand /\ h.at \div 16 = k
  BY <1>3, KeyOwn
<1>5. c \in KeyCommand /\ SameTurnout(h, c) /\ ~c.on
  <2>1. c = Switch(h.at, h.value, FALSE) /\ c \in KeyCommand
    BY <1>4, ReleasedType
  <2> HIDE DEF c
  <2> QED
    BY <2>1 DEF Switch, SameTurnout
<1> HIDE DEF c
<1>6. w \in Message /\ ~w.on /\ sameDecoder(TurnoutAddr(w), c.at)
  BY <1>5, KeyMessage
<1>7. c.at = h.at /\ c.value = h.value
  BY <1>5 DEF SameTurnout
<1> HIDE DEF w, h
<1>8. OffInv'
  <2>1. ASSUME NEW j \in 0..Len(i2cRx), NEW t \in Turnout, NEW v \in Value,
               IsPrior(i2cRx, j, Len(i2cRx) + 1),
               Memory(i2cRx, last, j) = [at |-> t, value |-> v], sameDecoder(TurnoutAddr(w), t)
        PROVE  OffSure(Len(i2cRx) + 1, j, t, v)
    <3>1. ~keyboard[k].asking.on
      BY <1>1 DEF Nothing
    <3> QED
      BY <1>3, <1>4, <1>6, <1>7, <2>1, <3>1, OffOfKey
  <2>2. OffNew(w)
    BY <2>1 DEF OffNew
  <2> QED
    BY <1>1, <1>2, <1>6, <2>2, OffMore DEF Follow
<1>9. ASSUME NEW i \in Keyboard
      PROVE  /\ i = k => keyboard'[i].asking = c /\ InUse(i)' = {c} \ {Nothing}
             /\ i # k => keyboard'[i] = keyboard[i] /\ InUse(i)' = InUse(i)
  <2>1. CASE i = k
    <3>1. keyboard'[i] = [held |-> Nothing, asking |-> c]
      BY <1>1, <1>2, <2>1
    <3> QED
      BY <2>1, <3>1 DEF InUse
  <2>2. CASE i # k
    <3>1. keyboard'[i] = keyboard[i]
      BY <1>1, <1>2, <2>2
    <3> QED
      BY <2>2, <3>1 DEF InUse
  <2> QED
    BY <2>1, <2>2
<1>10. \A t : NoneOfLn(t)' <=> NoneOfLn(t)
  BY <1>1 DEF NoneOfLn
<1>11. ASSUME NEW i \in Keyboard, NEW d \in InUse(i)' PROVE NoneOfLn(d.at)' /\ KeyRecalls(i, d)'
  <2>1. CASE i = k
    <3>1. d = c
      BY <1>9, <1>11, <2>1
    <3>2. NoneOfLn(h.at) /\ KeyRecalls(k, h)
      BY <1>3 DEF Follow, KeyInv
    <3>3. KeyRecalls(k, c)
      BY <1>7, <3>2 DEF KeyRecalls, SameTurnout
    <3> QED
      BY <1>1, <1>2, <1>6, <1>7, <1>10, <2>1, <3>1, <3>2, <3>3, RecallsMore
  <2>2. CASE i # k
    <3>1. NoneOfLn(d.at) /\ KeyRecalls(i, d)
      BY <1>9, <1>11, <2>2 DEF Follow, KeyInv
    <3> QED
      BY <1>1, <1>2, <1>6, <1>10, <3>1, RecallsMore
  <2> QED
    BY <2>1, <2>2
<1>12. ASSUME ~scenario.respond, NEW i \in Keyboard, NEW d \in InUse(i)', d.at \in Turnout
       PROVE  ReplySure(i, d)'
  <2>1. ~Lights(w, d.at)
    BY <1>6 DEF Lights
  <2>2. CASE i = k
    <3>1. d = c /\ h.at \in Turnout
      BY <1>7, <1>9, <1>12, <2>2
    <3>2. ReplySure(k, h)
      BY <1>3, <1>12, <3>1 DEF Follow, ReplyInv
    <3>3. ~keyboard[k].asking.on
      BY <1>1 DEF Nothing
    <3> QED
      BY <1>1, <1>2, <1>5, <1>6, <2>1, <2>2, <3>1, <3>2, <3>3, ReplyMore
  <2>3. CASE i # k
    <3>1. d \in InUse(i) /\ keyboard'[i] = keyboard[i]
      BY <1>9, <1>12, <2>3
    <3>2. ReplySure(i, d)
      BY <1>12, <3>1 DEF Follow, ReplyInv
    <3> QED
      BY <1>1, <1>2, <1>6, <2>1, <3>1, <3>2, ReplyMore DEF SameTurnout
  <2> QED
    BY <2>2, <2>3
<1>13. KeyInv' /\ ReplyInv'
  BY <1>1, <1>11, <1>12 DEF KeyInv, ReplyInv
<1>14. FrameInv' /\ LampInv'
  BY <1>1, FrameSame
<1> QED
  BY <1>8, <1>13, <1>14 DEF Follow

LEMMA LampsRepeat ==
  ASSUME TypeInv, FormInv, Follow, NEW k \in Keyboard, Repeat(k)
  PROVE  Follow'
<1> DEFINE c == keyboard[k].asking
           w == OfKeyboard(c)
<1>1. /\ c # Nothing /\ i2cRx' = Append(i2cRx, w)
      /\ UNCHANGED <<toCentral, position, scenario, last, canRx, i2cTx, lamp, lnRx, keyboard>>
  BY DEF Repeat, Send, canVars, lnVars, userVars
<1>2. QueueType
  BY DEF TypeInv
<1>3. c \in InUse(k)
  BY <1>1 DEF InUse
<1>4. c \in KeyCommand /\ c.at \div 16 = k
  BY <1>3, KeyOwn
<1>5. \A d \in InUse(k) : d.at = c.at /\ d.value = c.value
  BY <1>1 DEF InUse, FormInv, KeyForm
<1> HIDE DEF c
<1>6. /\ w \in Message /\ w.on = c.on
      /\ c.on => w.value = c.value /\ TurnoutAddr(w) = c.at
      /\ ~c.on => sameDecoder(TurnoutAddr(w), c.at)
  BY <1>4, KeyMessage
<1> HIDE DEF w
<1>7. OffInv'
  <2>1. ASSUME ~w.on, NEW j \in 0..Len(i2cRx), NEW t \in Turnout, NEW v \in Value,
               IsPrior(i2cRx, j, Len(i2cRx) + 1),
               Memory(i2cRx, last, j) = [at |-> t, value |-> v], sameDecoder(TurnoutAddr(w), t)
        PROVE  OffSure(Len(i2cRx) + 1, j, t, v)
    <3>1. ~keyboard[k].asking.on
      BY <1>6, <2>1 DEF c
    <3> QED
      BY <1>3, <1>4, <1>6, <2>1, <3>1, OffOfKey
  <2>2. OffNew(w)
    BY <2>1 DEF OffNew
  <2> QED
    BY <1>1, <1>2, <1>6, <2>2, OffMore DEF Follow
<1>8. \A i \in Keyboard : InUse(i)' = InUse(i)
  BY <1>1 DEF InUse
<1>9. \A t : NoneOfLn(t)' <=> NoneOfLn(t)
  BY <1>1 DEF NoneOfLn
<1>10. ASSUME NEW i \in Keyboard, NEW d \in InUse(i) PROVE NoneOfLn(d.at)' /\ KeyRecalls(i, d)'
  <2>1. NoneOfLn(d.at) /\ KeyRecalls(i, d)
    BY DEF Follow, KeyInv
  <2>2. w.on /\ TurnoutAddr(w) \div 16 = i => TurnoutAddr(w) = d.at /\ w.value = d.value
    BY <1>4, <1>5, <1>6
  <2> QED
    BY <1>1, <1>2, <1>6, <1>9, <2>1, <2>2, RecallsMore
<1>11. ASSUME ~scenario.respond, NEW i \in Keyboard, NEW d \in InUse(i), d.at \in Turnout
       PROVE  ReplySure(i, d)'
  <2>1. ReplySure(i, d)
    BY <1>11 DEF Follow, ReplyInv
  <2>2. d.at \div 16 = i
    BY KeyOwn
  <2>3. Lights(w, d.at) => w.value = d.value
    BY <1>4, <1>5, <1>6, <2>2 DEF Lights
  <2> QED
    BY <1>1, <1>2, <1>6, <2>1, <2>3, ReplyMore DEF SameTurnout
<1>12. KeyInv' /\ ReplyInv'
  BY <1>1, <1>8, <1>10, <1>11 DEF KeyInv, ReplyInv
<1>13. FrameInv' /\ LampInv'
  BY <1>1, FrameSame
<1> QED
  BY <1>7, <1>12, <1>13 DEF Follow

\* A stop that was given stays given, and the cases left out stay left out.
LEMMA StopLogged ==
  ASSUME LogType, NEW w \in Bus, NEW c \in Command, issued' = Logged(issued, w, c)
  PROVE  (StopIssued => StopIssued') /\ (c.kind = "stop" => StopIssued')
<1>1. issued \in [Bus -> Seq(Command)]
  BY DEF LogType
<1>2. CASE c.kind = "query"
  <2>1. issued' = issued
    BY <1>1, <1>2, LoggedType
  <2> QED
    BY <1>2, <2>1 DEF StopIssued
<1>3. CASE c.kind # "query"
  <2>1. issued'[w] = Append(issued[w], c) /\ \A b \in Bus \ {w} : issued'[b] = issued[b]
    BY <1>3, LogMore
  <2>2. /\ Len(issued[w]) \in Nat /\ Len(issued'[w]) = Len(issued[w]) + 1
        /\ issued'[w][Len(issued[w]) + 1] = c
        /\ \A i \in 1..Len(issued[w]) : issued'[w][i] = issued[w][i]
    BY <1>1, <2>1, QueueAppend
  <2>3. ASSUME c.kind = "stop" PROVE StopIssued'
    <3>1. Len(issued[w]) + 1 \in 1..Len(issued'[w])
      BY <2>2
    <3> QED
      BY <2>2, <2>3, <3>1 DEF StopIssued
  <2>4. ASSUME StopIssued PROVE StopIssued'
    <3>1. PICK b \in Bus : \E i \in 1..Len(issued[b]) : issued[b][i].kind = "stop"
      BY <2>4 DEF StopIssued
    <3>2. PICK i \in 1..Len(issued[b]) : issued[b][i].kind = "stop"
      BY <3>1
    <3>3. i \in 1..Len(issued'[b]) /\ issued'[b][i] = issued[b][i]
      <4>1. CASE b = w
        BY <2>2, <4>1
      <4>2. CASE b # w
        BY <2>1, <4>2
      <4> QED
        BY <4>1, <4>2
    <3> QED
      BY <3>2, <3>3 DEF StopIssued
  <2> QED
    BY <2>3, <2>4
<1> QED
  BY <1>2, <1>3

GoesOn ==
  /\ scenario' = scenario /\ passed \subseteq passed'
  /\ issued' = issued \/ \E w \in Bus, c \in Command : issued' = Logged(issued, w, c)

LEMMA IssuedStep ==
  ASSUME TypeInv, [Next]_vars
  PROVE  GoesOn
<1>1. CASE RoutingTask
  <2>1. scenario' = scenario /\ issued' = issued
    BY <1>1 DEF RoutingTask, Wake, processI2CStopGo, processCAN, processI2CMessages,
                processLocoNet, HandleDummyMessages, NextQueue, userVars, history
  <2>2. passed \subseteq passed'
    BY <1>1 DEF RoutingTask, Wake, processI2CStopGo, processCAN, processI2CMessages,
                processLocoNet, HandleDummyMessages, NextQueue, AsyncSend, history
  <2> QED
    BY <2>1, <2>2 DEF GoesOn
<1>2. CASE DoBlockingSend \/ Central \/ KeyboardReceives \/ UNCHANGED vars
  BY <1>2 DEF DoBlockingSend, Central, KeyboardReceives, vars, userVars, history, GoesOn
<1>3. CASE Users
  <2>1. ASSUME NEW u \in scenario.commands, u.from = "i2c", NEW k \in Keyboard, Press(k, u.cmd)
        PROVE  GoesOn
    <3>1. scenario' = scenario /\ passed \subseteq passed' /\ issued' = Logged(issued, "i2c", u.cmd)
      BY <2>1 DEF Press, Give
    <3> QED
      BY <2>1, <3>1, GivenType, BusNames DEF GoesOn
  <2>2. ASSUME NEW u \in scenario.commands, u.from = "can", CanUser(u.cmd, u.rail) PROVE GoesOn
    <3>1. scenario' = scenario /\ passed \subseteq passed' /\ issued' = Logged(issued, "can", u.cmd)
      BY <2>2 DEF CanUser, Give, Crossing
    <3> QED
      BY <2>2, <3>1, GivenType, BusNames DEF GoesOn
  <2>3. ASSUME NEW u \in scenario.commands, u.from = "ln", LnUser(u.cmd) PROVE GoesOn
    <3>1. scenario' = scenario /\ passed \subseteq passed' /\ issued' = Logged(issued, "ln", u.cmd)
      BY <2>3 DEF LnUser, Give, Crossing
    <3> QED
      BY <2>3, <3>1, GivenType, BusNames DEF GoesOn
  <2>4. ASSUME NEW u \in scenario.commands, u.from = "line", Edge(u.cmd.kind) PROVE GoesOn
    <3>1. scenario' = scenario /\ passed \subseteq passed' /\ issued' = Logged(issued, "line", Power(u.cmd.kind))
      BY <2>4 DEF Edge, Give
    <3>2. Power(u.cmd.kind) \in Command
      BY <2>4, GivenType, PowerType
    <3> QED
      BY <3>1, <3>2, BusNames DEF GoesOn
  <2>5. ASSUME NEW k \in Keyboard, Release(k) PROVE GoesOn
    <3> DEFINE h == keyboard[k].held
               c == [h EXCEPT !.on = FALSE]
    <3>1. /\ h # Nothing /\ scenario' = scenario /\ passed \subseteq passed'
          /\ issued' = Logged(issued, "i2c", c)
      BY <2>5 DEF Release, userVars
    <3>2. h \in KeyCommand
      BY <3>1 DEF TypeInv, Key
    <3> HIDE DEF h
    <3>3. c \in Command
      BY <3>2, ReleasedType DEF KeyCommand
    <3> QED
      BY <3>1, <3>3, BusNames DEF GoesOn
  <2>6. ASSUME NEW k \in Keyboard, Repeat(k) PROVE GoesOn
    <3> DEFINE c == keyboard[k].asking
    <3>1. /\ c # Nothing /\ scenario' = scenario /\ passed \subseteq passed'
          /\ issued' = Logged(issued, "i2c", c)
      BY <2>6 DEF Repeat
    <3>2. c \in Command
      BY <3>1 DEF TypeInv, Key, KeyCommand
    <3> QED
      BY <3>1, <3>2, BusNames DEF GoesOn
  <2>7. ASSUME NEW line \in PowerKinds, CooldownEnds(line) PROVE GoesOn
    BY <2>7 DEF CooldownEnds, userVars, history, GoesOn
  <2> QED
    BY <1>3, <2>1, <2>2, <2>3, <2>4, <2>5, <2>6, <2>7, Zenon DEF Users
<1> QED
  BY <1>1, <1>2, <1>3, Zenon DEF Next

LEMMA CoveredBefore ==
  ASSUME TypeInv, [Next]_vars, Covered'
  PROVE  Covered
<1>1. scenario' = scenario /\ passed \subseteq passed'
  BY IssuedStep DEF GoesOn
<1>2. StopIssued => StopIssued'
  <2>1. CASE issued' = issued
    BY <2>1 DEF StopIssued
  <2>2. ASSUME NEW w \in Bus, NEW c \in Command, issued' = Logged(issued, w, c)
        PROVE  StopIssued => StopIssued'
    BY <2>2, StopLogged DEF TypeInv
  <2> QED
    BY <2>1, <2>2, IssuedStep DEF GoesOn
<1> QED
  BY <1>1, <1>2 DEF Covered

-----------------------------------------------------------------------------
\* Nothing on the way to the central stops it.
LEMMA NoStopKept ==
  ASSUME QueueType, NoStopInv, scenario' = scenario,
         scenario.respond => track' = "go" /\ "stop" \notin request' /\ "stop" \notin seen',
         \/ lnRx' = lnRx \/ (lnRx # <<>> /\ lnRx' = Tail(lnRx))
         \/ \E c \in Command : lnRx' = Append(lnRx, c) /\ (scenario.respond => c.kind # "stop"),
         \/ toCentral' = toCentral \/ (toCentral # <<>> /\ toCentral' = Tail(toCentral))
         \/ \E f \in Frames :
              toCentral' = Append(toCentral, f) /\ (scenario.respond => f.cmd.kind # "stop")
  PROVE  NoStopInv'
<1> SUFFICES ASSUME scenario.respond
             PROVE  /\ \A i \in 1..Len(lnRx') : lnRx'[i].kind # "stop"
                    /\ \A i \in 1..Len(toCentral') : toCentral'[i].cmd.kind # "stop"
  BY DEF NoStopInv
<1>1. /\ \A i \in 1..Len(lnRx) : lnRx[i].kind # "stop"
      /\ \A i \in 1..Len(toCentral) : toCentral[i].cmd.kind # "stop"
      /\ lnRx \in Seq(Command) /\ toCentral \in Seq(Frames)
  BY DEF NoStopInv, QueueType
<1>2. ASSUME NEW i \in 1..Len(lnRx') PROVE lnRx'[i].kind # "stop"
  <2>1. CASE lnRx' = lnRx
    BY <1>1, <1>2, <2>1
  <2>2. CASE lnRx # <<>> /\ lnRx' = Tail(lnRx)
    <3>1. i + 1 \in 1..Len(lnRx) /\ lnRx'[i] = lnRx[i + 1]
      BY <1>1, <1>2, <2>2, QueueTail
    <3> QED
      BY <1>1, <3>1
  <2>3. ASSUME NEW c \in Command, lnRx' = Append(lnRx, c), c.kind # "stop" PROVE lnRx'[i].kind # "stop"
    <3>1. i \in 1..Len(lnRx) \/ i = Len(lnRx) + 1
      BY <1>1, <1>2, <2>3, QueueAppend
    <3>2. i \in 1..Len(lnRx) => lnRx'[i] = lnRx[i]
      BY <1>1, <2>3, QueueAppend
    <3>3. i = Len(lnRx) + 1 => lnRx'[i] = c
      BY <1>1, <2>3, QueueAppend
    <3> QED
      BY <1>1, <2>3, <3>1, <3>2, <3>3
  <2> QED
    BY <2>1, <2>2, <2>3
<1>3. ASSUME NEW i \in 1..Len(toCentral') PROVE toCentral'[i].cmd.kind # "stop"
  <2>1. CASE toCentral' = toCentral
    BY <1>1, <1>3, <2>1
  <2>2. CASE toCentral # <<>> /\ toCentral' = Tail(toCentral)
    <3>1. i + 1 \in 1..Len(toCentral) /\ toCentral'[i] = toCentral[i + 1]
      BY <1>1, <1>3, <2>2, QueueTail
    <3> QED
      BY <1>1, <3>1
  <2>3. ASSUME NEW f \in Frames, toCentral' = Append(toCentral, f), f.cmd.kind # "stop"
        PROVE  toCentral'[i].cmd.kind # "stop"
    <3>1. i \in 1..Len(toCentral) \/ i = Len(toCentral) + 1
      BY <1>1, <1>3, <2>3, QueueAppend
    <3>2. i \in 1..Len(toCentral) => toCentral'[i] = toCentral[i]
      BY <1>1, <2>3, QueueAppend
    <3>3. i = Len(toCentral) + 1 => toCentral'[i] = f
      BY <1>1, <2>3, QueueAppend
    <3> QED
      BY <1>1, <2>3, <3>1, <3>2, <3>3
  <2> QED
    BY <2>1, <2>2, <2>3
<1> QED
  BY <1>2, <1>3

LEMMA NoStopStep ==
  ASSUME TypeInv, NoStopInv, Covered', [Next]_vars
  PROVE  NoStopInv'
<1>1. QueueType
  BY DEF TypeInv
<1>2. scenario' = scenario
  BY IssuedStep DEF GoesOn
<1>3. scenario.respond => ~StopIssued'
  BY <1>2 DEF Covered
<1>4. CASE UNCHANGED <<track, request, seen, toCentral, lnRx>>
  BY <1>1, <1>2, <1>4, NoStopKept DEF NoStopInv
<1>5. CASE Wake
  BY <1>1, <1>2, <1>5, NoStopKept DEF Wake, NoStopInv, lineVars, canVars, lnVars
<1>6. CASE processI2CStopGo
  <2> DEFINE f == Frame(MakeRR32CanPowerMsg, "none", FALSE, "line")
  <2>1. /\ request' = {} /\ seen' = {} /\ UNCHANGED <<track, lnRx>>
        /\ toCentral' = toCentral \/ toCentral' = Append(toCentral, f)
    BY <1>6 DEF processI2CStopGo, SendPacket
  <2>2. f \in Frames
    BY PowerType DEF MakeRR32CanPowerMsg, Frame, Frames, Rails, Bus, PowerKinds
  <2>3. scenario.respond => f.cmd.kind # "stop"
    BY DEF NoStopInv, MakeRR32CanPowerMsg, Frame, Power
  <2> HIDE DEF f
  <2> QED
    BY <1>1, <1>2, <2>1, <2>2, <2>3, NoStopKept DEF NoStopInv
<1>7. CASE processI2CMessages
  <2> DEFINE f == MakeRR32CanMsg(Head(i2cRx))
  <2>1. UNCHANGED <<track, request, seen, lnRx>>
    BY <1>7 DEF processI2CMessages, lineVars
  <2>2. /\ last \in [at : Nat, value : Value] /\ Head(i2cRx) \in Message
        /\ toCentral' = Append(toCentral, f)
    BY <1>7, I2cEffect
  <2>3. f \in Frames /\ f.cmd.kind # "stop"
    BY <2>2, CanMsgType
  <2> HIDE DEF f
  <2> QED
    BY <1>1, <1>2, <2>1, <2>2, <2>3, NoStopKept DEF NoStopInv
<1>8. CASE processLocoNet
  <2> DEFINE c == Head(lnRx)
             f == FromLn(c)
  <2>1. /\ lnRx # <<>> /\ lnRx' = Tail(lnRx) /\ toCentral' = Append(toCentral, f)
        /\ UNCHANGED <<track, request, seen>>
    BY <1>8 DEF processLocoNet, SendPacket, lineVars
  <2>2. c \in Command /\ c = lnRx[1] /\ 1 \in 1..Len(lnRx)
    BY <1>1, <2>1 DEF QueueType
  <2>3. f \in Frames /\ f.cmd = c
    BY <2>2, FromLnType
  <2>4. scenario.respond => f.cmd.kind # "stop"
    BY <2>2, <2>3 DEF NoStopInv
  <2> HIDE DEF c, f
  <2> QED
    BY <1>1, <1>2, <2>1, <2>3, <2>4, NoStopKept DEF NoStopInv
<1>9. CASE HandleDummyMessages
  <2>1. lnRx # <<>> /\ lnRx' = Tail(lnRx) /\ UNCHANGED <<track, request, seen, toCentral>>
    BY <1>9 DEF HandleDummyMessages, lineVars, canVars
  <2> QED
    BY <1>1, <1>2, <2>1, NoStopKept DEF NoStopInv
<1>10. CASE Central
  <2> DEFINE c == Head(toCentral).cmd
  <2>1. /\ toCentral # <<>> /\ toCentral' = Tail(toCentral) /\ UNCHANGED <<request, seen, lnRx>>
        /\ track' = IF c.kind \in PowerKinds THEN c.kind ELSE track
    BY <1>10 DEF Central, lineVars, lnVars
  <2>2. c = toCentral[1].cmd /\ 1 \in 1..Len(toCentral)
    BY <1>1, <2>1 DEF QueueType
  <2>3. scenario.respond => track' = "go"
    BY <2>1, <2>2 DEF NoStopInv, PowerKinds
  <2> QED
    BY <1>1, <1>2, <2>1, <2>3, NoStopKept DEF NoStopInv
<1>11. ASSUME NEW u \in scenario.commands, u.from = "can", CanUser(u.cmd, u.rail) PROVE NoStopInv'
  <2> DEFINE c == u.cmd
             f == Frame(c, u.rail, c.kind = "sensor", "can")
  <2>1. /\ toCentral' = Append(toCentral, f) /\ issued' = Logged(issued, "can", c)
        /\ UNCHANGED <<track, request, seen, lnRx>>
    BY <1>11 DEF CanUser, Give, lineVars, lnVars
  <2>2. c \in Command /\ u.rail \in Rails
    BY <1>11, GivenType
  <2> HIDE DEF c
  <2>3. c.kind = "stop" => StopIssued'
    BY <2>1, <2>2, StopLogged, BusNames DEF TypeInv
  <2>4. f \in Frames /\ f.cmd = c
    BY <2>2, CanFrameType DEF Frame
  <2> HIDE DEF f
  <2> QED
    BY <1>1, <1>2, <1>3, <2>1, <2>3, <2>4, NoStopKept DEF NoStopInv
<1>12. ASSUME NEW u \in scenario.commands, u.from = "ln", LnUser(u.cmd) PROVE NoStopInv'
  <2> DEFINE c == u.cmd
  <2>1. /\ lnRx' = Append(lnRx, c) /\ issued' = Logged(issued, "ln", c)
        /\ UNCHANGED <<track, request, seen, toCentral>>
    BY <1>12 DEF LnUser, Give, lineVars, canVars
  <2>2. c \in Command
    BY <1>12, GivenType
  <2> HIDE DEF c
  <2>3. c.kind = "stop" => StopIssued'
    BY <2>1, <2>2, StopLogged, BusNames DEF TypeInv
  <2> QED
    BY <1>1, <1>2, <1>3, <2>1, <2>2, <2>3, NoStopKept DEF NoStopInv
<1>13. ASSUME NEW line \in PowerKinds, Edge(line) PROVE NoStopInv'
  <2>1. /\ request' = request \cup {line} /\ issued' = Logged(issued, "line", Power(line))
        /\ UNCHANGED <<track, seen, toCentral, lnRx>>
    BY <1>13 DEF Edge, Give, canVars, lnVars
  <2>2. line = "stop" => StopIssued'
    BY <1>13, <2>1, PowerType, StopLogged, BusNames DEF TypeInv, Power
  <2>3. scenario.respond => "stop" \notin request'
    BY <1>3, <2>1, <2>2 DEF NoStopInv
  <2> QED
    BY <1>1, <1>2, <2>1, <2>3, NoStopKept DEF NoStopInv
<1>14. CASE processCAN \/ NextQueue \/ DoBlockingSend \/ KeyboardReceives \/ UNCHANGED vars
  BY <1>4, <1>14 DEF processCAN, NextQueue, DoBlockingSend, KeyboardReceives, vars, taskVars,
                     lineVars, canVars, lnVars
<1>15. CASE Users
  <2>1. ASSUME NEW k \in Keyboard, NEW u, Press(k, u.cmd) PROVE NoStopInv'
    BY <1>4, <2>1 DEF Press, Give, lineVars, canVars, lnVars
  <2>2. ASSUME NEW k \in Keyboard, Release(k) \/ Repeat(k) PROVE NoStopInv'
    BY <1>4, <2>2 DEF Release, Repeat, lineVars, canVars, lnVars
  <2>3. ASSUME NEW line \in PowerKinds, CooldownEnds(line) PROVE NoStopInv'
    BY <1>4, <2>3 DEF CooldownEnds, taskVars, canVars, lnVars
  <2>4. ASSUME NEW u \in scenario.commands, u.from = "line", Edge(u.cmd.kind) PROVE NoStopInv'
    <3>1. u.cmd.kind \in PowerKinds
      BY <2>4, GivenType
    <3> QED
      BY <2>4, <3>1, <1>13
  <2> QED
    BY <1>11, <1>12, <1>15, <2>1, <2>2, <2>3, <2>4, Zenon DEF Users
<1> QED
  BY <1>5, <1>6, <1>7, <1>8, <1>9, <1>10, <1>14, <1>15, Zenon DEF Next, RoutingTask

-----------------------------------------------------------------------------
\* The keys, and what the keyboards show.
LEMMA FormKept ==
  ASSUME FormInv, UNCHANGED <<keyboard, i2cTx, lamp, position, last, lnRx>>
  PROVE  FormInv'
BY DEF FormInv, KeyForm, LampType, LnOn

LEMMA LnOnTail ==
  ASSUME QueueType, LnOn, lnRx # <<>>, lnRx' = Tail(lnRx)
  PROVE  LnOn'
<1>1. lnRx \in Seq(Command)
  BY DEF QueueType
<1> SUFFICES ASSUME NEW i \in 1..Len(lnRx'), lnRx'[i].kind = "turnout" PROVE lnRx'[i].on
  BY DEF LnOn
<1>2. i + 1 \in 1..Len(lnRx) /\ lnRx'[i] = lnRx[i + 1]
  BY <1>1, QueueTail
<1> QED
  BY <1>2 DEF LnOn

LEMMA FormRouting ==
  ASSUME TypeInv, FormInv, RoutingTask
  PROVE  FormInv'
<1>1. QueueType /\ last \in [at : Nat, value : Value]
  BY DEF TypeInv
<1>2. KeyForm /\ LampType /\ LnOn /\ i2cTx \in Seq(Message)
  BY DEF FormInv, LampType
<1>3. KeyForm'
  <2>1. keyboard' = keyboard
    BY DEF RoutingTask, Wake, processI2CStopGo, processCAN, processI2CMessages, processLocoNet,
           HandleDummyMessages, NextQueue, i2cVars
  <2> QED
    BY <1>2, <2>1 DEF KeyForm
<1>4. ASSUME NEW f \in Frames, i2cTx' = i2cTx \o forwardToI2C(f), UNCHANGED <<lamp, position, last>>
      PROVE  LampType'
  <2>1. forwardToI2C(f) = <<>> \/ \E w \in Message : forwardToI2C(f) = <<w>>
    BY ForwardMade
  <2>2. i2cTx' \in Seq(Message)
    <3>1. CASE forwardToI2C(f) = <<>>
      BY <1>2, <1>4, <3>1
    <3>2. ASSUME NEW w \in Message, forwardToI2C(f) = <<w>> PROVE i2cTx' \in Seq(Message)
      BY <1>2, <1>4, <3>2, ConcatOne, QueueAppend
    <3> QED
      BY <2>1, <3>1, <3>2
  <2> QED
    BY <1>2, <1>4, <2>2 DEF LampType
<1>5. CASE Wake \/ NextQueue \/ processI2CStopGo
  <2>1. UNCHANGED <<keyboard, i2cTx, lamp, position, last, lnRx>>
    BY <1>5 DEF Wake, NextQueue, processI2CStopGo, i2cVars, canVars, lnVars
  <2> QED
    BY <2>1, FormKept
<1>6. CASE HandleDummyMessages
  <2>1. lnRx # <<>> /\ lnRx' = Tail(lnRx) /\ UNCHANGED <<i2cTx, lamp, position, last>>
    BY <1>6 DEF HandleDummyMessages, i2cVars, canVars
  <2> QED
    BY <1>1, <1>2, <1>3, <2>1, LnOnTail DEF FormInv, LampType
<1>7. CASE processCAN
  <2>1. /\ canRx # <<>> /\ i2cTx' = i2cTx \o forwardToI2C(Head(canRx))
        /\ UNCHANGED <<lamp, position, last, lnRx>>
    BY <1>7 DEF processCAN
  <2>2. Head(canRx) \in Frames
    BY <1>1, <2>1, QueueTail DEF QueueType
  <2>3. LnOn'
    BY <1>2, <2>1 DEF LnOn
  <2> QED
    BY <1>3, <1>4, <2>1, <2>2, <2>3 DEF FormInv
<1>8. CASE processLocoNet
  <2>1. /\ lnRx # <<>> /\ lnRx' = Tail(lnRx) /\ i2cTx' = i2cTx \o forwardToI2C(FromLn(Head(lnRx)))
        /\ UNCHANGED <<lamp, position, last>>
    BY <1>8 DEF processLocoNet
  <2>2. FromLn(Head(lnRx)) \in Frames
    BY <1>1, <2>1, QueueTail, FromLnType DEF QueueType
  <2> QED
    BY <1>1, <1>2, <1>3, <1>4, <2>1, <2>2, LnOnTail DEF FormInv
<1>9. CASE processI2CMessages
  <2> DEFINE m == Head(i2cRx)
  <2>1. /\ i2cTx' = i2cTx \o ownResponse(m) /\ m \in Message
        /\ last' = IF m.on THEN [at |-> TurnoutAddr(m), value |-> m.value] ELSE last
    BY <1>9, I2cEffect
  <2>2. UNCHANGED <<lamp, position, lnRx>>
    BY <1>9 DEF processI2CMessages
  <2> HIDE DEF m
  <2>3. TurnoutAddr(m) \in 0..255 /\ TurnoutAddr(m) \in Nat /\ m.value \in Value /\ m.on \in BOOLEAN
    BY <2>1, MessageAddress
  <2>4. i2cTx' \in Seq(Message)
    <3> DEFINE w == makeMsg(TurnoutAddr(m), m.value, m.on)
    <3>1. w \in Message
      BY <2>3, MessageMade
    <3>2. ownResponse(m) = <<w>> \/ ownResponse(m) = <<>>
      BY Zenon DEF ownResponse
    <3> HIDE DEF w
    <3>3. CASE ownResponse(m) = <<w>>
      BY <1>2, <2>1, <3>1, <3>3, ConcatOne, QueueAppend
    <3>4. CASE ownResponse(m) = <<>>
      BY <1>2, <2>1, <3>4
    <3> QED
      BY <3>2, <3>3, <3>4
  <2>5. last'.at <= 255
    <3>1. CASE m.on
      <4>1. last'.at = TurnoutAddr(m)
        BY <2>1, <3>1
      <4>2. \A a \in 0..255 : a <= 255
        OBVIOUS
      <4> QED
        BY <2>3, <4>1, <4>2, Zenon
    <3>2. CASE ~m.on
      BY <1>2, <2>1, <3>2 DEF LampType
    <3> QED
      BY <3>1, <3>2
  <2> QED
    BY <1>2, <1>3, <2>2, <2>4, <2>5 DEF FormInv, LampType, LnOn
<1> QED
  BY <1>5, <1>6, <1>7, <1>8, <1>9 DEF RoutingTask

LEMMA FormDevices ==
  ASSUME TypeInv, FormInv, DoBlockingSend \/ Central \/ KeyboardReceives
  PROVE  FormInv'
<1>1. KeyForm /\ LampType /\ LnOn
  BY DEF FormInv
<1>2. CASE DoBlockingSend
  BY <1>2, FormKept DEF DoBlockingSend, taskVars, i2cVars, canVars
<1>3. CASE Central
  <2> DEFINE c == Head(toCentral).cmd
  <2>1. /\ toCentral # <<>> /\ UNCHANGED <<keyboard, i2cTx, lamp, last, lnRx>>
        /\ position' = position \/ (c.at \in Turnout /\ position' = [position EXCEPT ![c.at] = c.value])
    BY <1>3 DEF Central, i2cVars, lnVars
  <2>2. c.value \in Value
    <3>1. toCentral \in Seq(Frames)
      BY DEF TypeInv, QueueType
    <3>2. Head(toCentral) \in Frames
      BY <2>1, <3>1, QueueTail
    <3>3. c \in Command
      BY <3>2 DEF Frames
    <3> QED
      BY <3>3 DEF Command, Value
  <2> HIDE DEF c
  <2>3. position' \in [Turnout -> Value]
    BY <1>1, <2>1, <2>2 DEF LampType
  <2> QED
    BY <1>1, <2>1, <2>3 DEF FormInv, KeyForm, LampType, LnOn
<1>4. CASE KeyboardReceives
  <2> DEFINE m == Head(i2cTx)
             e == m.keyboard
  <2>1. /\ i2cTx # <<>> /\ i2cTx' = Tail(i2cTx) /\ UNCHANGED <<position, last, lnRx>>
        /\ lamp' = lamp \/ (TurnoutAddr(m) \in Turnout /\ lamp' = [lamp EXCEPT ![TurnoutAddr(m)] = m.value])
        /\ keyboard' = keyboard \/ (e \in Keyboard /\ keyboard' = [keyboard EXCEPT ![e].asking = Nothing])
    BY <1>4, Zenon DEF KeyboardReceives, taskVars, canVars, lnVars
  <2>2. m \in Message /\ i2cTx' \in Seq(Message)
    BY <1>1, <2>1, QueueTail DEF LampType
  <2> HIDE DEF m, e
  <2>3. m.value \in Value
    BY <2>2, MessageAddress
  <2>4. lamp' \in [Shown -> Value]
    BY <1>1, <2>1, <2>3 DEF LampType
  <2>5. KeyForm'
    <3>1. CASE keyboard' = keyboard
      BY <1>1, <3>1 DEF KeyForm
    <3>2. CASE e \in Keyboard /\ keyboard' = [keyboard EXCEPT ![e].asking = Nothing]
      <4>1. keyboard \in [Keyboard -> Key]
        BY DEF TypeInv
      <4> SUFFICES ASSUME NEW k \in Keyboard
                   PROVE  /\ keyboard'[k].held # Nothing =>
                               /\ keyboard'[k].held.on /\ keyboard'[k].held.at \div 16 = k
                               /\ keyboard'[k].asking \in {keyboard'[k].held, Nothing}
                          /\ keyboard'[k].held = Nothing /\ keyboard'[k].asking # Nothing =>
                               ~keyboard'[k].asking.on /\ keyboard'[k].asking.at \div 16 = k
        BY DEF KeyForm
      <4>2. /\ keyboard'[k].held = keyboard[k].held
            /\ keyboard'[k].asking \in {keyboard[k].asking, Nothing}
        BY <3>2, <4>1 DEF Key
      <4> QED
        BY <1>1, <4>2 DEF KeyForm
    <3> QED
      BY <2>1, <3>1, <3>2
  <2> QED
    BY <1>1, <2>1, <2>2, <2>4, <2>5 DEF FormInv, LampType, LnOn
<1> QED
  BY <1>2, <1>3, <1>4

LEMMA FormUsers ==
  ASSUME TypeInv, FormInv, UsersSwitchOn, Users
  PROVE  FormInv'
<1>1. KeyForm /\ LampType /\ LnOn /\ keyboard \in [Keyboard -> Key] /\ QueueType
  BY DEF FormInv, TypeInv
<1>2. ASSUME UNCHANGED <<i2cTx, lamp, position, last, lnRx>>, NEW k \in Keyboard, NEW h, NEW a,
             keyboard' = [keyboard EXCEPT ![k] = [held |-> h, asking |-> a]],
             h # Nothing => h.on /\ h.at \div 16 = k /\ a \in {h, Nothing},
             h = Nothing /\ a # Nothing => ~a.on /\ a.at \div 16 = k
      PROVE  FormInv'
  <2> SUFFICES ASSUME NEW e \in Keyboard
               PROVE  /\ keyboard'[e].held # Nothing =>
                           /\ keyboard'[e].held.on /\ keyboard'[e].held.at \div 16 = e
                           /\ keyboard'[e].asking \in {keyboard'[e].held, Nothing}
                      /\ keyboard'[e].held = Nothing /\ keyboard'[e].asking # Nothing =>
                           ~keyboard'[e].asking.on /\ keyboard'[e].asking.at \div 16 = e
    BY <1>1, <1>2 DEF FormInv, KeyForm, LampType, LnOn
  <2>1. CASE e = k
    <3>1. keyboard'[e].held = h /\ keyboard'[e].asking = a
      BY <1>1, <1>2, <2>1
    <3> QED
      BY <1>2, <2>1, <3>1
  <2>2. CASE e # k
    <3>1. keyboard'[e] = keyboard[e]
      BY <1>1, <1>2, <2>2
    <3> QED
      BY <1>1, <3>1 DEF KeyForm
  <2> QED
    BY <2>1, <2>2
<1>3. ASSUME NEW u \in scenario.commands, u.from = "i2c", NEW k \in Keyboard, Press(k, u.cmd)
      PROVE  FormInv'
  <2> DEFINE c == u.cmd
  <2>1. c.at \div 16 = k /\ c.on
    BY <1>3, GivenType DEF Press
  <2>2. /\ UNCHANGED <<i2cTx, lamp, position, last, lnRx>>
        /\ keyboard' = [keyboard EXCEPT ![k] = [held |-> c, asking |-> c]]
    BY <1>3 DEF Press, canVars, lnVars
  <2>3. c # Nothing
    BY <2>1 DEF Nothing
  <2> HIDE DEF c
  <2> QED
    BY <1>2, <2>1, <2>2, <2>3
<1>4. ASSUME NEW k \in Keyboard, Release(k) PROVE FormInv'
  <2> DEFINE h == keyboard[k].held
             c == [h EXCEPT !.on = FALSE]
  <2>1. /\ h # Nothing /\ UNCHANGED <<i2cTx, lamp, position, last, lnRx>>
        /\ keyboard' = [keyboard EXCEPT ![k] = [held |-> Nothing, asking |-> c]]
    BY <1>4 DEF Release, canVars, lnVars
  <2>2. h \in KeyCommand /\ h.at \div 16 = k
    BY <1>1, <2>1 DEF Key, KeyForm
  <2> HIDE DEF h
  <2>3. ~c.on /\ c.at \div 16 = k
    BY <2>2, ReleasedType DEF Switch
  <2> HIDE DEF c
  <2> QED
    BY <1>2, <2>1, <2>3
<1>5. ASSUME UNCHANGED <<keyboard, i2cTx, lamp, position, last, lnRx>> PROVE FormInv'
  BY <1>5, FormKept
<1>6. ASSUME NEW k \in Keyboard, Repeat(k) PROVE FormInv'
  BY <1>5, <1>6 DEF Repeat, canVars, lnVars
<1>7. ASSUME NEW u, CanUser(u.cmd, u.rail) PROVE FormInv'
  BY <1>5, <1>7 DEF CanUser, i2cVars, lnVars
<1>8. ASSUME NEW u, Edge(u.cmd.kind) PROVE FormInv'
  BY <1>5, <1>8 DEF Edge, i2cVars, canVars, lnVars
<1>9. ASSUME NEW line \in PowerKinds, CooldownEnds(line) PROVE FormInv'
  BY <1>5, <1>9 DEF CooldownEnds, taskVars, i2cVars, canVars, lnVars
<1>10. ASSUME NEW u \in scenario.commands, u.from = "ln", LnUser(u.cmd) PROVE FormInv'
  <2> DEFINE c == u.cmd
  <2>1. c \in Command /\ (c.kind = "turnout" => c.on)
    BY <1>10, GivenType DEF TypeInv, UsersSwitchOn
  <2>2. lnRx' = Append(lnRx, c) /\ UNCHANGED <<keyboard, i2cTx, lamp, position, last>>
    BY <1>10 DEF LnUser, i2cVars, canVars
  <2> HIDE DEF c
  <2>3. ASSUME NEW i \in 1..Len(lnRx'), lnRx'[i].kind = "turnout" PROVE lnRx'[i].on
    <3>1. lnRx \in Seq(Command)
      BY <1>1 DEF QueueType
    <3>2. i \in 1..Len(lnRx) \/ i = Len(lnRx) + 1
      BY <2>1, <2>2, <2>3, <3>1, QueueAppend
    <3>3. i \in 1..Len(lnRx) => lnRx'[i] = lnRx[i]
      BY <2>1, <2>2, <3>1, QueueAppend
    <3>4. i = Len(lnRx) + 1 => lnRx'[i] = c
      BY <2>1, <2>2, <3>1, QueueAppend
    <3> QED
      BY <1>1, <2>1, <2>3, <3>2, <3>3, <3>4 DEF LnOn
  <2> QED
    BY <1>1, <2>2, <2>3 DEF FormInv, KeyForm, LampType, LnOn
<1> QED
  BY <1>3, <1>4, <1>6, <1>7, <1>8, <1>9, <1>10, Zenon DEF Users

LEMMA FormStep ==
  ASSUME TypeInv, FormInv, UsersSwitchOn, [Next]_vars
  PROVE  FormInv'
<1>1. CASE UNCHANGED vars
  BY <1>1, FormKept DEF vars, taskVars, i2cVars, canVars, lnVars
<1> QED
  BY <1>1, FormRouting, FormDevices, FormUsers, Zenon DEF Next

-----------------------------------------------------------------------------
LEMMA LampsInit ==
  ASSUME Init, UsersSwitchOn
  PROVE  FormInv /\ LampsInv
<1>1. /\ keyboard = [k \in Keyboard |-> [held |-> Nothing, asking |-> Nothing]]
      /\ i2cRx = <<>> /\ i2cTx = <<>> /\ canRx = <<>> /\ toCentral = <<>> /\ lnRx = <<>>
      /\ lamp = [t \in Shown |-> "red"] /\ position = [t \in Turnout |-> "red"]
      /\ last = [at |-> 0, value |-> "red"] /\ request = {} /\ seen = {}
      /\ scenario \in Scenarios /\ track = scenario.track
  BY DEF Init, Shown
<1>2. Len(i2cRx) = 0 /\ Len(i2cTx) = 0 /\ Len(canRx) = 0 /\ Len(toCentral) = 0 /\ Len(lnRx) = 0
  BY <1>1
<1>3. \A q : Len(q) = 0 => 1..Len(q) = {}
  OBVIOUS
<1>4. FormInv
  <2>1. KeyForm
    BY <1>1 DEF KeyForm
  <2>2. LampType
    <3>1. i2cTx \in Seq(Message) /\ "red" \in Value
      BY <1>1 DEF Value
    <3> QED
      BY <1>1, <3>1 DEF LampType
  <2>3. LnOn
    BY <1>2 DEF LnOn
  <2> QED
    BY <2>1, <2>2, <2>3 DEF FormInv
<1>5. NoStopInv
  BY <1>1, <1>2 DEF NoStopInv, UsersSwitchOn
<1>6. FrameInv /\ OffInv
  BY <1>2 DEF FrameInv, OffInv
<1>7. KeyInv /\ ReplyInv
  <2>1. \A k \in Keyboard : InUse(k) = {}
    BY <1>1 DEF InUse
  <2> QED
    BY <2>1 DEF KeyInv, ReplyInv
<1>8. LampInv
  <2> SUFFICES ASSUME NEW t \in Shown
               PROVE  \E b \in Value :
                        /\ Final(LitBy(i2cTx, t), Len(i2cTx), lamp[t], b)
                        /\ Pends(t) \/ Final(AnsweredBy(canRx, t), Len(canRx), b, position[t])
    BY DEF LampInv
  <2>1. lamp[t] = "red" /\ position[t] = "red" /\ "red" \in Value
    BY <1>1 DEF Shown, Value
  <2> QED
    BY <1>2, <2>1, FinalNone
<1> QED
  BY <1>4, <1>5, <1>6, <1>7, <1>8 DEF LampsInv, Follow

\* Steps that touch none of what the lamps depend on.
LEMMA LampsIdle ==
  ASSUME TypeInv, Follow,
         \/ Wake \/ NextQueue \/ HandleDummyMessages \/ DoBlockingSend \/ UNCHANGED vars
         \/ \E line \in PowerKinds : CooldownEnds(line) \/ Edge(line)
  PROVE  Follow'
<1>1. /\ UNCHANGED <<toCentral, position, scenario, i2cRx, last, keyboard, canRx, i2cTx, lamp>>
      /\ lnRx' = lnRx \/ (lnRx # <<>> /\ lnRx' = Tail(lnRx))
  BY DEF Wake, NextQueue, HandleDummyMessages, DoBlockingSend, CooldownEnds, Edge, Give, vars,
         taskVars, i2cVars, canVars, lnVars, userVars
<1>2. \A t : NoneOfLn(t) => NoneOfLn(t)'
  <2>1. CASE lnRx' = lnRx
    BY <2>1 DEF NoneOfLn
  <2>2. CASE lnRx # <<>> /\ lnRx' = Tail(lnRx)
    BY <2>2, NoneTail DEF TypeInv, QueueType
  <2> QED
    BY <1>1, <2>1, <2>2
<1> QED
  BY <1>1, <1>2, LampsAside

LEMMA LampsI2C ==
  ASSUME TypeInv, FormInv, UsersSwitchOn, Follow, processI2CMessages
  PROVE  Follow'
<1>1. LampType
  BY DEF FormInv
<1> QED
  BY <1>1, I2cFrames, I2cKeys, I2cLamp DEF Follow

LEMMA FollowStep ==
  ASSUME TypeInv, FormInv, NoStopInv, Follow, UsersSwitchOn, Covered', [Next]_vars, [ClearPress]_vars
  PROVE  Follow'
<1>1. CASE RoutingTask
  BY <1>1, LampsIdle, LampsStopGo, LampsCAN, LampsI2C, LampsLocoNet, Zenon DEF RoutingTask
<1>2. CASE DoBlockingSend \/ Central \/ KeyboardReceives \/ UNCHANGED vars
  BY <1>2, LampsIdle, LampsCentral, LampsAnswer, Zenon
<1>3. CASE Users
  <2>1. ASSUME NEW u \in scenario.commands, u.from = "i2c", NEW k \in Keyboard, Press(k, u.cmd)
        PROVE  Follow'
    <3>1. CASE ClearPress
      BY <2>1, <3>1, LampsPress
    <3>2. CASE UNCHANGED vars
      BY <3>2, LampsIdle
    <3> QED
      BY <3>1, <3>2
  <2>2. ASSUME NEW u \in scenario.commands, u.from = "line", Edge(u.cmd.kind) PROVE Follow'
    <3>1. u.cmd.kind \in PowerKinds
      BY <2>2, GivenType
    <3> QED
      BY <2>2, <3>1, LampsIdle, Zenon
  <2>3. ASSUME NEW u \in scenario.commands, u.from = "can", CanUser(u.cmd, u.rail) PROVE Follow'
    BY <2>3, LampsCanUser
  <2>4. ASSUME NEW u, LnUser(u.cmd) PROVE Follow'
    BY <2>4, LampsLnUser
  <2> QED
    BY <1>3, <2>1, <2>2, <2>3, <2>4, LampsRelease, LampsRepeat, LampsIdle, Zenon DEF Users
<1> QED
  BY <1>1, <1>2, <1>3, Zenon DEF Next

LEMMA LampsStep ==
  ASSUME TypeInv, FormInv, LampsInv, UsersSwitchOn, [Next]_vars, [ClearPress]_vars
  PROVE  FormInv' /\ LampsInv'
<1>1. FormInv'
  BY FormStep
<1>2. ASSUME Covered' PROVE NoStopInv' /\ Follow'
  <2>1. NoStopInv /\ Follow
    BY <1>2, CoveredBefore DEF LampsInv
  <2>2. NoStopInv'
    BY <1>2, <2>1, NoStopStep
  <2>3. Follow'
    BY <1>2, <2>1, FollowStep
  <2> QED
    BY <2>2, <2>3
<1> QED
  BY <1>1, <1>2 DEF LampsInv

\* The lamps show what the central has set (GeneralOperation.md: the control messages are
\* forwarded between all buses): once all is quiet each lamp shows the position
\* of its turnout, for every number of keyboards, commands and repetitions.  On two
\* conditions: only keys switch a turnout off, and a key is pressed while no
\* switch-on of its turnout is under way, unless the gateway answers itself
\* (sendI2CResponseIfEnabled()).
THEOREM LampsAgree ==
  ASSUME UsersSwitchOn
  PROVE  Spec /\ [][ClearPress]_vars => []LampsFollow
<1>1. Init => TypeInv /\ FormInv /\ LampsInv
  BY TypeInit, LampsInit
<1>2. TypeInv /\ FormInv /\ LampsInv /\ [Next]_vars /\ [ClearPress]_vars
        => TypeInv' /\ FormInv' /\ LampsInv'
  BY TypeStep, LampsStep
<1>3. TypeInv /\ FormInv /\ LampsInv => LampsFollow
  <2> SUFFICES ASSUME TypeInv, FormInv, LampsInv, Rest, "crossed" \notin passed,
                      scenario.respond => ~Stopped, NEW t \in DOMAIN lamp
               PROVE  lamp[t] = position[t]
    BY DEF LampsFollow
  <2>1. t \in Shown
    BY DEF FormInv, LampType
  <2>2. Covered
    <3>1. DOMAIN issued = Bus
      BY DEF TypeInv, LogType
    <3> QED
      BY <3>1 DEF Covered, Stopped, StopIssued
  <2>3. LampInv
    BY <2>2 DEF LampsInv, Follow
  <2>4. PICK b \in Value :
          /\ Final(LitBy(i2cTx, t), Len(i2cTx), lamp[t], b)
          /\ Pends(t) \/ Final(AnsweredBy(canRx, t), Len(canRx), b, position[t])
    BY <2>1, <2>3 DEF LampInv
  <2>5. Len(i2cTx) = 0 /\ Len(canRx) = 0 /\ Len(toCentral) = 0
    BY DEF Rest
  <2>6. ~Pends(t)
    BY <2>5 DEF Pends
  <2> QED
    BY <2>4, <2>5, <2>6, FinalNone
<1> QED
  BY <1>1, <1>2, <1>3, PTL DEF Spec
=============================================================================
