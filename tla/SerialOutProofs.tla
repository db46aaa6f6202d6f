--------------------------- MODULE SerialOutProofs ---------------------------
(***************************************************************************)
(* Proofs about SerialOut, for a ring of any size, any texts and any       *)
(* number of writes: the DMA has one owner, and nothing stays in the ring  *)
(* that nobody will send.  Nothing is used about the kernel and the mutex  *)
(* for these two: they hold whichever task runs, and with the mutex left   *)
(* out.  The mutex itself, and the priority that its holder inherits, need *)
(* what KernelProofs says of the kernel's functions.  That the bytes go    *)
(* out in order needs all of it.                                           *)
(***************************************************************************)
EXTENDS SerialOut, KernelProofs, FiniteSetTheorems, TLAPS

Place ==
  {"idle", "wait", "lock", "block", "allocate", "publish", "unlock", "start", "claim",
   "peek", "release", "configure", "enable"}
Owning == {"peek", "release", "configure", "enable"}

Writer == [at : Place, left : Int, used : Int, len : Int, took : Int, rest : BOOLEAN]
Dma    == [on : BOOLEAN, requests : BOOLEAN, at : Int, left : Nat, done : BOOLEAN]

TypeInv ==
  /\ writer \in [Task -> Writer]
  /\ dma \in Dma
  /\ serialDmaMemory_ \in [at : Int, len : Int]
  /\ head \in Int /\ tail \in Int
  /\ size \in Nat \ {0}
  /\ busy \in BOOLEAN

Sending == dma.on /\ dma.requests

\* The same task or transfer owns the DMA all the time, and the flag tells.
OwnerInv ==
  /\ busy => \/ Sending /\ Owners = {}
             \/ ~Sending /\ \E t \in Task : Owners = {t}
  /\ ~busy => ~Sending /\ Owners = {}

\* What the owner relies on: a range that is not empty, a channel that it has
\* enabled, and an end only of a transfer.
RangeInv ==
  /\ head >= tail
  /\ \A t \in Task :
       /\ writer[t].at = "publish" => writer[t].len > 0
       /\ writer[t].at = "configure" => serialDmaMemory_.len > 0
       /\ writer[t].at = "enable" => dma.on
  /\ dma.on => dma.left > 0 \/ dma.done
  /\ dma.done => Sending

IInv == TypeInv /\ OwnerInv /\ RangeInv /\ NothingLeftBehind

-----------------------------------------------------------------------------
(***************************************************************************)
(* Helpers.                                                                *)
(***************************************************************************)
\* The bytes of a text are counted by integers.
LEMMA ExpandedType ==
  ASSUME NEW t \in Task, NEW n \in Int
  PROVE  Expanded(t, n) \in Int
<1>1. IsFiniteSet(1..n)
  BY FS_Interval
<1>2. IsFiniteSet({i \in 1..n : Text[t][i]})
  BY <1>1, FS_Subset
<1>3. Cardinality({i \in 1..n : Text[t][i]}) \in Nat
  BY <1>2, FS_CardinalityType
<1> QED
  BY <1>3 DEF Expanded

\* A range of the ring that starts before the head is not empty.
LEMMA PeekRange ==
  ASSUME NEW from \in Int, head \in Int, size \in Nat \ {0}
  PROVE  /\ peek(from) \in [at : Int, len : Int]
         /\ peek(from).at = from
         /\ head > from => peek(from).len > 0
<1>1. from % size \in 0..(size - 1)
  OBVIOUS
<1>2. Contiguous(from) \in Int /\ Contiguous(from) > 0
  BY <1>1 DEF Contiguous
<1>3. head - from \in Int
  OBVIOUS
<1> QED
  BY <1>2, <1>3 DEF peek, Smaller

\* A task goes on, and the others stay where they are.
Moves(t) ==
  /\ writer' \in [Task -> Writer]
  /\ \A u \in Task \ {t} : writer'[u] = writer[u]

LEMMA MovesTo ==
  ASSUME NEW t \in Task, TypeInv, NEW w \in Writer, writer' = [writer EXCEPT ![t] = w]
  PROVE  Moves(t) /\ writer'[t] = w
BY DEF TypeInv, Moves

LEMMA GotoMoves ==
  ASSUME NEW t \in Task, TypeInv, NEW p \in Place, Goto(t, p)
  PROVE  Moves(t) /\ writer'[t].at = p /\ writer'[t].len = writer[t].len
<1> DEFINE w == [writer[t] EXCEPT !.at = p]
<1>1. w \in Writer /\ w.at = p /\ w.len = writer[t].len
  BY DEF TypeInv, Writer
<1>2. writer' = [writer EXCEPT ![t] = w]
  BY DEF Goto
<1> HIDE DEF w
<1> QED
  BY <1>1, <1>2, MovesTo

LEMMA AfterMoves ==
  ASSUME NEW t \in Task, TypeInv, After(t)
  PROVE  Moves(t) /\ writer'[t].at \in {"lock", "idle"}
<1> DEFINE a == IF writer[t].rest \/ Written(t) < Len(Text[t]) THEN "lock" ELSE "idle"
           n == Written(t)
<1>1. a \in {"lock", "idle"} /\ a \in Place
  BY DEF Place
<1>2. n \in Int
  BY DEF TypeInv, Writer, Written
<1>3. writer' = [writer EXCEPT ![t].at = a, ![t].used = n, ![t].took = 0]
  BY DEF After
<1> HIDE DEF a, n
<1> DEFINE m == writer[t]
           z == 0
           w == [m EXCEPT !.at = a, !.used = n, !.took = z]
<1>4. w \in Writer /\ w.at = a
  <2>1. m \in Writer /\ z \in Int
    BY DEF TypeInv
  <2> HIDE DEF m, z
  <2>2. a \in Place /\ n \in Int
    BY <1>1, <1>2
  <2> QED
    BY <2>1, <2>2 DEF Writer
<1>5. writer' = [writer EXCEPT ![t] = w]
  BY <1>3 DEF TypeInv
<1> HIDE DEF w
<1> QED
  BY <1>1, <1>4, <1>5, MovesTo

\* The owners when one task goes on.
LEMMA OwnersGo ==
  ASSUME NEW t \in Task, Moves(t)
  PROVE  Owners' = IF writer'[t].at \in Owning THEN Owners \cup {t} ELSE Owners \ {t}
BY DEF Moves, Owners, Owning

\* The same with a channel that is set up, but does not send.
LEMMA TaskIsOwner ==
  ASSUME IInv, NEW t \in Task, writer[t].at \in Owning
  PROVE  busy /\ ~Sending /\ Owners = {t}
BY DEF IInv, OwnerInv, Owners, Owning

\* A task that owns nothing goes on by itself.
LEMMA PrivateStep ==
  ASSUME IInv, NEW t \in Task, Moves(t),
         UNCHANGED <<dma, serialDmaMemory_, head, tail, size, busy>>,
         writer[t].at \notin Owning, writer'[t].at \notin Owning,
         writer'[t].at = "publish" => writer'[t].len > 0,
         writer[t].at \in {"unlock", "start", "claim"} =>
           writer'[t].at \in {"unlock", "start", "claim"} \/ busy \/ Stored = 0
  PROVE  IInv'
<1>1. TypeInv'
  BY DEF IInv, TypeInv, Moves
<1>2. OwnerInv'
  <2>1. Owners' = Owners
    BY OwnersGo DEF Owners, Owning
  <2>2. Sending' = Sending
    BY DEF Sending
  <2> QED
    BY <2>1, <2>2 DEF IInv, OwnerInv
<1>3. RangeInv'
  BY DEF IInv, RangeInv, Moves, Sending, Owning
<1>4. NothingLeftBehind'
  <2>1. CASE Stored = 0 \/ busy
    BY <2>1 DEF NothingLeftBehind, Stored
  <2>2. CASE ~(Stored = 0 \/ busy) /\ Stored > 0
    <3>1. PICK u \in Task : writer[u].at \in {"unlock", "start", "claim"}
      BY <2>2 DEF IInv, NothingLeftBehind
    <3>2. writer'[u].at \in {"unlock", "start", "claim"}
      BY <2>2, <3>1 DEF Moves
    <3> QED
      BY <3>2 DEF NothingLeftBehind
  <2>3. Stored' = Stored /\ Stored \in Int
    BY DEF IInv, TypeInv, Stored
  <2> QED
    BY <2>1, <2>2, <2>3 DEF NothingLeftBehind
<1> QED
  BY <1>1, <1>2, <1>3, <1>4 DEF IInv

-----------------------------------------------------------------------------
(***************************************************************************)
(* The steps.                                                              *)
(***************************************************************************)
LEMMA InitInv == Init => IInv
<1> SUFFICES ASSUME Init PROVE IInv
  OBVIOUS
<1>1. TypeInv
  <2>1. /\ size \in Nat \ {0}
        /\ dma \in Dma
        /\ serialDmaMemory_ \in [at : Int, len : Int]
        /\ head \in Int /\ tail \in Int /\ busy \in BOOLEAN
    <3>1. dma \in Dma
      BY DEF Init, Dma
    <3>2. serialDmaMemory_ \in [at : Int, len : Int]
      BY DEF Init
    <3>3. size \in Nat \ {0} /\ head = 0 /\ tail = 0 /\ busy = FALSE
      BY SerialAssumption DEF Init
    <3>4. head \in Int /\ tail \in Int
      BY <3>3
    <3>5. busy \in BOOLEAN
      BY <3>3, Zenon
    <3> QED
      BY <3>1, <3>2, <3>3, <3>4, <3>5, Zenon
  <2>2. [t \in Task |-> [at |-> "idle", left |-> Writes[t], used |-> 0, len |-> 0, took |-> 0,
                         rest |-> FALSE]] \in [Task -> Writer]
    BY SerialAssumption DEF Writer, Place
  <2>3. writer \in [Task -> Writer]
    BY <2>2 DEF Init
  <2> QED
    BY <2>1, <2>3 DEF TypeInv
<1>2. Owners = {} /\ \A t \in Task : writer[t].at = "idle"
  BY DEF Init, Owners
<1>3. ~busy /\ ~Sending /\ ~dma.on /\ ~dma.done /\ head = 0 /\ tail = 0
  BY DEF Init, Sending
<1>4. OwnerInv
  BY <1>2, <1>3 DEF OwnerInv
<1>5. RangeInv
  BY <1>2, <1>3 DEF RangeInv
<1>6. NothingLeftBehind
  BY <1>3 DEF NothingLeftBehind, Stored
<1> QED
  BY <1>1, <1>4, <1>5, <1>6 DEF IInv

\* Where a call of SerialWrite() goes, and how far.
LEMMA WriteMoves ==
  ASSUME NEW t \in Task, TypeInv, SerialWrite(t)
  PROVE  Moves(t) /\ writer'[t].at = "lock"
<1> DEFINE m == writer[t]
           n == m.left - 1
           z == 0
           a == "lock"
           w == [m EXCEPT !.at = a, !.left = n, !.used = z]
<1>1. w \in Writer /\ w.at = "lock"
  <2>1. m \in Writer
    BY DEF TypeInv
  <2>2. n \in Int /\ z \in Int
    BY <2>1 DEF Writer
  <2>3. a \in Place
    BY DEF Place
  <2> HIDE DEF m, n, z, a
  <2>4. w \in Writer /\ w.at = a
    BY <2>1, <2>2, <2>3 DEF Writer
  <2> QED
    BY <2>4 DEF a
<1>2. writer' = [writer EXCEPT ![t] = w]
  BY DEF SerialWrite, TypeInv
<1> HIDE DEF w
<1> QED
  BY <1>1, <1>2, MovesTo

LEMMA WriteStep ==
  ASSUME IInv, NEW t \in Task, SerialWrite(t)
  PROVE  IInv'
<1>1. writer[t].at = "idle" /\ UNCHANGED <<dma, serialDmaMemory_, head, tail, size, busy>>
  BY DEF SerialWrite, At, ringVars, dmaVars
<1>2. Moves(t) /\ writer'[t].at = "lock"
  BY WriteMoves DEF IInv
<1> QED
  BY <1>1, <1>2, PrivateStep DEF Owning

\* The steps of a task that only go to another place.
LEMMA GotoStep ==
  ASSUME IInv, NEW t \in Task,
         Lock(t) \/ Block(t) \/ Unlock(t) \/ (t = Routing /\ (WaitForNotify \/ Awake))
  PROVE  IInv'
<1>1. PICK p \in {"allocate", "block", "lock", "start", "wait", "idle"} :
        Goto(t, p) /\ (writer[t].at = "unlock" => p = "start")
  BY DEF Lock, Block, Unlock, WaitForNotify, Awake, At
<1>2. writer[t].at \in {"lock", "block", "unlock", "idle", "wait"}
  BY DEF Lock, Block, Unlock, WaitForNotify, Awake, At
<1>3. UNCHANGED <<dma, serialDmaMemory_, head, tail, size, busy>>
  BY DEF Lock, Block, Unlock, WaitForNotify, Awake, ringVars, dmaVars
<1>4. Moves(t) /\ writer'[t].at = p
  BY <1>1, GotoMoves DEF IInv, Place
<1> QED
  BY <1>1, <1>2, <1>3, <1>4, PrivateStep DEF Owning

LEMMA AllocateMoves ==
  ASSUME NEW t \in Task, TypeInv, Allocate(t)
  PROVE  /\ Moves(t)
         /\ \/ writer'[t].at = "publish" /\ writer'[t].len > 0
            \/ writer'[t].at = "unlock"
<1> DEFINE text  == Text[t]
           used  == writer[t].used
           first == Expanded(t, used) + (IF writer[t].rest THEN 0 ELSE 1)
           extra == IF text[Len(text)] THEN 1 ELSE 0
           want  == IF writer[t].rest THEN 1 ELSE Len(text) - used + extra
           len   == Smaller(want, Smaller(size - Stored, Contiguous(head)))
           last  == IF writer[t].rest THEN first + len - 1
                    ELSE Smaller(first + len - 1, Length(t))
           upto  == Cardinality({c \in 1..Len(text) : Expanded(t, c - 1) < last})
           at   == IF len > 0 THEN "publish" ELSE "unlock"
           took == IF len = 0 \/ writer[t].rest THEN 0 ELSE upto - used
           rest == IF len = 0 THEN writer[t].rest ELSE Expanded(t, upto) > last
<1>1. writer' = [writer EXCEPT ![t].at = at, ![t].len = len, ![t].took = took, ![t].rest = rest]
  BY Zenon DEF Allocate
<1>3. writer[t] \in Writer /\ used \in Int /\ head \in Int /\ tail \in Int /\ size \in Nat \ {0}
  BY DEF TypeInv, Writer
<1>4. len \in Int
  <2>1. text \in Seq(BOOLEAN)
    BY SerialAssumption
  <2>2. want \in Int
    BY <1>3, <2>1
  <2>3. head % size \in 0..(size - 1)
    BY <1>3
  <2>4. Contiguous(head) \in Int /\ size - Stored \in Int
    BY <1>3, <2>3 DEF Contiguous, Stored
  <2> HIDE DEF want
  <2> QED
    BY <2>2, <2>4 DEF Smaller
<1>5. upto \in Int
  <2>1. IsFiniteSet(1..Len(text))
    <3>1. Len(text) \in Int
      BY SerialAssumption
    <3> QED
      BY <3>1, FS_Interval
  <2>2. IsFiniteSet({c \in 1..Len(text) : Expanded(t, c - 1) < last})
    BY <2>1, FS_Subset
  <2> QED
    BY <2>2, FS_CardinalityType
<1>6. /\ at \in Place /\ at \in {"publish", "unlock"} /\ (at = "publish" => len > 0)
      /\ took \in Int
  BY <1>3, <1>5 DEF Place
<1>7. rest \in BOOLEAN
  <2>1. writer[t].rest \in BOOLEAN
    BY <1>3 DEF Writer
  <2> DEFINE bytes == Expanded(t, upto)
  <2>2. (bytes > last) \in BOOLEAN
    <3> HIDE DEF bytes, last
    <3> QED
      OBVIOUS
  <2> HIDE DEF len
  <2>3. CASE len = 0
    BY <2>1, <2>3, Zenon
  <2>4. CASE len # 0
    BY <2>2, <2>4, Zenon
  <2> QED
    BY <2>3, <2>4, Zenon
<1> HIDE DEF at, took, rest, len, upto, used
<1> DEFINE m == writer[t]
           w == [m EXCEPT !.at = at, !.len = len, !.took = took, !.rest = rest]
<1>8. writer' = [writer EXCEPT ![t] = w]
  BY <1>1 DEF TypeInv
<1>9. w \in Writer /\ w.at = at /\ w.len = len
  <2> HIDE DEF m
  <2> QED
    BY <1>3, <1>4, <1>6, <1>7 DEF Writer, m
<1> HIDE DEF w
<1> QED
  BY <1>6, <1>8, <1>9, MovesTo

LEMMA AllocateStep ==
  ASSUME IInv, NEW t \in Task, Allocate(t)
  PROVE  IInv'
<1>1. writer[t].at = "allocate" /\ UNCHANGED <<dma, serialDmaMemory_, head, tail, size, busy>>
  BY DEF Allocate, At, dmaVars
<1>2. /\ Moves(t)
      /\ \/ writer'[t].at = "publish" /\ writer'[t].len > 0
         \/ writer'[t].at = "unlock"
  BY AllocateMoves DEF IInv
<1> QED
  BY <1>1, <1>2, PrivateStep DEF Owning

\* startSerialTx() finds the ring empty, or another owner.
LEMMA StartStep ==
  ASSUME IInv, NEW t \in Task, Start(t)
  PROVE  IInv'
<1>1. writer[t].at = "start" /\ UNCHANGED <<dma, serialDmaMemory_, head, tail, size, busy>>
  BY DEF Start, At, ringVars, dmaVars
<1>2. CASE Stored > 0
  <2>1. Goto(t, "claim") /\ "claim" \in Place
    BY <1>2 DEF Start, Place
  <2>2. Moves(t) /\ writer'[t].at = "claim"
    BY <2>1, GotoMoves DEF IInv
  <2> QED
    BY <1>1, <2>2, PrivateStep DEF Owning
<1>3. CASE ~(Stored > 0)
  <2>1. Moves(t) /\ writer'[t].at \in {"lock", "idle"}
    BY <1>3, AfterMoves DEF Start, IInv
  <2>2. Stored = 0
    BY <1>3 DEF IInv, TypeInv, RangeInv, Stored
  <2> QED
    BY <1>1, <2>1, <2>2, PrivateStep DEF Owning
<1> QED
  BY <1>2, <1>3

\* The DMA changes hands only here and with the end of a transfer.
LEMMA ClaimStep ==
  ASSUME IInv, NEW t \in Task, Claim(t)
  PROVE  IInv'
<1>1. /\ writer[t].at = "claim" /\ busy' = TRUE
      /\ UNCHANGED <<dma, serialDmaMemory_, head, tail, size>>
  BY DEF Claim, At, ringVars
<1>2. CASE busy
  <2>1. Moves(t) /\ writer'[t].at \in {"lock", "idle"}
    BY <1>2, AfterMoves DEF Claim, IInv
  <2>2. busy' = busy
    BY <1>1, <1>2 DEF IInv, TypeInv
  <2> QED
    BY <1>1, <1>2, <2>1, <2>2, PrivateStep DEF Owning
<1>3. CASE ~busy
  <2>1. Goto(t, "peek") /\ "peek" \in Place
    BY <1>3 DEF Claim, Place
  <2>2. Moves(t) /\ writer'[t].at = "peek"
    BY <2>1, GotoMoves DEF IInv
  <2>3. Owners' = {t}
    <3>1. Owners = {} /\ Owners' = Owners \cup {t}
      BY <1>3, <2>2, OwnersGo DEF IInv, OwnerInv, Owning
    <3> QED
      BY <3>1
  <2>4. TypeInv'
    BY <1>1, <2>2 DEF IInv, TypeInv, Moves
  <2>5. OwnerInv'
    <3>1. ~Sending'
      BY <1>1, <1>3 DEF IInv, OwnerInv, Sending
    <3> QED
      BY <1>1, <2>3, <3>1 DEF OwnerInv
  <2>6. RangeInv'
    BY <1>1, <2>2 DEF IInv, RangeInv, Moves, Sending
  <2>7. NothingLeftBehind'
    BY <1>1 DEF NothingLeftBehind
  <2> QED
    BY <2>4, <2>5, <2>6, <2>7 DEF IInv
<1> QED
  BY <1>2, <1>3

\* The owner goes on, and stays the owner.
LEMMA OwnerStep ==
  ASSUME IInv, NEW t \in Task, Moves(t), writer[t].at \in Owning, writer'[t].at \in Owning,
         UNCHANGED <<head, tail, size, busy>>,
         serialDmaMemory_' \in [at : Int, len : Int], dma' \in Dma,
         writer'[t].at = "configure" => serialDmaMemory_'.len > 0,
         writer'[t].at = "enable" => dma'.on,
         ~Sending', ~dma'.done, dma'.on => dma'.left > 0
  PROVE  IInv'
<1>1. busy /\ ~Sending /\ Owners = {t}
  BY TaskIsOwner
<1>2. Owners' = {t}
  BY <1>1, OwnersGo
<1>3. TypeInv'
  BY DEF IInv, TypeInv, Moves
<1>4. OwnerInv'
  BY <1>1, <1>2 DEF OwnerInv
<1>5. \A u \in Task \ {t} : writer'[u] = writer[u] /\ writer'[u].at \notin Owning
  BY <1>1 DEF Moves, Owners, Owning
<1>6. RangeInv'
  <2>1. ASSUME NEW u \in Task
        PROVE  /\ writer'[u].at = "publish" => writer'[u].len > 0
               /\ writer'[u].at = "configure" => serialDmaMemory_'.len > 0
               /\ writer'[u].at = "enable" => dma'.on
    <3>1. CASE u = t
      BY <3>1 DEF Owning
    <3>2. CASE u # t
      BY <1>5, <3>2 DEF IInv, RangeInv, Owning
    <3> QED
      BY <3>1, <3>2
  <2> QED
    BY <2>1 DEF IInv, RangeInv
<1>7. NothingLeftBehind'
  BY <1>1 DEF NothingLeftBehind
<1> QED
  BY <1>3, <1>4, <1>6, <1>7 DEF IInv

LEMMA PeekStep ==
  ASSUME IInv, NEW t \in Task, Peek(t)
  PROVE  IInv'
<1>1. /\ writer[t].at = "peek" /\ serialDmaMemory_' = peek(tail)
      /\ UNCHANGED <<dma, head, tail, size, busy>>
  BY DEF Peek, At, ringVars
<1>2. PICK p \in {"release", "configure"} : Goto(t, p) /\ (p = "configure" => Stored # 0)
  BY DEF Peek
<1>3. Moves(t) /\ writer'[t].at = p
  BY <1>2, GotoMoves DEF IInv, Place
<1>4. /\ serialDmaMemory_' \in [at : Int, len : Int]
      /\ head > tail => serialDmaMemory_'.len > 0
  BY <1>1, PeekRange DEF IInv, TypeInv
<1>5. p = "configure" => head > tail
  BY <1>2 DEF IInv, TypeInv, RangeInv, Stored
<1>6. ~Sending
  BY <1>1, TaskIsOwner DEF Owning
<1>7. ~Sending' /\ ~dma'.done /\ (dma'.on => dma'.left > 0) /\ dma' \in Dma
  BY <1>1, <1>6 DEF IInv, TypeInv, RangeInv, Sending
<1> QED
  BY <1>1, <1>2, <1>3, <1>4, <1>5, <1>7, OwnerStep DEF Owning

LEMMA ConfigureStep ==
  ASSUME IInv, NEW t \in Task, Configure(t)
  PROVE  IInv'
<1>1. /\ writer[t].at = "configure" /\ dma' = Channel(serialDmaMemory_) /\ Goto(t, "enable")
      /\ UNCHANGED <<serialDmaMemory_, head, tail, size, busy>>
  BY DEF Configure, At, ringVars
<1>2. Moves(t) /\ writer'[t].at = "enable"
  BY <1>1, GotoMoves DEF IInv, Place
<1>3. serialDmaMemory_ \in [at : Int, len : Int] /\ serialDmaMemory_.len > 0
  BY <1>1 DEF IInv, TypeInv, RangeInv
<1>4. dma' \in Dma /\ dma'.on /\ ~dma'.requests /\ ~dma'.done /\ dma'.left > 0
  BY <1>1, <1>3 DEF Channel, Dma
<1>5. ~Sending'
  BY <1>4 DEF Sending
<1> QED
  BY <1>1, <1>2, <1>3, <1>4, <1>5, OwnerStep DEF Owning

\* Now the transfer is the owner.
LEMMA EnableStep ==
  ASSUME IInv, NEW t \in Task, EnableTxDma(t)
  PROVE  IInv'
<1>1. /\ writer[t].at = "enable" /\ dma' = [dma EXCEPT !.requests = TRUE]
      /\ UNCHANGED <<serialDmaMemory_, head, tail, size, busy>>
  BY DEF EnableTxDma, At, ringVars
<1>2. Moves(t) /\ writer'[t].at \in {"lock", "idle"}
  BY AfterMoves DEF EnableTxDma, IInv
<1>3. busy /\ ~Sending /\ Owners = {t}
  BY <1>1, TaskIsOwner DEF Owning
<1>4. Owners' = {}
  BY <1>2, <1>3, OwnersGo DEF Owning
<1>5. /\ dma \in Dma /\ dma.on /\ (dma.left > 0 \/ dma.done)
  BY <1>1 DEF IInv, TypeInv, RangeInv
<1>6. /\ dma' \in Dma /\ dma'.on /\ dma'.requests
      /\ dma'.left = dma.left /\ dma'.done = dma.done
  BY <1>1, <1>5 DEF Dma
<1>7. TypeInv'
  BY <1>1, <1>2, <1>6 DEF IInv, TypeInv, Moves
<1>8. OwnerInv'
  <2>1. Sending' /\ busy'
    BY <1>1, <1>3, <1>6 DEF Sending
  <2> QED
    BY <1>4, <2>1 DEF OwnerInv
<1>9. RangeInv'
  <2>1. \A u \in Task : writer'[u].at = "publish" => writer'[u].len > 0
    BY <1>2 DEF IInv, RangeInv, Moves
  <2>2. \A u \in Task : writer'[u].at # "configure"
    BY <1>4 DEF Owners
  <2> QED
    BY <1>1, <1>5, <1>6, <2>1, <2>2 DEF IInv, RangeInv, Sending
<1>10. NothingLeftBehind'
  BY <1>1, <1>3 DEF NothingLeftBehind
<1> QED
  BY <1>7, <1>8, <1>9, <1>10 DEF IInv

\* An empty range is given back, and the ring looked at again.
LEMMA ReleaseStep ==
  ASSUME IInv, NEW t \in Task, Release(t)
  PROVE  IInv'
<1>1. /\ writer[t].at = "release" /\ busy' = FALSE /\ Goto(t, "start")
      /\ UNCHANGED <<dma, serialDmaMemory_, head, tail, size>>
  BY DEF Release, At, ringVars
<1>2. Moves(t) /\ writer'[t].at = "start"
  BY <1>1, GotoMoves DEF IInv, Place
<1>3. busy /\ ~Sending /\ Owners = {t}
  BY <1>1, TaskIsOwner DEF Owning
<1>4. Owners' = {}
  BY <1>2, <1>3, OwnersGo DEF Owning
<1>5. TypeInv'
  BY <1>1, <1>2 DEF IInv, TypeInv, Moves
<1>6. OwnerInv'
  BY <1>1, <1>3, <1>4 DEF OwnerInv, Sending
<1>7. RangeInv'
  BY <1>1, <1>2 DEF IInv, RangeInv, Moves, Sending
<1>8. NothingLeftBehind'
  BY <1>2 DEF NothingLeftBehind
<1> QED
  BY <1>5, <1>6, <1>7, <1>8 DEF IInv

LEMMA PublishMoves ==
  ASSUME NEW t \in Task, TypeInv, Publish(t)
  PROVE  Moves(t) /\ writer'[t].at = "unlock"
<1> DEFINE m == writer[t]
           z == 0
           a == "unlock"
           w == [m EXCEPT !.at = a, !.len = z]
<1>1. w \in Writer /\ w.at = "unlock"
  <2>1. m \in Writer /\ z \in Int /\ a \in Place
    BY DEF TypeInv, Place
  <2> HIDE DEF m, z, a
  <2>2. w \in Writer /\ w.at = a
    BY <2>1 DEF Writer
  <2> QED
    BY <2>2 DEF a
<1>2. writer' = [writer EXCEPT ![t] = w]
  BY DEF Publish, TypeInv
<1> HIDE DEF w
<1> QED
  BY <1>1, <1>2, MovesTo

LEMMA PublishStep ==
  ASSUME IInv, NEW t \in Task, Publish(t)
  PROVE  IInv'
<1>1. /\ writer[t].at = "publish" /\ head' = head + writer[t].len
      /\ UNCHANGED <<dma, serialDmaMemory_, tail, size, busy>>
  BY DEF Publish, At, dmaVars
<1>4. Moves(t) /\ writer'[t].at = "unlock"
  BY PublishMoves DEF IInv
<1>5. writer[t].len \in Int /\ writer[t].len > 0
  BY <1>1 DEF IInv, TypeInv, RangeInv, Writer
<1>6. head' \in Int /\ head' >= head /\ head \in Int
  BY <1>1, <1>5 DEF IInv, TypeInv
<1>7. TypeInv'
  BY <1>1, <1>4, <1>6 DEF IInv, TypeInv, Moves
<1>8. OwnerInv'
  <2>1. Owners' = Owners
    BY <1>1, <1>4, OwnersGo DEF Owners, Owning
  <2> QED
    BY <1>1, <2>1 DEF IInv, OwnerInv, Sending
<1>9. RangeInv'
  <2>1. head' >= tail'
    BY <1>1, <1>6 DEF IInv, TypeInv, RangeInv
  <2>2. \A u \in Task : /\ writer'[u].at = "publish" => writer'[u].len > 0
                        /\ writer'[u].at = "configure" => serialDmaMemory_'.len > 0
                        /\ writer'[u].at = "enable" => dma'.on
    BY <1>1, <1>4 DEF IInv, RangeInv, Moves
  <2> QED
    BY <1>1, <2>1, <2>2 DEF IInv, RangeInv, Sending
<1>10. NothingLeftBehind'
  BY <1>4 DEF NothingLeftBehind
<1> QED
  BY <1>7, <1>8, <1>9, <1>10 DEF IInv

LEMMA DmaByteStep ==
  ASSUME IInv, DmaByte
  PROVE  IInv'
<1>1. /\ dma.on /\ dma.requests /\ dma.left > 0
      /\ dma' = [dma EXCEPT !.at = @ + 1, !.left = @ - 1, !.done = dma.left = 1]
      /\ UNCHANGED <<writer, serialDmaMemory_, head, tail, size, busy>>
  BY DEF DmaByte, Transfers, ringVars
<1>2. /\ dma' \in Dma /\ dma'.on /\ dma'.requests
      /\ dma'.left > 0 \/ dma'.done
  <2>1. dma \in Dma /\ dma.at + 1 \in Int /\ dma.left - 1 \in Nat /\ dma.left \in Nat
    BY <1>1 DEF IInv, TypeInv, Dma
  <2> DEFINE at == dma.at + 1
             left == dma.left - 1
             done == dma.left = 1
  <2>2. at \in Int /\ left \in Nat
    BY <2>1
  <2>3. done \in BOOLEAN
    BY Zenon
  <2>4. left > 0 \/ done
    BY <1>1, <2>1
  <2>5. dma' = [dma EXCEPT !.at = at, !.left = left, !.done = done]
    BY <1>1
  <2> HIDE DEF at, left, done
  <2>6. dma' \in Dma
    BY <2>1, <2>2, <2>3, <2>5 DEF Dma
  <2>7. dma'.on = dma.on /\ dma'.requests = dma.requests /\ dma'.left = left /\ dma'.done = done
    BY <2>1, <2>5 DEF Dma
  <2> QED
    BY <1>1, <2>4, <2>6, <2>7
<1>3. Sending' /\ Sending
  BY <1>1, <1>2 DEF Sending
<1>4. TypeInv'
  BY <1>1, <1>2 DEF IInv, TypeInv
<1>5. OwnerInv'
  BY <1>1, <1>3 DEF IInv, OwnerInv, Owners
<1>6. RangeInv'
  BY <1>1, <1>2, <1>3 DEF IInv, RangeInv
<1>7. NothingLeftBehind'
  BY <1>1 DEF IInv, NothingLeftBehind, Stored
<1> QED
  BY <1>4, <1>5, <1>6, <1>7 DEF IInv

\* The handler goes on with what is in the ring, or gives the DMA up.
LEMMA IsrStep ==
  ASSUME IInv, dma1_channel4_isr
  PROVE  IInv'
<1> DEFINE rest == tail + serialDmaMemory_.len
<1>1. dma.done /\ tail' = rest /\ UNCHANGED <<writer, head, size>>
  BY DEF dma1_channel4_isr
<1>2. busy /\ Sending /\ Owners = {} /\ Owners' = {}
  BY <1>1 DEF IInv, OwnerInv, RangeInv, Owners
<1>3. \A u \in Task : /\ writer'[u].at = "publish" => writer'[u].len > 0
                      /\ writer'[u].at \notin {"configure", "enable"}
  BY <1>1, <1>2 DEF IInv, RangeInv, Owners
<1>4. rest \in Int /\ head \in Int /\ size \in Nat \ {0}
  BY DEF IInv, TypeInv
<1>5. CASE /\ head > rest /\ serialDmaMemory_' = peek(rest)
           /\ dma' = [Channel(peek(rest)) EXCEPT !.requests = TRUE] /\ busy' = TRUE
  <2>1. peek(rest) \in [at : Int, len : Int] /\ peek(rest).len > 0
    BY <1>4, <1>5, PeekRange
  <2>2. dma' \in Dma /\ dma'.on /\ dma'.requests /\ dma'.left > 0
    <3> DEFINE c == Channel(peek(rest))
    <3>1. c \in Dma /\ c.on /\ c.left > 0
      BY <2>1 DEF Channel, Dma
    <3>2. dma' = [c EXCEPT !.requests = TRUE]
      BY <1>5
    <3> HIDE DEF c
    <3> QED
      BY <3>1, <3>2 DEF Dma
  <2>3. TypeInv'
    BY <1>1, <1>4, <1>5, <2>1, <2>2 DEF IInv, TypeInv
  <2>4. OwnerInv'
    <3>1. Sending' /\ busy'
      BY <1>5, <2>2 DEF Sending
    <3> QED
      BY <1>2, <3>1 DEF OwnerInv
  <2>5. RangeInv'
    BY <1>1, <1>3, <1>4, <1>5, <2>2 DEF RangeInv, Sending
  <2>6. NothingLeftBehind'
    BY <1>5 DEF NothingLeftBehind
  <2> QED
    BY <2>3, <2>4, <2>5, <2>6 DEF IInv
<1>6. CASE /\ head = rest /\ busy' = FALSE /\ UNCHANGED serialDmaMemory_
           /\ dma' = [dma EXCEPT !.on = FALSE, !.requests = FALSE, !.done = FALSE]
  <2>1. dma' \in Dma /\ ~dma'.on /\ ~dma'.done
    BY <1>6 DEF IInv, TypeInv, Dma
  <2>2. TypeInv'
    BY <1>1, <1>4, <1>6, <2>1 DEF IInv, TypeInv
  <2>3. OwnerInv'
    BY <1>2, <1>6, <2>1 DEF OwnerInv, Sending
  <2>4. RangeInv'
    BY <1>1, <1>3, <1>4, <1>6, <2>1 DEF RangeInv
  <2>5. NothingLeftBehind'
    BY <1>1, <1>4, <1>6 DEF NothingLeftBehind, Stored
  <2> QED
    BY <2>2, <2>3, <2>4, <2>5 DEF IInv
<1> QED
  BY <1>5, <1>6 DEF dma1_channel4_isr

LEMMA OtherStep ==
  ASSUME IInv, PendSV \/ BusIsr \/ UNCHANGED vars
  PROVE  IInv'
<1>1. UNCHANGED <<writer, dma, serialDmaMemory_, head, tail, size, busy>>
  BY DEF PendSV, BusIsr, vars, ringVars, dmaVars
<1> QED
  BY <1>1 DEF IInv, TypeInv, OwnerInv, RangeInv, NothingLeftBehind, Owners, Sending, Stored

LEMMA StepInv ==
  ASSUME IInv, [Next]_vars
  PROVE  IInv'
<1>1. Routing \in Task
  BY SerialAssumption
<1>2. ASSUME NEW t \in Task, TaskStep(t) PROVE IInv'
  BY <1>2, WriteStep, GotoStep, AllocateStep, PublishStep, StartStep, ClaimStep, PeekStep,
     ReleaseStep, ConfigureStep, EnableStep, Zenon DEF TaskStep
<1>3. CASE Processor
  BY <1>1, <1>2, <1>3, GotoStep, Zenon DEF Processor
<1> QED
  BY <1>3, DmaByteStep, IsrStep, OtherStep, Zenon DEF Next

-----------------------------------------------------------------------------
(***************************************************************************)
(* The theorems.                                                           *)
(***************************************************************************)
\* The DMA of the serial output has one owner, a task in startSerialTx() or a
\* transfer that has not been acknowledged, and serialDmaBusy_ tells.
THEOREM SoleOwner == Spec => []OneOwner
<1>1. Init => IInv
  BY InitInv
<1>2. IInv /\ [Next]_vars => IInv'
  BY StepInv
<1>3. IInv => OneOwner
  <2> SUFFICES ASSUME IInv PROVE OneOwner
    OBVIOUS
  <2>1. Cardinality({}) = 0
    BY FS_EmptySet
  <2>2. \A t \in Task : Cardinality({t}) = 1
    BY FS_Singleton
  <2>3. dma.on => dma.left > 0 \/ dma.done
    BY DEF IInv, RangeInv
  <2>4. CASE ~busy
    BY <2>1, <2>3, <2>4 DEF IInv, OwnerInv, Sending, OneOwner
  <2>5. CASE busy /\ Sending /\ Owners = {}
    BY <2>1, <2>3, <2>5 DEF Sending, OneOwner
  <2>6. CASE busy /\ ~Sending /\ \E t \in Task : Owners = {t}
    <3>1. Cardinality(Owners) = 1
      BY <2>2, <2>6
    <3> QED
      BY <2>3, <2>6, <3>1 DEF Sending, OneOwner
  <2> QED
    BY <2>4, <2>5, <2>6 DEF IInv, OwnerInv
<1> QED
  BY <1>1, <1>2, <1>3, PTL DEF Spec

\* Whatever the tasks publish while others own the DMA, what is in the ring is
\* sent by a transfer, or a task is about to look at it (the second look of
\* startSerialTx() after it releases the DMA).
THEOREM NothingForgotten == Spec => []NothingLeftBehind
<1>1. Init => IInv
  BY InitInv
<1>2. IInv /\ [Next]_vars => IInv'
  BY StepInv
<1>3. IInv => NothingLeftBehind
  BY DEF IInv
<1> QED
  BY <1>1, <1>2, <1>3, PTL DEF Spec

-----------------------------------------------------------------------------
(***************************************************************************)
(* The mutex.  What is used of the kernel: a task that waits for the mutex *)
(* is not ready, the task that runs is, and every other one is ready or    *)
(* waits for its notification.                                             *)
(***************************************************************************)
Fill == {"allocate", "publish", "unlock"}
Waiters == Members(k.waiting[serialWriteMutex_])
Asleep(t) == t = Routing /\ k.notify[Routing] = "waiting"

KernelInv ==
  /\ Kern(k) /\ Quiet(k)
  /\ ~k.pendSV => k.pxCurrentTCB \in ReadyTasks(k)
  /\ \A t \in Task : t \in ReadyTasks(k) => t \notin Waiters
  /\ \A t \in Task : t \in ReadyTasks(k) \/ t \in Waiters \/ Asleep(t)
  /\ k.notify[Console] # "waiting"
  /\ k.notify[Routing] = "waiting" => writer[Routing].at = "wait"

\* The one that waits waits for a holder with its priority or a higher one.
Inherited(w) ==
  \E h \in Task \ {w} :
    /\ mutex = [free |-> FALSE, holder |-> h]
    /\ k.prio[h] >= k.prio[w] /\ writer[w].at = "lock"

MutexInv ==
  /\ \/ mutex = FreeMutex /\ Filling = {}
     \/ \E t \in Task : mutex = [free |-> FALSE, holder |-> t] /\ Filling = {t}
  /\ \A t \in Task : k.held[t] = IF writer[t].at \in Fill THEN 1 ELSE 0
  /\ \A t \in Task : writer[t].at \notin Fill => k.prio[t] = BasePriority[t]
  /\ \/ Waiters = {}
     \/ \E w \in Task : Waiters = {w} /\ Inherited(w)

HInv == IInv /\ KernelInv /\ MutexInv

LEMMA TaskFacts ==
  /\ Routing \in Task /\ Console \in Task /\ Routing # Console
  /\ \A t \in Task : t = Routing \/ t = Console
  /\ EndMark \notin Task /\ None \notin Task
  /\ serialWriteMutex_ \in Object
  /\ \A t \in Task : BasePriority[t] \in Priority /\ BasePriority[t] \in Nat
BY SerialAssumption, KernelAssumption DEF Routing, Console, EndMark, None, Priority

\* The running task is ready, and does not wait for the mutex.
LEMMA RunningTask ==
  ASSUME HInv, NEW t \in Task, Runs(t)
  PROVE  t \in ReadyTasks(k) /\ t \notin Waiters /\ t = k.pxCurrentTCB
BY DEF HInv, KernelInv, Runs

LEMMA FillingGo ==
  ASSUME NEW t \in Task, Moves(t)
  PROVE  Filling' = IF writer'[t].at \in Fill THEN Filling \cup {t} ELSE Filling \ {t}
BY DEF Moves, Filling, Fill

\* Whoever does nothing about the kernel and the mutex, and goes on.
LEMMA HPrivate ==
  ASSUME HInv, NEW t \in Task, Runs(t), Moves(t), UNCHANGED <<k, mutex>>, IInv',
         writer[t].at # "wait", writer[t].at \in Fill <=> writer'[t].at \in Fill
  PROVE  HInv'
<1>1. t \notin Waiters
  BY RunningTask
<1>2. Filling' = Filling
  BY FillingGo DEF Filling, Fill
<1>3. KernelInv'
  BY TaskFacts DEF HInv, KernelInv, Asleep, Waiters, Moves
<1>4. \A u \in Task : writer'[u].at \in Fill <=> writer[u].at \in Fill
  BY DEF Moves
<1>5. Waiters' = Waiters
  BY DEF Waiters
<1>6. ASSUME NEW w \in Task, Waiters = {w}, Inherited(w) PROVE Inherited(w)'
  <2>1. w # t
    BY <1>1, <1>6
  <2>2. writer'[w] = writer[w]
    BY <2>1 DEF Moves
  <2> QED
    BY <1>6, <2>2 DEF Inherited
<1>7. MutexInv'
  BY <1>2, <1>4, <1>5, <1>6 DEF HInv, MutexInv
<1> QED
  BY <1>3, <1>7 DEF HInv

\* The mutex is free, and is taken.
LEMMA HLock ==
  ASSUME HInv, NEW t \in Task, Lock(t), IInv'
  PROVE  HInv'
<1>1. Runs(t) /\ writer[t].at = "lock" /\ TypeInv
  BY DEF Lock, At, HInv, IInv
<1>2. CASE ~mutex.free
  <2>1. Goto(t, "block") /\ UNCHANGED <<k, mutex>> /\ "block" \in Place
    BY <1>2 DEF Lock, Place
  <2>2. Moves(t) /\ writer'[t].at = "block"
    BY <1>1, <2>1, GotoMoves
  <2> QED
    BY <1>1, <2>1, <2>2, HPrivate DEF Fill
<1>3. CASE mutex.free
  <2>1. mutex' = TakenBy(k) /\ k' = Take(k) /\ Goto(t, "allocate") /\ "allocate" \in Place
    BY <1>3 DEF Lock, Place
  <2>2. Moves(t) /\ writer'[t].at = "allocate"
    BY <1>1, <2>1, GotoMoves
  <2>3. t \in ReadyTasks(k) /\ t \notin Waiters /\ t = k.pxCurrentTCB
    BY <1>1, RunningTask
  <2>4. mutex' = [free |-> FALSE, holder |-> t]
    BY <2>1, <2>3 DEF TakenBy
  <2>5. k.held \in [Task -> Int] /\ Kern(k)
    BY DEF HInv, KernelInv, Kern
  <2>6. Kern(k)' /\ Keeps(k', k, {"held"}) /\ k'.held = [k.held EXCEPT ![t] = @ + 1]
    BY <2>1, <2>3, <2>5 DEF Take, Kern, Keeps, Fields
  <2>7. /\ k'.ready = k.ready /\ k'.waiting = k.waiting /\ k'.prio = k.prio /\ k'.notify = k.notify
        /\ k'.pendSV = k.pendSV /\ k'.pxCurrentTCB = k.pxCurrentTCB
        /\ k'.suspended = k.suspended /\ k'.pending = k.pending /\ k'.pendedTicks = k.pendedTicks
    BY <2>6 DEF Keeps, Fields
  <2>8. KernelInv'
    BY <1>1, <2>2, <2>6, <2>7, TaskFacts DEF HInv, KernelInv, Quiet, Asleep, Waiters, ReadyTasks, Moves
  <2>9. mutex = FreeMutex /\ Filling = {}
    BY <1>3 DEF HInv, MutexInv
  <2>10. Filling' = {t}
    BY <2>2, <2>9, FillingGo DEF Fill
  <2>11. Waiters = {} /\ Waiters' = {}
    BY <1>3, <2>7 DEF HInv, MutexInv, Inherited, Waiters
  <2>12. \A u \in Task : k'.held[u] = IF writer'[u].at \in Fill THEN 1 ELSE 0
    BY <1>1, <2>2, <2>5, <2>6 DEF HInv, MutexInv, Moves, Fill
  <2>13. \A u \in Task : writer'[u].at \notin Fill => k'.prio[u] = BasePriority[u]
    BY <1>1, <2>2, <2>7 DEF HInv, MutexInv, Moves, Fill
  <2>14. MutexInv'
    BY <2>4, <2>10, <2>11, <2>12, <2>13 DEF MutexInv
  <2> QED
    BY <2>8, <2>14 DEF HInv
<1> QED
  BY <1>2, <1>3

\* A task changes its priority, and its ready list if it is in one.
LEMMA AtPriorityKernel ==
  ASSUME NEW j, Kern(j), NEW t \in Task, NEW p \in Priority
  PROVE  /\ Kern(AtPriority(j, t, p))
         /\ Keeps(AtPriority(j, t, p), j, StateLists \cup {"prio"})
         /\ AtPriority(j, t, p).prio = [j.prio EXCEPT ![t] = p]
         /\ ReadyTasks(AtPriority(j, t, p)) = ReadyTasks(j)
<1> DEFINE u == Unlisted(j, t)
           w == [u EXCEPT !.prio[t] = p]
           l == vListInsertEnd(w.ready[p], t)
           a == AtPriority(j, t, p)
<1>1. EndMark \notin Task
  BY TaskFacts
<1>2. CASE t \notin ReadyAt(j, j.prio[t])
  <2>1. a = [j EXCEPT !.prio[t] = p]
    BY <1>2 DEF AtPriority
  <2> HIDE DEF a
  <2>2. Kern(a) /\ Keeps(a, j, {"prio"}) /\ a.prio = [j.prio EXCEPT ![t] = p] /\ a.ready = j.ready
    BY <2>1 DEF Kern, Keeps, Fields
  <2>3. Keeps(a, j, StateLists \cup {"prio"}) /\ ReadyTasks(a) = ReadyTasks(j)
    BY <2>2 DEF Keeps, Fields, StateLists, ReadyTasks
  <2> QED
    BY <2>2, <2>3 DEF a
<1>3. CASE t \in ReadyAt(j, j.prio[t])
  <2>1. a = [w EXCEPT !.ready[w.prio[t]] = vListInsertEnd(@, t)]
    BY <1>3 DEF AtPriority, prvAddTaskToReadyList
  <2>2. /\ Kern(u) /\ Keeps(u, j, StateLists) /\ ReadyTasks(u) = ReadyTasks(j) \ {t}
        /\ \A q \in Priority : Members(u.ready[q]) = Members(j.ready[q]) \ {t}
    BY <1>1, UnlistedKernel, UnlistedTasks
  <2> HIDE DEF u, a
  <2>3. /\ Kern(w) /\ Keeps(w, u, {"prio"}) /\ w.prio = [u.prio EXCEPT ![t] = p] /\ w.prio[t] = p
        /\ w.ready = u.ready
    BY <2>2 DEF Kern, Keeps, Fields
  <2> HIDE DEF w
  <2>4. l \in Rings /\ Members(l) = Members(w.ready[p]) \cup {t}
    <3>1. w.ready[p] \in Rings
      BY <2>3 DEF Kern
    <3>2. t \notin Members(w.ready[p])
      BY <2>2, <2>3
    <3> QED
      BY <3>1, <3>2, InsertInRing
  <2>5. Keeps(a, w, {"ready"}) /\ a.ready = [w.ready EXCEPT ![p] = l] /\ a.prio = w.prio /\ DOMAIN a = Fields
    BY <2>1, <2>3 DEF Kern, Keeps, Fields
  <2> HIDE DEF l
  <2>6. Kern(a)
    BY <2>3, <2>4, <2>5 DEF Kern, Keeps, Fields
  <2>7. Keeps(a, j, StateLists \cup {"prio"}) /\ a.prio = [j.prio EXCEPT ![t] = p]
    BY <2>2, <2>3, <2>5 DEF Keeps, Fields, StateLists
  <2>8. \A x : x \in ReadyTasks(a) <=> x \in ReadyTasks(u) \/ x = t
    <3> SUFFICES ASSUME NEW x PROVE x \in ReadyTasks(a) <=> x \in ReadyTasks(u) \/ x = t
      OBVIOUS
    <3>1. /\ x \in ReadyTasks(a) <=> x # EndMark /\ \E q \in Priority : x \in Members(a.ready[q])
          /\ x \in ReadyTasks(u) <=> x # EndMark /\ \E q \in Priority : x \in Members(u.ready[q])
      BY ReadyMember
    <3>2. a.ready[p] = l /\ \A q \in Priority \ {p} : a.ready[q] = u.ready[q]
      BY <2>2, <2>3, <2>5 DEF Kern
    <3>3. Members(l) = Members(u.ready[p]) \cup {t}
      BY <2>3, <2>4
    <3> QED
      BY <1>1, <3>1, <3>2, <3>3
  <2>9. t \in ReadyTasks(j)
    BY <1>3 DEF ReadyAt, ReadyTasks, Kern
  <2>10. ReadyTasks(a) = ReadyTasks(j)
    BY <2>2, <2>8, <2>9
  <2> QED
    BY <2>6, <2>7, <2>10 DEF a
<1> QED
  BY <1>2, <1>3

\* The mutex is not free: the task goes to sleep, and the holder inherits its
\* priority.
LEMMA HBlock ==
  ASSUME HInv, NEW t \in Task, Block(t), IInv'
  PROVE  HInv'
<1> DEFINE m == serialWriteMutex_
           s == vTaskSuspendAll(k)
           i == xTaskPriorityInherit(s, mutex.holder)
           b == vTaskPlaceOnEventList(i, m, MaxDelay)
           r == xTaskResumeAll(b)
<1>1. Runs(t) /\ writer[t].at = "block" /\ TypeInv /\ UNCHANGED mutex
  BY DEF Block, At, HInv, IInv
<1>2. Moves(t) /\ writer'[t].at = "lock"
  BY <1>1, GotoMoves DEF Block, Place
<1>3. t \in ReadyTasks(k) /\ t \notin Waiters /\ t = k.pxCurrentTCB
  BY <1>1, RunningTask
<1>4. k' = IF mutex.free THEN xTaskResumeAll(s) ELSE portYIELD(r)
  BY DEF Block, WaitToTake, ResumeAndYield
<1>5. Kern(k) /\ Quiet(k) /\ m \in Object /\ EndMark \notin Task
  BY TaskFacts DEF HInv, KernelInv
<1>6. /\ Kern(s) /\ Keeps(s, k, {"suspended"}) /\ s.suspended = 1 /\ s.pendedTicks = 0
      /\ s.pending = <<>> /\ s.ready = k.ready /\ s.pxCurrentTCB = t /\ s.prio = k.prio
  BY <1>3, <1>5 DEF vTaskSuspendAll, Kern, Keeps, Fields, Quiet
<1> HIDE DEF s, i, b, r
<1>7. CASE mutex.free
  <2>1. /\ Kern(k)' /\ Keeps(k', s, {"suspended", "pendSV"}) /\ k'.suspended = 0
        /\ s.pendSV => k'.pendSV
    BY <1>4, <1>6, <1>7, ResumeKernel
  <2>2. /\ Keeps(k', k, {"suspended", "pendSV"})
        /\ k.pendSV => k'.pendSV
    BY <1>6, <2>1 DEF Keeps, Fields
  <2>3. /\ k'.ready = k.ready /\ k'.waiting = k.waiting /\ k'.prio = k.prio /\ k'.notify = k.notify
        /\ k'.pxCurrentTCB = k.pxCurrentTCB /\ k'.held = k.held
        /\ k'.pending = k.pending /\ k'.pendedTicks = k.pendedTicks
    BY <2>2 DEF Keeps, Fields
  <2>4. KernelInv'
    BY <1>1, <1>2, <2>1, <2>2, <2>3, TaskFacts
       DEF HInv, KernelInv, Quiet, Asleep, Waiters, ReadyTasks, Moves
  <2>5. Filling' = {} /\ mutex = FreeMutex
    BY <1>1, <1>2, <1>7, FillingGo DEF HInv, MutexInv, Fill
  <2>6. Waiters = {} /\ Waiters' = {}
    BY <1>7, <2>3 DEF HInv, MutexInv, Inherited, Waiters
  <2>7. \A u \in Task : writer'[u].at \in Fill <=> writer[u].at \in Fill
    BY <1>1, <1>2 DEF Moves, Fill
  <2>8. MutexInv'
    BY <1>1, <2>3, <2>5, <2>6, <2>7 DEF HInv, MutexInv
  <2> QED
    BY <2>4, <2>8 DEF HInv
<1>8. CASE ~mutex.free
  <2>1. PICK h \in Task : mutex = [free |-> FALSE, holder |-> h] /\ Filling = {h}
    BY <1>8 DEF HInv, MutexInv, FreeMutex
  <2>2. h # t /\ h # None /\ mutex.holder = h
    BY <1>1, <2>1, TaskFacts DEF Filling
  <2>3. \A u \in Task : u = t \/ u = h
    BY <2>2, TaskFacts
  <2>4. Waiters = {}
    BY <1>3, <2>1, <2>2, <2>3 DEF HInv, MutexInv, Inherited
  <2>5. /\ Kern(i) /\ Keeps(i, s, StateLists \cup {"prio"}) /\ ReadyTasks(i) = ReadyTasks(s)
        /\ i.prio[t] = k.prio[t] /\ i.prio[h] >= k.prio[t]
    <3>1. k.prio[t] \in Priority /\ k.prio[h] \in Priority /\ k.prio[t] \in Nat /\ k.prio[h] \in Nat
      BY <1>5, PriorityType DEF Kern
    <3>2. CASE s.prio[h] < s.prio[t]
      <4>1. i = AtPriority(s, h, s.prio[t])
        BY <1>6, <2>2, <3>2 DEF i, xTaskPriorityInherit
      <4>2. /\ Kern(i) /\ Keeps(i, s, StateLists \cup {"prio"}) /\ ReadyTasks(i) = ReadyTasks(s)
            /\ i.prio = [s.prio EXCEPT ![h] = s.prio[t]]
        <5>1. s.prio[t] \in Priority /\ Kern(s)
          BY <1>6, <3>1
        <5> QED
          BY <4>1, <5>1, AtPriorityKernel, Zenon
      <4>3. s.prio \in [Task -> Priority]
        BY <1>6 DEF Kern
      <4>4. i.prio[h] = s.prio[t] /\ i.prio[t] = s.prio[t]
        BY <2>2, <4>2, <4>3
      <4> QED
        BY <1>6, <3>1, <4>2, <4>4
    <3>3. CASE ~(s.prio[h] < s.prio[t])
      <4>1. i = s
        BY <1>6, <2>2, <3>3 DEF i, xTaskPriorityInherit
      <4> QED
        BY <1>6, <3>1, <3>3, <4>1 DEF Keeps
    <3> QED
      BY <3>2, <3>3
  <2>6. /\ i.suspended = 1 /\ i.pendedTicks = 0 /\ i.pending = <<>> /\ i.pxCurrentTCB = t
        /\ i.waiting = k.waiting /\ i.held = k.held /\ i.notify = k.notify
    BY <1>6, <2>5 DEF Keeps, Fields, StateLists
  <2>7. /\ Kern(b) /\ Keeps(b, i, StateLists \cup {"nextUnblock", "waiting"})
        /\ ReadyTasks(b) = ReadyTasks(i) \ {t}
        /\ Members(b.waiting[m]) = Members(i.waiting[m]) \cup {t}
    <3>1. i.pxCurrentTCB \notin Members(i.waiting[m])
      BY <1>3, <2>6 DEF Waiters
    <3> QED
      BY <1>5, <2>5, <2>6, <3>1, PlaceKernel DEF b
  <2>8. b.suspended = 1 /\ b.pendedTicks = 0 /\ b.pending = <<>> /\ b.prio = i.prio /\ b.held = i.held
        /\ b.notify = i.notify /\ b.pxCurrentTCB = t
    BY <2>6, <2>7 DEF Keeps, Fields, StateLists
  <2>9. Kern(r) /\ Keeps(r, b, {"suspended", "pendSV"}) /\ r.suspended = 0
    BY <2>7, <2>8, ResumeKernel DEF r
  <2>10. Kern(k)' /\ Keeps(k', r, {"pendSV"}) /\ k'.pendSV = TRUE
    BY <1>4, <1>8, <2>9 DEF portYIELD, Kern, Keeps, Fields
  <2>11. /\ k'.suspended = 0 /\ k'.pendedTicks = 0 /\ k'.pending = <<>> /\ k'.prio = i.prio
         /\ k'.held = k.held /\ k'.notify = k.notify /\ k'.ready = b.ready /\ k'.waiting = b.waiting
    BY <2>6, <2>8, <2>9, <2>10 DEF Keeps, Fields
  <2>12. ReadyTasks(k') = ReadyTasks(k) \ {t} /\ Waiters' = {t}
    <3>1. ReadyTasks(k') = ReadyTasks(b) /\ ReadyTasks(s) = ReadyTasks(k)
      BY <1>6, <2>11 DEF ReadyTasks
    <3> QED
      BY <2>4, <2>5, <2>6, <2>7, <2>11, <3>1 DEF Waiters
  <2>13. KernelInv'
    <3>1. k'.notify[Routing] = "waiting" => writer'[Routing].at = "wait"
      BY <1>1, <1>2, <2>11, TaskFacts DEF HInv, KernelInv, Moves
    <3>2. \A u \in Task : u \in ReadyTasks(k') => u \notin Waiters'
      BY <2>12
    <3>3. \A u \in Task : u \in ReadyTasks(k') \/ u \in Waiters' \/ Asleep(u)'
      BY <2>4, <2>11, <2>12 DEF HInv, KernelInv, Asleep
    <3> QED
      BY <2>10, <2>11, <3>1, <3>2, <3>3 DEF HInv, KernelInv, Quiet
  <2>14. Filling' = {h} /\ mutex' = mutex
    BY <1>1, <1>2, <2>1, <2>2, FillingGo DEF Fill
  <2>15. Inherited(t)'
    BY <1>2, <2>1, <2>2, <2>5, <2>11, <2>14 DEF Inherited
  <2>16. \A u \in Task : writer'[u].at \in Fill <=> writer[u].at \in Fill
    BY <1>1, <1>2 DEF Moves, Fill
  <2>17. \A u \in Task : writer'[u].at \notin Fill => k'.prio[u] = BasePriority[u]
    <3>1. writer'[h].at \in Fill
      BY <2>1, <2>16 DEF Filling, Fill
    <3>2. k'.prio[t] = BasePriority[t]
      BY <1>1, <2>5, <2>11 DEF HInv, MutexInv, Fill
    <3> QED
      BY <2>3, <3>1, <3>2
  <2>18. MutexInv'
    BY <2>1, <2>11, <2>12, <2>14, <2>15, <2>16, <2>17 DEF HInv, MutexInv
  <2> QED
    BY <2>13, <2>18 DEF HInv
<1> QED
  BY <1>7, <1>8

\* The holder goes back to its own priority.
LEMMA DisinheritKernel ==
  ASSUME NEW j, Kern(j), NEW t \in Task, j.pxCurrentTCB = t, j.held[t] = 1
  PROVE  LET d == xTaskPriorityDisinherit(j, t)
         IN  /\ Kern(d)
             /\ Keeps(d, j, StateLists \cup {"prio", "held"})
             /\ d.prio = [j.prio EXCEPT ![t] = BasePriority[t]]
             /\ d.held = [j.held EXCEPT ![t] = 0]
             /\ ReadyTasks(d) = ReadyTasks(j)
<1> DEFINE a == configASSERT(j, t = j.pxCurrentTCB /\ j.held[t] > 0)
           h == [a EXCEPT !.held[t] = @ - 1]
           d == xTaskPriorityDisinherit(j, t)
           b == BasePriority[t]
<1>1. a = j
  BY DEF configASSERT
<1>2. d = IF h.prio[t] # b /\ h.held[t] = 0 THEN AtPriority(h, t, b) ELSE h
  BY DEF xTaskPriorityDisinherit
<1> HIDE DEF a, d
<1>3. /\ Kern(h) /\ Keeps(h, j, {"held"}) /\ h.held = [j.held EXCEPT ![t] = 0] /\ h.held[t] = 0
      /\ h.prio = j.prio /\ h.ready = j.ready
  BY <1>1 DEF Kern, Keeps, Fields
<1>4. b \in Priority
  BY TaskFacts
<1> HIDE DEF h, b
<1>5. ReadyTasks(h) = ReadyTasks(j)
  BY <1>3 DEF ReadyTasks
<1>6. CASE h.prio[t] # b
  <2>1. d = AtPriority(h, t, b)
    BY <1>2, <1>3, <1>6
  <2>2. /\ Kern(d) /\ Keeps(d, h, StateLists \cup {"prio"})
        /\ d.prio = [h.prio EXCEPT ![t] = b]
        /\ ReadyTasks(d) = ReadyTasks(h)
    <3> DEFINE g == AtPriority(h, t, b)
    <3>1. /\ Kern(g) /\ Keeps(g, h, StateLists \cup {"prio"})
          /\ g.prio = [h.prio EXCEPT ![t] = b]
          /\ ReadyTasks(g) = ReadyTasks(h)
      <4>1. Kern(h)
        BY <1>3
      <4>2. Kern(g)
        BY <4>1, <1>4, AtPriorityKernel
      <4>3. Keeps(g, h, StateLists \cup {"prio"})
        BY <4>1, <1>4, AtPriorityKernel
      <4>4. g.prio = [h.prio EXCEPT ![t] = b]
        BY <4>1, <1>4, AtPriorityKernel
      <4>5. ReadyTasks(g) = ReadyTasks(h)
        BY <4>1, <1>4, AtPriorityKernel
      <4> QED
        BY <4>2, <4>3, <4>4, <4>5
    <3> HIDE DEF g
    <3>2. d = g
      BY <2>1 DEF g
    <3> QED
      BY <3>1, <3>2
  <2>3. Keeps(d, j, StateLists \cup {"prio", "held"}) /\ d.held = h.held
    BY <1>3, <2>2 DEF Keeps, Fields, StateLists
  <2> QED
    BY <1>3, <1>5, <2>2, <2>3 DEF d, b
<1>7. CASE h.prio[t] = b
  <2>1. d = h
    BY <1>2, <1>7
  <2>2. h.prio = [j.prio EXCEPT ![t] = b]
    BY <1>3, <1>7 DEF Kern
  <2>3. Keeps(d, j, StateLists \cup {"prio", "held"})
    BY <1>3, <2>1 DEF Keeps, Fields, StateLists
  <2>4. /\ Kern(d) /\ d.prio = [j.prio EXCEPT ![t] = b]
        /\ d.held = [j.held EXCEPT ![t] = 0] /\ ReadyTasks(d) = ReadyTasks(j)
    BY <1>3, <1>5, <2>1, <2>2
  <2> QED
    BY <2>3, <2>4, Zenon DEF d, b
<1> QED
  BY <1>6, <1>7

\* What becomes of the kernel when the mutex is given.
LEMMA GiveKernel ==
  ASSUME HInv, NEW t \in Task, k.pxCurrentTCB = t, k.held[t] = 1, mutex.holder = t
  PROVE  LET j == Give(k, serialWriteMutex_, mutex)
         IN  /\ Kern(j)
             /\ Keeps(j, k, StateLists \cup {"prio", "held", "waiting", "yieldPending", "pendSV"})
             /\ j.prio = [k.prio EXCEPT ![t] = BasePriority[t]]
             /\ j.held = [k.held EXCEPT ![t] = 0]
             /\ ReadyTasks(j) = ReadyTasks(k) \cup Waiters
             /\ Members(j.waiting[serialWriteMutex_]) = {}
             /\ k.pendSV => j.pendSV
<1> DEFINE m == serialWriteMutex_
           d == xTaskPriorityDisinherit(k, t)
           w == d.waiting[m]
           x == xTaskRemoveFromEventList(d, m)
           j == Give(k, m, mutex)
<1>1. Kern(k) /\ Quiet(k) /\ m \in Object /\ EndMark \notin Task
  BY TaskFacts DEF HInv, KernelInv
<1>2. /\ Kern(d) /\ Keeps(d, k, StateLists \cup {"prio", "held"})
      /\ d.prio = [k.prio EXCEPT ![t] = BasePriority[t]]
      /\ d.held = [k.held EXCEPT ![t] = 0]
      /\ ReadyTasks(d) = ReadyTasks(k)
  BY <1>1, DisinheritKernel
<1>3. j \in IF w # <<>> THEN {x, portYIELD(x)} ELSE {d, portYIELD(d)}
  BY DEF Give
<1> HIDE DEF d, x, j
<1>4. d.waiting = k.waiting /\ d.suspended = 0 /\ d.pendSV = k.pendSV
  BY <1>1, <1>2 DEF Keeps, Fields, StateLists, Quiet
<1>5. w \in Lists(Task) /\ Members(w) = Waiters
  BY <1>1, <1>4 DEF Kern, Waiters
<1>6. \A y : Kern(y) => /\ Kern(portYIELD(y)) /\ Keeps(portYIELD(y), y, {"pendSV"})
                        /\ portYIELD(y).pendSV = TRUE /\ portYIELD(y).ready = y.ready
                        /\ portYIELD(y).waiting = y.waiting
  BY DEF portYIELD, Kern, Keeps, Fields
<1>7. ASSUME NEW y, Kern(y), Keeps(y, k, StateLists \cup {"prio", "held", "waiting", "yieldPending"}),
             y.prio = d.prio, y.held = d.held, ReadyTasks(y) = ReadyTasks(k) \cup Waiters,
             Members(y.waiting[m]) = {}, j \in {y, portYIELD(y)}
      PROVE  /\ Kern(j)
             /\ Keeps(j, k, StateLists \cup {"prio", "held", "waiting", "yieldPending", "pendSV"})
             /\ j.prio = d.prio /\ j.held = d.held
             /\ ReadyTasks(j) = ReadyTasks(k) \cup Waiters
             /\ Members(j.waiting[m]) = {}
             /\ k.pendSV => j.pendSV
  <2>1. CASE j = y
    BY <1>7, <2>1 DEF Keeps, Fields, StateLists
  <2>2. CASE j = portYIELD(y)
    <3>1. /\ Kern(j) /\ Keeps(j, y, {"pendSV"}) /\ j.pendSV = TRUE /\ j.ready = y.ready
          /\ j.waiting = y.waiting
      BY <1>6, <1>7, <2>2
    <3>2. j.prio = y.prio /\ j.held = y.held
      BY <3>1 DEF Keeps, Fields
    <3>3. Keeps(j, k, StateLists \cup {"prio", "held", "waiting", "yieldPending", "pendSV"})
      BY <1>7, <3>1 DEF Keeps, Fields, StateLists
    <3>4. ReadyTasks(j) = ReadyTasks(y)
      BY <3>1 DEF ReadyTasks
    <3> QED
      BY <1>7, <3>1, <3>2, <3>3, <3>4
  <2> QED
    BY <1>7, <2>1, <2>2
<1>8. CASE w # <<>>
  <2>1. /\ Head(w) \in Members(w) /\ Members(Tail(w)) = Members(w) \ {Head(w)}
    BY <1>5, <1>8, TailOfList
  <2>2. Members(w) = {Head(w)} /\ Members(Tail(w)) = {}
    BY <1>5, <2>1 DEF HInv, MutexInv
  <2>3. /\ Kern(x) /\ Keeps(x, d, StateLists \cup {"waiting", "yieldPending"})
        /\ ReadyTasks(x) = ReadyTasks(d) \cup {Head(w)}
        /\ x.waiting = [d.waiting EXCEPT ![m] = Tail(@)]
    BY <1>1, <1>2, <1>4, <1>8, WakeKernel DEF x
  <2>4. x.waiting[m] = Tail(w)
    BY <1>1, <1>2, <2>3 DEF Kern
  <2>5. /\ Keeps(x, k, StateLists \cup {"prio", "held", "waiting", "yieldPending"})
        /\ x.prio = d.prio /\ x.held = d.held
    BY <1>2, <2>3 DEF Keeps, Fields, StateLists
  <2>6. j \in {x, portYIELD(x)}
    BY <1>3, <1>8
  <2>7. ReadyTasks(x) = ReadyTasks(k) \cup Waiters
    BY <1>2, <1>5, <2>2, <2>3
  <2> HIDE DEF w
  <2> QED
    BY <1>2, <1>7, <2>2, <2>3, <2>4, <2>5, <2>6, <2>7 DEF j, m
<1>9. CASE w = <<>>
  <2>1. Members(w) = {} /\ Waiters = {}
    BY <1>5, <1>9 DEF Members
  <2>2. Keeps(d, k, StateLists \cup {"prio", "held", "waiting", "yieldPending"})
    BY <1>2 DEF Keeps
  <2>3. j \in {d, portYIELD(d)}
    BY <1>3, <1>9
  <2>4. ReadyTasks(d) = ReadyTasks(k) \cup Waiters
    BY <1>2, <2>1
  <2> QED
    BY <1>2, <1>7, <2>1, <2>2, <2>3, <2>4 DEF j, m
<1> QED
  BY <1>8, <1>9

\* The mutex is given: the one that waits is ready again, and the priority is
\* given back.
LEMMA HUnlock ==
  ASSUME HInv, NEW t \in Task, Unlock(t), IInv'
  PROVE  HInv'
<1>1. /\ Runs(t) /\ writer[t].at = "unlock" /\ TypeInv
      /\ k' = Give(k, serialWriteMutex_, mutex) /\ mutex' = FreeMutex
  BY DEF Unlock, At, HInv, IInv
<1>2. Moves(t) /\ writer'[t].at = "start"
  BY <1>1, GotoMoves DEF Unlock, Place
<1>3. t \in ReadyTasks(k) /\ t \notin Waiters /\ t = k.pxCurrentTCB
  BY <1>1, RunningTask
<1>4. mutex = [free |-> FALSE, holder |-> t] /\ Filling = {t} /\ k.held[t] = 1
  BY <1>1 DEF HInv, MutexInv, Filling, Fill
<1>5. /\ Kern(k)'
      /\ Keeps(k', k, StateLists \cup {"prio", "held", "waiting", "yieldPending", "pendSV"})
      /\ k'.prio = [k.prio EXCEPT ![t] = BasePriority[t]]
      /\ k'.held = [k.held EXCEPT ![t] = 0]
      /\ ReadyTasks(k') = ReadyTasks(k) \cup Waiters
      /\ Waiters' = {}
      /\ k.pendSV => k'.pendSV
  BY <1>1, <1>3, <1>4, GiveKernel DEF Waiters
<1>6. /\ k'.notify = k.notify /\ k'.pxCurrentTCB = k.pxCurrentTCB
      /\ k'.suspended = k.suspended /\ k'.pending = k.pending /\ k'.pendedTicks = k.pendedTicks
  BY <1>5 DEF Keeps, Fields, StateLists
<1>7. KernelInv'
  <2>1. k'.notify[Routing] = "waiting" => writer'[Routing].at = "wait"
    BY <1>1, <1>2, <1>6, TaskFacts DEF HInv, KernelInv, Moves
  <2>2. \A u \in Task : u \in ReadyTasks(k') \/ u \in Waiters' \/ Asleep(u)'
    BY <1>5, <1>6 DEF HInv, KernelInv, Asleep
  <2>3. ~k'.pendSV => k'.pxCurrentTCB \in ReadyTasks(k')
    BY <1>5, <1>6 DEF HInv, KernelInv
  <2> QED
    BY <1>5, <1>6, <2>1, <2>2, <2>3 DEF HInv, KernelInv, Quiet
<1>8. Filling' = {}
  BY <1>2, <1>4, FillingGo DEF Fill
<1>9. \A u \in Task : /\ k'.held[u] = IF writer'[u].at \in Fill THEN 1 ELSE 0
                      /\ writer'[u].at \notin Fill => k'.prio[u] = BasePriority[u]
  <2> SUFFICES ASSUME NEW u \in Task
               PROVE  /\ k'.held[u] = IF writer'[u].at \in Fill THEN 1 ELSE 0
                      /\ writer'[u].at \notin Fill => k'.prio[u] = BasePriority[u]
    OBVIOUS
  <2>1. k.held \in [Task -> Int] /\ k.prio \in [Task -> Priority]
    BY DEF HInv, KernelInv, Kern
  <2>2. CASE u = t
    BY <1>2, <1>5, <2>1, <2>2 DEF Fill
  <2>3. CASE u # t
    <3>1. k'.held[u] = k.held[u] /\ k'.prio[u] = k.prio[u] /\ writer'[u] = writer[u]
      BY <1>2, <1>5, <2>1, <2>3 DEF Moves
    <3> QED
      BY <3>1 DEF HInv, MutexInv
  <2> QED
    BY <2>2, <2>3
<1>10. MutexInv'
  BY <1>1, <1>5, <1>8, <1>9 DEF MutexInv
<1> QED
  BY <1>7, <1>10 DEF HInv

\* The RoutingTask goes to sleep, or finds that it was notified already.
LEMMA HWait ==
  ASSUME HInv, WaitForNotify, IInv'
  PROVE  HInv'
<1> DEFINE t == Routing
           n == [k EXCEPT !.notify[t] = "waiting"]
           d == prvAddCurrentTaskToDelayedList(n, MaxDelay)
<1>1. Runs(t) /\ writer[t].at = "idle" /\ TypeInv /\ UNCHANGED mutex /\ t \in Task
  BY TaskFacts DEF WaitForNotify, At, HInv, IInv
<1>2. Moves(t) /\ writer'[t].at = "wait"
  BY <1>1, GotoMoves DEF WaitForNotify, Place
<1>3. t \in ReadyTasks(k) /\ t \notin Waiters /\ t = k.pxCurrentTCB
  BY <1>1, RunningTask
<1>4. k' = IF k.value[t] THEN k ELSE portYIELD(d)
  BY <1>3 DEF WaitForNotify, NotifyTake
<1>5. Filling' = Filling /\ t \notin Filling /\ \A u \in Task : writer'[u].at \in Fill <=> writer[u].at \in Fill
  BY <1>1, <1>2, FillingGo DEF Fill, Filling, Moves
<1>6. ASSUME NEW w \in Task, Waiters = {w}, Inherited(w), k'.prio = k.prio PROVE Inherited(w)'
  <2>1. w # t
    BY <1>3, <1>6
  <2>2. writer'[w] = writer[w]
    BY <1>2, <2>1 DEF Moves
  <2> QED
    BY <1>1, <1>6, <2>2 DEF Inherited
<1>7. CASE k' = k
  <2>1. KernelInv'
    BY <1>2, <1>7, TaskFacts DEF HInv, KernelInv, Asleep, Waiters, Moves
  <2>2. Waiters' = Waiters
    BY <1>7 DEF Waiters
  <2>3. MutexInv'
    BY <1>1, <1>5, <1>6, <1>7, <2>2 DEF HInv, MutexInv
  <2> QED
    BY <2>1, <2>3 DEF HInv
<1>8. CASE k' = portYIELD(d)
  <2>1. Kern(k) /\ Quiet(k) /\ EndMark \notin Task
    BY TaskFacts DEF HInv, KernelInv
  <2>2. /\ Kern(n) /\ Keeps(n, k, {"notify"}) /\ n.ready = k.ready /\ n.pxCurrentTCB = t
        /\ n.notify = [k.notify EXCEPT ![t] = "waiting"]
    BY <1>1, <1>3, <2>1 DEF Kern, Keeps, Fields
  <2> HIDE DEF n
  <2>3. /\ Kern(d) /\ Keeps(d, n, StateLists \cup {"nextUnblock"})
        /\ ReadyTasks(d) = ReadyTasks(n) \ {t}
    BY <2>1, <2>2, DelayKernel
  <2> HIDE DEF d
  <2>4. Kern(k)' /\ Keeps(k', d, {"pendSV"}) /\ k'.pendSV = TRUE /\ k'.ready = d.ready
    BY <1>8, <2>3 DEF portYIELD, Kern, Keeps, Fields
  <2>5. /\ k'.notify = n.notify /\ k'.waiting = k.waiting /\ k'.prio = k.prio /\ k'.held = k.held
        /\ k'.suspended = k.suspended /\ k'.pending = k.pending /\ k'.pendedTicks = k.pendedTicks
    BY <2>2, <2>3, <2>4 DEF Keeps, Fields, StateLists
  <2>6. ReadyTasks(k') = ReadyTasks(k) \ {t} /\ Waiters' = Waiters
    BY <2>2, <2>3, <2>4, <2>5 DEF ReadyTasks, Waiters
  <2>7. k'.notify[t] = "waiting" /\ k'.notify[Console] = k.notify[Console]
    BY <1>1, <2>1, <2>2, <2>5, TaskFacts DEF Kern
  <2>8. KernelInv'
    <3>1. \A u \in Task : u \in ReadyTasks(k') \/ u \in Waiters' \/ Asleep(u)'
      BY <2>6, <2>7, TaskFacts DEF HInv, KernelInv, Asleep
    <3> QED
      BY <1>2, <2>4, <2>5, <2>6, <2>7, <3>1 DEF HInv, KernelInv, Quiet
  <2>9. MutexInv'
    BY <1>1, <1>5, <1>6, <2>5, <2>6 DEF HInv, MutexInv
  <2> QED
    BY <2>8, <2>9 DEF HInv
<1> QED
  BY <1>4, <1>7, <1>8

\* It goes on.
LEMMA HAwake ==
  ASSUME HInv, Awake, IInv'
  PROVE  HInv'
<1> DEFINE t == Routing
<1>1. Runs(t) /\ writer[t].at = "wait" /\ TypeInv /\ UNCHANGED mutex /\ t \in Task
  BY TaskFacts DEF Awake, At, HInv, IInv
<1>2. Moves(t) /\ writer'[t].at = "idle"
  BY <1>1, GotoMoves DEF Awake, Place
<1>3. t \in ReadyTasks(k) /\ t \notin Waiters /\ t = k.pxCurrentTCB
  BY <1>1, RunningTask
<1>4. k' = [k EXCEPT !.value[t] = FALSE, !.notify[t] = "none"]
  BY <1>3 DEF Awake, NotifyTaken
<1>5. Kern(k)' /\ Keeps(k', k, {"value", "notify"}) /\ k'.notify = [k.notify EXCEPT ![t] = "none"]
  BY <1>1, <1>4 DEF HInv, KernelInv, Kern, Keeps, Fields
<1>6. /\ k'.ready = k.ready /\ k'.waiting = k.waiting /\ k'.prio = k.prio /\ k'.held = k.held
      /\ k'.suspended = k.suspended /\ k'.pending = k.pending /\ k'.pendedTicks = k.pendedTicks
      /\ k'.pendSV = k.pendSV /\ k'.pxCurrentTCB = k.pxCurrentTCB
  BY <1>5 DEF Keeps, Fields
<1>7. k'.notify[t] = "none" /\ k'.notify[Console] = k.notify[Console]
  BY <1>1, <1>5, TaskFacts DEF HInv, KernelInv, Kern
<1>8. ReadyTasks(k') = ReadyTasks(k) /\ Waiters' = Waiters
  BY <1>6 DEF ReadyTasks, Waiters
<1>9. KernelInv'
  <2>1. \A u \in Task : u \in ReadyTasks(k') \/ u \in Waiters' \/ Asleep(u)'
    BY <1>3, <1>8, TaskFacts DEF HInv, KernelInv, Asleep
  <2> QED
    BY <1>5, <1>6, <1>7, <1>8, <2>1 DEF HInv, KernelInv, Quiet
<1>10. Filling' = Filling /\ \A u \in Task : writer'[u].at \in Fill <=> writer[u].at \in Fill
  BY <1>1, <1>2, FillingGo DEF Fill, Filling, Moves
<1>11. ASSUME NEW w \in Task, Waiters = {w}, Inherited(w) PROVE Inherited(w)'
  <2>1. w # t
    BY <1>3, <1>11
  <2>2. writer'[w] = writer[w]
    BY <1>2, <2>1 DEF Moves
  <2> QED
    BY <1>1, <1>6, <1>11, <2>2 DEF Inherited
<1>12. MutexInv'
  BY <1>1, <1>6, <1>8, <1>10, <1>11 DEF HInv, MutexInv
<1> QED
  BY <1>9, <1>12 DEF HInv

\* Some task is ready: no task waits for a mutex that nobody holds.
LEMMA SomeReady ==
  ASSUME HInv
  PROVE  ReadyTasks(k) # {}
<1>1. CASE Waiters = {}
  BY <1>1, TaskFacts DEF HInv, KernelInv, Asleep
<1>2. CASE \E w \in Task : Waiters = {w} /\ Inherited(w)
  <2>1. PICK w \in Task : Waiters = {w} /\ Inherited(w)
    BY <1>2
  <2>2. PICK h \in Task \ {w} : mutex = [free |-> FALSE, holder |-> h]
    BY <2>1 DEF Inherited
  <2>3. h \in Filling
    BY <2>2 DEF HInv, MutexInv, FreeMutex
  <2>4. ~Asleep(h) /\ h \notin Waiters
    BY <2>1, <2>3 DEF HInv, KernelInv, Asleep, Filling
  <2> QED
    BY <2>4 DEF HInv, KernelInv
<1> QED
  BY <1>1, <1>2 DEF HInv, MutexInv

\* Steps of the kernel alone.
LEMMA HKernel ==
  ASSUME HInv, IInv', UNCHANGED <<mutex, writer>>, Kern(k)', Quiet(k)',
         ~k'.pendSV => k'.pxCurrentTCB \in ReadyTasks(k'),
         k'.waiting = k.waiting, k'.prio = k.prio, k'.held = k.held,
         k'.notify[Console] # "waiting",
         k'.notify[Routing] = "waiting" => k.notify[Routing] = "waiting",
         \/ ReadyTasks(k') = ReadyTasks(k) /\ k'.notify[Routing] = k.notify[Routing]
         \/ ReadyTasks(k') = ReadyTasks(k) \cup {Routing} /\ k.notify[Routing] = "waiting"
         \/ ReadyTasks(k') = ReadyTasks(k) /\ k.notify[Routing] # "waiting"
  PROVE  HInv'
<1>1. Waiters' = Waiters
  BY DEF Waiters
<1>2. Routing \in Waiters => k.notify[Routing] # "waiting"
  BY DEF HInv, MutexInv, KernelInv, Inherited
<1>3. \A u \in Task : u \in ReadyTasks(k') => u \notin Waiters'
  BY <1>1, <1>2 DEF HInv, KernelInv
<1>4. \A u \in Task : u \in ReadyTasks(k') \/ u \in Waiters' \/ Asleep(u)'
  BY <1>1 DEF HInv, KernelInv, Asleep
<1>5. KernelInv'
  BY <1>3, <1>4 DEF HInv, KernelInv
<1>6. Filling' = Filling
  BY DEF Filling
<1>7. \A w \in Task : Inherited(w) => Inherited(w)'
  BY DEF Inherited
<1>8. MutexInv'
  BY <1>1, <1>6, <1>7 DEF HInv, MutexInv
<1> QED
  BY <1>5, <1>8 DEF HInv

LEMMA HSwitch ==
  ASSUME HInv, PendSV, IInv'
  PROVE  HInv'
<1>1. k' = vTaskSwitchContext(k) /\ UNCHANGED <<mutex, writer>>
  BY DEF PendSV
<1>2. Kern(k) /\ Quiet(k) /\ EndMark \notin Task /\ ReadyTasks(k) # {} /\ k.suspended = 0
  BY TaskFacts, SomeReady DEF HInv, KernelInv, Quiet
<1>3. /\ Kern(k)' /\ Keeps(k', k, {"pendSV", "yieldPending", "ready", "pxCurrentTCB"})
      /\ \A p \in Priority : Members(k'.ready[p]) = Members(k.ready[p])
      /\ k'.pxCurrentTCB \in ReadyAt(k, TopReadyPriority(k))
  BY <1>1, <1>2, SwitchKernel
<1>4. /\ k'.notify = k.notify /\ k'.waiting = k.waiting /\ k'.prio = k.prio /\ k'.held = k.held
      /\ k'.suspended = k.suspended /\ k'.pending = k.pending /\ k'.pendedTicks = k.pendedTicks
  BY <1>3 DEF Keeps, Fields
<1>5. ReadyTasks(k') = ReadyTasks(k)
  <2>1. \A x : x \in ReadyTasks(k') <=> x \in ReadyTasks(k)
    BY <1>3, ReadyMember
  <2> QED
    BY <2>1
<1>6. k'.pxCurrentTCB \in ReadyTasks(k')
  BY <1>2, <1>3, <1>5, TopPriority DEF ReadyAt, ReadyTasks
<1> QED
  BY <1>1, <1>2, <1>3, <1>4, <1>5, <1>6, HKernel DEF HInv, KernelInv, Quiet

LEMMA HBusIsr ==
  ASSUME HInv, BusIsr, IInv'
  PROVE  HInv'
<1> DEFINE t == Routing
           n == Notified(k, t)
           r == Readied(n, t)
           x == xTaskGenericNotifyFromISR(k, t)
<1>1. UNCHANGED <<mutex, writer>> /\ k' \in {x, portYIELD(x)}
  BY DEF BusIsr, notifyFromISRWithWake
<1>2. Kern(k) /\ Quiet(k) /\ EndMark \notin Task /\ k.suspended = 0 /\ t \in Task
  BY TaskFacts DEF HInv, KernelInv, Quiet
<1>3. /\ Kern(n) /\ Keeps(n, k, {"notify", "value"}) /\ n.notify = [k.notify EXCEPT ![t] = "received"]
      /\ n.ready = k.ready
  BY <1>2 DEF Notified, Kern, Keeps, Fields
<1>4. x = IF k.notify[t] # "waiting" THEN n ELSE [r EXCEPT !.yieldPending = @ \/ Outranks(k, t)]
  BY <1>2 DEF xTaskGenericNotifyFromISR
<1> HIDE DEF n, x
<1>5. Kern(r) /\ Keeps(r, n, StateLists) /\ ReadyTasks(r) = ReadyTasks(n) \cup {t}
  BY <1>2, <1>3, ReadiedKernel, ReadiedTasks
<1> HIDE DEF r
<1> DEFINE F == StateLists \cup {"notify", "value", "yieldPending"}
<1>6. ReadyTasks(n) = ReadyTasks(k)
  BY <1>3 DEF ReadyTasks
<1>7. /\ Kern(x) /\ Keeps(x, k, F) /\ x.notify = n.notify
      /\ ReadyTasks(x) = IF k.notify[t] # "waiting" THEN ReadyTasks(k) ELSE ReadyTasks(k) \cup {t}
  <2>1. CASE k.notify[t] # "waiting"
    BY <1>3, <1>4, <1>6, <2>1 DEF Keeps
  <2>2. CASE k.notify[t] = "waiting"
    <3> DEFINE y == r.yieldPending \/ Outranks(k, t)
    <3>1. x = [r EXCEPT !.yieldPending = y]
      BY <1>4, <2>2
    <3> HIDE DEF y
    <3>2. Kern(x) /\ Keeps(x, r, {"yieldPending"}) /\ x.ready = r.ready /\ x.notify = r.notify
      BY <1>5, <3>1 DEF Kern, Keeps, Fields
    <3>3. Keeps(x, k, F) /\ r.notify = n.notify
      BY <1>3, <1>5, <3>2 DEF Keeps, Fields, StateLists
    <3>4. ReadyTasks(x) = ReadyTasks(r)
      BY <3>2 DEF ReadyTasks
    <3> QED
      BY <1>5, <1>6, <2>2, <3>2, <3>3, <3>4
  <2> QED
    BY <2>1, <2>2
<1>8. /\ Kern(k)' /\ Keeps(k', x, {"pendSV"}) /\ k'.ready = x.ready
      /\ x.pendSV => k'.pendSV
  <2>1. CASE k' = x
    BY <1>7, <2>1 DEF Keeps
  <2>2. CASE k' = portYIELD(x)
    BY <1>7, <2>2 DEF portYIELD, Kern, Keeps, Fields
  <2> QED
    BY <1>1, <2>1, <2>2
<1>9. /\ k'.notify = n.notify /\ k'.waiting = k.waiting /\ k'.prio = k.prio /\ k'.held = k.held
      /\ k'.suspended = k.suspended /\ k'.pending = k.pending /\ k'.pendedTicks = k.pendedTicks
      /\ k'.pxCurrentTCB = k.pxCurrentTCB /\ x.pendSV = k.pendSV
  BY <1>7, <1>8 DEF Keeps, Fields, StateLists
<1>10. ReadyTasks(k') = ReadyTasks(x)
  BY <1>8 DEF ReadyTasks
<1>11. k'.notify[t] = "received" /\ k'.notify[Console] = k.notify[Console]
  BY <1>2, <1>3, <1>9, TaskFacts DEF Kern
<1>12. ~k'.pendSV => k'.pxCurrentTCB \in ReadyTasks(k')
  BY <1>7, <1>8, <1>9, <1>10 DEF HInv, KernelInv
<1>13. Quiet(k)' /\ k'.notify[Console] # "waiting" /\ k'.notify[Routing] # "waiting"
  BY <1>2, <1>9, <1>11 DEF HInv, KernelInv, Quiet
<1> QED
  BY <1>1, <1>7, <1>8, <1>9, <1>10, <1>12, <1>13, HKernel

LEMMA HInit == Init /\ IInv => HInv
<1> SUFFICES ASSUME Init, IInv PROVE HInv
  OBVIOUS
<1>1. k = InitKernel /\ mutex = FreeMutex /\ \A t \in Task : writer[t].at = "idle"
  BY DEF Init
<1>2. /\ DOMAIN k = Fields /\ k.pxCurrentTCB = Routing /\ k.prio = BasePriority
      /\ k.ready = [p \in Priority |-> IF p = BasePriority[Routing] THEN <<Routing, EndMark>>
                                        ELSE <<Console, EndMark>>]
      /\ k.delayed = <<>> /\ k.overflow = <<>> /\ k.pending = <<>>
      /\ k.waiting = [o \in Object |-> <<>>]
      /\ k.wake = [t \in Task |-> 0] /\ k.notify = [t \in Task |-> "none"]
      /\ k.value = [t \in Task |-> FALSE] /\ k.held = [t \in Task |-> 0]
      /\ k.suspended = 0 /\ k.pendedTicks = 0
  BY <1>1 DEF InitKernel, Fields
<1>3. \A t \in Task : <<t, EndMark>> \in Rings /\ Members(<<t, EndMark>>) = {t, EndMark}
  <2> SUFFICES ASSUME NEW t \in Task
               PROVE  <<t, EndMark>> \in Rings /\ Members(<<t, EndMark>>) = {t, EndMark}
    OBVIOUS
  <2> DEFINE r == <<t, EndMark>>
  <2>1. /\ r \in Seq(Task \cup {EndMark}) /\ DOMAIN r = 1..2 /\ r[1] = t /\ r[2] = EndMark
        /\ t # EndMark
    BY TaskFacts
  <2> HIDE DEF r
  <2>2. Members(r) = {t, EndMark}
    BY <2>1 DEF Members
  <2>3. Once(r)
    BY <2>1 DEF Once
  <2> QED
    BY <2>1, <2>2, <2>3 DEF Rings, Lists, r
<1>4. \A S : <<>> \in Lists(S) /\ Members(<<>>) = {}
  BY DEF Lists, Once, Members
<1>5. Kern(k)
  <2>1. k.ready \in [Priority -> Rings]
    BY <1>2, <1>3, TaskFacts
  <2>2. k.waiting \in [Object -> Lists(Task)]
    BY <1>2, <1>4
  <2>3. k.prio \in [Task -> Priority]
    BY <1>2, KernelAssumption DEF Priority
  <2>4. k.held \in [Task -> Int]
    BY <1>2
  <2>5. k.pxCurrentTCB \in Task /\ DOMAIN k.wake = Task /\ DOMAIN k.notify = Task /\ DOMAIN k.value = Task
    BY <1>2, TaskFacts
  <2>6. k.delayed \in Lists(Task) /\ k.overflow \in Lists(Task) /\ k.pending \in Lists(Task)
    BY <1>2, <1>4
  <2>7. DOMAIN k = Fields
    BY <1>2
  <2> QED
    BY <2>1, <2>2, <2>3, <2>4, <2>5, <2>6, <2>7 DEF Kern
<1>6. Waiters = {}
  BY <1>2, <1>4, TaskFacts DEF Waiters
<1>7. \A t \in Task : t \in ReadyTasks(k)
  <2>1. BasePriority[Routing] # BasePriority[Console]
    BY SerialAssumption, TaskFacts
  <2>2. \A t \in Task : t \in Members(k.ready[BasePriority[t]])
    BY <1>2, <1>3, <2>1, TaskFacts
  <2> QED
    BY <2>2, TaskFacts, ReadyMember
<1>8. KernelInv
  BY <1>1, <1>2, <1>5, <1>6, <1>7, TaskFacts DEF KernelInv, Quiet
<1>9. MutexInv
  BY <1>1, <1>2, <1>6 DEF MutexInv, Filling, Fill
<1> QED
  BY <1>8, <1>9 DEF HInv

LEMMA HAfter ==
  ASSUME HInv, NEW t \in Task, Runs(t), UNCHANGED <<k, mutex>>, IInv',
         writer[t].at \in Place \ (Fill \cup {"wait"}),
         After(t) \/ \E p \in Place \ Fill : Goto(t, p)
  PROVE  HInv'
<1>1. TypeInv
  BY DEF HInv, IInv
<1>2. Moves(t) /\ writer'[t].at \notin Fill
  BY <1>1, AfterMoves, GotoMoves DEF Fill
<1> QED
  BY <1>2, HPrivate DEF Fill

LEMMA HTaskStep ==
  ASSUME HInv, NEW t \in Task, TaskStep(t), IInv'
  PROVE  HInv'
<1>1. TypeInv
  BY DEF HInv, IInv
<1>2. CASE SerialWrite(t)
  <2>1. Runs(t) /\ writer[t].at = "idle" /\ UNCHANGED <<k, mutex>>
    BY <1>2 DEF SerialWrite, At
  <2>2. Moves(t) /\ writer'[t].at = "lock"
    BY <1>1, <1>2, WriteMoves
  <2> QED
    BY <2>1, <2>2, HPrivate DEF Fill
<1>3. CASE Allocate(t)
  <2>1. Runs(t) /\ writer[t].at = "allocate" /\ UNCHANGED <<k, mutex>>
    BY <1>3 DEF Allocate, At
  <2>2. Moves(t) /\ writer'[t].at \in {"publish", "unlock"}
    BY <1>1, <1>3, AllocateMoves
  <2> QED
    BY <2>1, <2>2, HPrivate DEF Fill
<1>4. CASE Publish(t)
  <2>1. Runs(t) /\ writer[t].at = "publish" /\ UNCHANGED <<k, mutex>>
    BY <1>4 DEF Publish, At
  <2>2. Moves(t) /\ writer'[t].at = "unlock"
    BY <1>1, <1>4, PublishMoves
  <2> QED
    BY <2>1, <2>2, HPrivate DEF Fill
<1>5. CASE \/ Start(t) \/ Claim(t) \/ Peek(t) \/ Release(t) \/ Configure(t) \/ EnableTxDma(t)
  <2>1. Runs(t) /\ UNCHANGED <<k, mutex>> /\ writer[t].at \in {"start", "claim"} \cup Owning
    BY <1>5 DEF Start, Claim, Peek, Release, Configure, EnableTxDma, At, Owning
  <2>2. After(t) \/ \E p \in {"start", "claim"} \cup Owning : Goto(t, p)
    BY <1>5 DEF Start, Claim, Peek, Release, Configure, EnableTxDma, Owning
  <2>3. {"start", "claim"} \cup Owning \subseteq Place \ (Fill \cup {"wait"})
    BY DEF Place, Fill, Owning
  <2> QED
    BY <2>1, <2>2, <2>3, HAfter
<1> QED
  BY <1>2, <1>3, <1>4, <1>5, HLock, HBlock, HUnlock, Zenon DEF TaskStep

\* The DMA and its handler leave the tasks alone.
LEMMA HStep ==
  ASSUME HInv, [Next]_vars
  PROVE  HInv'
<1>1. IInv'
  BY StepInv DEF HInv
<1>2. CASE DmaByte \/ dma1_channel4_isr \/ UNCHANGED vars
  <2>1. UNCHANGED <<k, mutex, writer>>
    BY <1>2 DEF DmaByte, dma1_channel4_isr, vars
  <2>2. UNCHANGED <<Waiters, Filling>> /\ \A t \in Task : /\ Asleep(t)' = Asleep(t)
                                                         /\ Inherited(t)' = Inherited(t)
    BY <2>1 DEF Waiters, Filling, Asleep, Inherited
  <2>3. KernelInv'
    BY <2>1, <2>2 DEF HInv, KernelInv
  <2>4. MutexInv'
    BY <2>1, <2>2 DEF HInv, MutexInv
  <2> QED
    BY <1>1, <2>3, <2>4 DEF HInv
<1>3. CASE Processor
  BY <1>1, <1>3, HTaskStep, HWait, HAwake, Zenon DEF Processor
<1> QED
  BY <1>1, <1>2, <1>3, HSwitch, HBusIsr, Zenon DEF Next

\* Whichever task holds serialWriteMutex_ runs at least with the priority of the
\* one that waits for it, gives that priority back with the mutex, and it alone
\* fills the ring.
THEOREM PriorityInherited == Spec => []HolderInherits
<1>1. Init => HInv
  BY InitInv, HInit
<1>2. HInv /\ [Next]_vars => HInv'
  BY HStep
<1>3. HInv => HolderInherits
  <2> SUFFICES ASSUME HInv PROVE HolderInherits
    OBVIOUS
  <2>1. Filling = (IF mutex.free THEN {} ELSE {mutex.holder})
    BY DEF HInv, MutexInv, FreeMutex
  <2>2. \A t \in Members(k.waiting[serialWriteMutex_]) :
          ~mutex.free => k.prio[mutex.holder] >= k.prio[t]
    BY DEF HInv, MutexInv, Waiters, Inherited
  <2>3. \A t \in Task : t \notin Filling => k.prio[t] = BasePriority[t]
    BY DEF HInv, MutexInv, Filling, Fill
  <2> QED
    BY <2>1, <2>2, <2>3 DEF HolderInherits
<1> QED
  BY <1>1, <1>2, <1>3, PTL DEF Spec

-----------------------------------------------------------------------------
(***************************************************************************)
(* The bytes.  The ring is unrolled: a position is the number of bytes     *)
(* that were published before it, and the bytes of each task follow each   *)
(* other by position.                                                      *)
(***************************************************************************)
Item == [by : Task \cup {None}, n : Int]
Ring == [p \in Int |-> mem[p % size]]

\* The next position to send, and the end of what is filled.
Unsent == IF Sending THEN dma.at ELSE tail
Filled == head + writer[Routing].len + writer[Console].len

\* How many bytes a task has sent, and how many it has put into the ring.
Sent == [t \in Task |-> Len(wire[t])]
PutBy(t) ==
  IF writer[t].at \in {"idle", "wait"} THEN (Writes[t] - writer[t].left) * Length(t)
  ELSE Before(t) + Expanded(t, Written(t)) - (IF writer[t].rest THEN 1 ELSE 0)
Put == [t \in Task |-> PutBy(t)]

\* From one position up to another, the bytes of each task follow each other,
\* the first one what is sent, and the last one is the last that was put there.
Follows(f, from, sent, p) ==
  \/ f[p].n = sent[f[p].by] + 1
  \/ \E q \in from..(p - 1) : f[q] = Byte(f[p].by, f[p].n - 1)

Chain(f, from, to, sent, put) ==
  /\ \A p \in from..(to - 1) :
       /\ f[p].by \in Task
       /\ f[p].n > sent[f[p].by] /\ f[p].n <= put[f[p].by]
       /\ Follows(f, from, sent, p)
  /\ \A p, q \in from..(to - 1) : p < q /\ f[p].by = f[q].by => f[p].n < f[q].n
  /\ \A t \in Task : sent[t] = put[t] \/ \E p \in from..(to - 1) : f[p] = Byte(t, put[t])

WireInv ==
  /\ wire \in [Task \cup {None} -> Seq(Int)]
  /\ wire[None] = <<>>
  /\ \A t \in Task : \A i \in 1..Len(wire[t]) : wire[t][i] = i

\* The range of a transfer is between tail and head.
TransferInv ==
  /\ tail <= head /\ Filled - tail <= size
  /\ mem \in [0..(size - 1) -> Item]
  /\ \A t \in Task :
       /\ writer[t].at = "configure" =>
            serialDmaMemory_.at = tail /\ serialDmaMemory_.len <= head - tail
       /\ writer[t].at = "enable" => dma.at = tail
  /\ Sending \/ (\E t \in Task : writer[t].at = "enable") =>
       /\ dma.at >= tail /\ dma.at + dma.left = tail + serialDmaMemory_.len
       /\ serialDmaMemory_.len <= head - tail
  /\ dma.done => dma.left = 0

\* What the local variables of SerialWrite() say at each place.
PlaceInv ==
  \A t \in Task :
    /\ writer[t].used \in Nat /\ writer[t].took \in Nat /\ writer[t].len \in Nat
    /\ writer[t].at # "publish" => writer[t].len = 0
    /\ Written(t) <= Len(Text[t])
    /\ writer[t].at \in {"lock", "block", "allocate"} =>
         writer[t].took = 0 /\ (writer[t].rest \/ writer[t].used < Len(Text[t]))
    /\ writer[t].at \in {"idle", "wait"} => ~writer[t].rest /\ writer[t].took = 0

BInv == HInv /\ WireInv /\ TransferInv /\ PlaceInv /\ Chain(Ring, Unsent, Filled, Sent, Put)

-----------------------------------------------------------------------------
(***************************************************************************)
(* Positions in a ring.                                                    *)
(***************************************************************************)
LEMMA ModUnique ==
  ASSUME NEW b \in Nat \ {0}, NEW q \in Int, NEW d \in 0..(b - 1)
  PROVE  (b * q + d) % b = d
<1> DEFINE y == b * q
           x == y + d
           r == x % b
<1>1. y \in Int
  OBVIOUS
<1>2. y = b * q
  OBVIOUS
<1> HIDE DEF y
<1>3. x \in Int /\ r \in 0..(b - 1)
  BY <1>1
<1> DEFINE s == x \div b
<1>4. s \in Int /\ x = b * s + r
  BY <1>3
<1> HIDE DEF r, s
<1>5. b * (q - s) = r - d
  BY <1>2, <1>3, <1>4
<1>6. CASE q - s >= 1
  <2>1. b * (q - s) >= b
    BY <1>4, <1>6
  <2> QED
    BY <1>3, <1>5, <2>1
<1>7. CASE q - s <= -1
  <2>1. b * (q - s) <= -b
    BY <1>4, <1>7
  <2> QED
    BY <1>3, <1>5, <2>1
<1>8. CASE q = s
  <2>1. r = d
    BY <1>3, <1>5, <1>8
  <2> QED
    BY <2>1 DEF r, y
<1> QED
  BY <1>4, <1>6, <1>7, <1>8

\* How far a place in the ring is from the head.
LEMMA Distance ==
  ASSUME NEW b \in Nat \ {0}, NEW h \in Int, NEW p \in Int
  PROVE  /\ p - h \in 0..(b - 1) => ((p % b) - h) % b = p - h
         /\ h - p \in 1..b => ((p % b) - h) % b = b - (h - p)
<1> DEFINE q == p \div b
           r == p % b
           y == b * (-q)
           z == b * ((-q) - 1)
<1>1. q \in Int /\ r \in 0..(b - 1) /\ p = b * q + r
  OBVIOUS
<1> HIDE DEF q, r
<1>2. r - h = y + (p - h) /\ r - h = z + (b - (h - p))
  BY <1>1
<1>3. ASSUME p - h \in 0..(b - 1) PROVE (r - h) % b = p - h
  <2> DEFINE d == p - h
  <2>1. d \in 0..(b - 1) /\ (-q) \in Int
    BY <1>1, <1>3
  <2> HIDE DEF d
  <2>2. (b * (-q) + d) % b = d
    BY <2>1, ModUnique
  <2> QED
    BY <1>2, <2>2 DEF d
<1>4. ASSUME h - p \in 1..b PROVE (r - h) % b = b - (h - p)
  <2> DEFINE d == b - (h - p)
  <2>1. d \in 0..(b - 1) /\ (-q) - 1 \in Int
    BY <1>1, <1>4
  <2> HIDE DEF d
  <2>2. (b * ((-q) - 1) + d) % b = d
    BY <2>1, ModUnique
  <2> QED
    BY <1>2, <2>2 DEF d
<1> QED
  BY <1>3, <1>4 DEF r

-----------------------------------------------------------------------------
(***************************************************************************)
(* The bytes of a text.                                                    *)
(***************************************************************************)
\* A character is one byte or, if it is a newline, two.
LEMMA NextExpanded ==
  ASSUME NEW t \in Task, NEW n \in Nat
  PROVE  /\ Expanded(t, n) \in Nat /\ Expanded(t, 0) = 0
         /\ Expanded(t, n + 1) = Expanded(t, n) + (IF Text[t][n + 1] THEN 2 ELSE 1)
<1> DEFINE N(m) == {i \in 1..m : Text[t][i]}
<1>1. \A m \in Nat : IsFiniteSet(N(m)) /\ Cardinality(N(m)) \in Nat
  <2> SUFFICES ASSUME NEW m \in Nat PROVE IsFiniteSet(N(m)) /\ Cardinality(N(m)) \in Nat
    OBVIOUS
  <2>1. IsFiniteSet(1..m)
    BY FS_Interval
  <2>2. IsFiniteSet(N(m))
    BY <2>1, FS_Subset
  <2> QED
    BY <2>2, FS_CardinalityType
<1>2. N(0) = {} /\ Cardinality({}) = 0
  BY FS_EmptySet
<1>3. N(n + 1) = IF Text[t][n + 1] THEN N(n) \cup {n + 1} ELSE N(n)
  <2>1. \A i : i \in 1..(n + 1) <=> i \in 1..n \/ i = n + 1
    OBVIOUS
  <2> QED
    BY <2>1
<1>4. Cardinality(N(n) \cup {n + 1}) = Cardinality(N(n)) + 1
  <2>1. n + 1 \notin N(n)
    OBVIOUS
  <2> HIDE DEF N
  <2> QED
    BY <1>1, <2>1, FS_AddElement
<1>5. /\ Expanded(t, n) = n + Cardinality(N(n)) /\ Expanded(t, 0) = 0 + Cardinality(N(0))
      /\ Expanded(t, n + 1) = (n + 1) + Cardinality(N(n + 1))
  BY DEF Expanded
<1> HIDE DEF N
<1> QED
  BY <1>1, <1>2, <1>3, <1>4, <1>5

LEMMA MoreExpanded ==
  ASSUME NEW t \in Task, NEW n \in Nat, NEW m \in Nat, n <= m
  PROVE  Expanded(t, m) - Expanded(t, n) >= m - n
<1> DEFINE N(x) == {i \in 1..x : Text[t][i]}
<1>1. N(n) \subseteq N(m)
  OBVIOUS
<1>2. IsFiniteSet(N(m))
  <2>1. IsFiniteSet(1..m)
    BY FS_Interval
  <2> QED
    BY <2>1, FS_Subset
<1>3. Cardinality(N(n)) <= Cardinality(N(m)) /\ Cardinality(N(n)) \in Nat /\ Cardinality(N(m)) \in Nat
  <2> HIDE DEF N
  <2>1. IsFiniteSet(N(n)) /\ Cardinality(N(n)) <= Cardinality(N(m))
    BY <1>1, <1>2, FS_Subset
  <2> QED
    BY <1>2, <2>1, FS_CardinalityType
<1>4. Expanded(t, n) = n + Cardinality(N(n)) /\ Expanded(t, m) = m + Cardinality(N(m))
  BY DEF Expanded
<1> HIDE DEF N
<1> QED
  BY <1>3, <1>4

\* The characters whose first byte is among the first bytes of a text, the last
\* of them with or without its second byte.
LEMMA CharactersUpTo ==
  ASSUME NEW t \in Task, NEW last \in Nat, last <= Length(t)
  PROVE  LET upto == Cardinality({c \in 1..Len(Text[t]) : Expanded(t, c - 1) < last})
         IN  /\ upto \in 0..Len(Text[t])
             /\ Expanded(t, upto) \in {last, last + 1}
             /\ \A n \in 0..Len(Text[t]) : Expanded(t, n) <= last => n <= upto
             /\ \A n \in 0..Len(Text[t]) : Expanded(t, n) = last => n = upto
<1> DEFINE L == Len(Text[t])
           E(n) == Expanded(t, n)
           Y == {n \in 0..L : E(n) >= last}
<1>1. L \in Nat /\ E(L) = Length(t)
  BY SerialAssumption DEF Length
<1>2. \A n \in Nat : E(n) \in Nat
  BY NextExpanded
<1>3. \A n \in Nat : E(n + 1) \in {E(n) + 1, E(n) + 2} /\ E(0) = 0
  BY NextExpanded
<1>4. \A n, m \in Nat : n <= m => E(m) - E(n) >= m - n
  BY MoreExpanded
<1> DEFINE C == {c \in 1..L : E(c - 1) < last}
<1> HIDE DEF E, L
<1>5. PICK u \in Y : \A n \in Y : u <= n
  <2>1. L \in Y /\ Y \in SUBSET Nat
    BY <1>1
  <2> QED
    BY <2>1, LeastNatural
<1>6. u \in 0..L /\ E(u) >= last /\ \A n \in 0..L : n < u => E(n) < last
  BY <1>1, <1>2, <1>5
<1>7. C = 1..u
  <2>1. ASSUME NEW c \in 1..L, c <= u PROVE E(c - 1) < last
    BY <1>1, <1>6, <2>1
  <2>2. ASSUME NEW c \in 1..L, c > u PROVE ~(E(c - 1) < last)
    <3>1. c - 1 \in Nat /\ u \in Nat /\ u <= c - 1
      BY <1>1, <1>6, <2>2
    <3>2. E(c - 1) - E(u) >= (c - 1) - u /\ E(c - 1) \in Nat /\ E(u) \in Nat
      BY <1>2, <1>4, <3>1
    <3> QED
      BY <1>6, <3>1, <3>2
  <2> QED
    BY <1>1, <1>6, <2>1, <2>2
<1>8. Cardinality(C) = u
  <2>1. Cardinality(1..u) = u
    <3>1. u \in Nat
      BY <1>1, <1>6
    <3> QED
      BY <3>1, FS_Interval
  <2> QED
    BY <1>7, <2>1
<1>9. E(u) \in {last, last + 1}
  <2>1. CASE u = 0
    BY <1>3, <1>6, <2>1
  <2>2. CASE u > 0
    <3>1. u - 1 \in Nat /\ u - 1 \in 0..L /\ E(u - 1) < last
      BY <1>1, <1>6, <2>2
    <3>2. E((u - 1) + 1) \in {E(u - 1) + 1, E(u - 1) + 2} /\ E(u - 1) \in Nat
      BY <1>2, <1>3, <3>1
    <3>3. (u - 1) + 1 = u
      BY <1>1, <1>6
    <3> QED
      BY <1>6, <3>1, <3>2, <3>3
  <2> QED
    BY <1>1, <1>6, <2>1, <2>2
<1>10. \A n \in 0..L : E(n) <= last => n <= u
  <2> SUFFICES ASSUME NEW n \in 0..L, E(n) <= last, n > u PROVE FALSE
    BY <1>1, <1>6
  <2>1. E(n) - E(u) >= n - u /\ E(n) \in Nat /\ E(u) \in Nat
    BY <1>1, <1>2, <1>4, <1>6
  <2> QED
    BY <1>1, <1>6, <2>1
<1>11. \A n \in 0..L : E(n) = last => n = u
  <2> SUFFICES ASSUME NEW n \in 0..L, E(n) = last PROVE n = u
    OBVIOUS
  <2>1. n <= u /\ ~(n < u)
    BY <1>1, <1>6, <1>10
  <2> QED
    BY <1>1, <1>6, <2>1
<1> QED
  BY <1>6, <1>8, <1>9, <1>10, <1>11 DEF L, E

-----------------------------------------------------------------------------
(***************************************************************************)
(* Chains.                                                                 *)
(***************************************************************************)
\* The first byte is the next one of its task, and may be sent.
LEMMA ChainSend ==
  ASSUME NEW f \in [Int -> Item], NEW from \in Int, NEW to \in Int, from < to,
         NEW sent \in [Task -> Int], NEW put \in [Task -> Int],
         Chain(f, from, to, sent, put)
  PROVE  LET b == f[from]
         IN  /\ b.by \in Task /\ b.n = sent[b.by] + 1
             /\ Chain(f, from + 1, to, [sent EXCEPT ![b.by] = b.n], put)
<1> DEFINE b == f[from]
           s == [sent EXCEPT ![b.by] = b.n]
<1>1. b.by \in Task /\ b.n \in Int /\ b.n > sent[b.by] /\ b.n <= put[b.by] /\ from \in from..(to - 1)
  BY DEF Chain, Item
<1>2. b.n = sent[b.by] + 1
  <2>1. from..(from - 1) = {}
    OBVIOUS
  <2> QED
    BY <1>1, <2>1 DEF Chain, Follows
<1>3. s \in [Task -> Int] /\ s[b.by] = b.n /\ \A t \in Task : t # b.by => s[t] = sent[t]
  BY <1>1
<1>4. b = Byte(b.by, b.n)
  BY DEF Byte, Item
<1> HIDE DEF s
<1>5. ASSUME NEW p \in (from + 1)..(to - 1)
      PROVE  /\ f[p].by \in Task /\ f[p].n \in Int
             /\ f[p].n > s[f[p].by] /\ f[p].n <= put[f[p].by]
  <2>1. p \in from..(to - 1) /\ from < p
    OBVIOUS
  <2>2. f[p].by \in Task /\ f[p].n > sent[f[p].by] /\ f[p].n <= put[f[p].by] /\ f[p].n \in Int
    BY <2>1 DEF Chain, Item
  <2>3. b.by = f[p].by => b.n < f[p].n
    BY <1>1, <2>1 DEF Chain
  <2> QED
    BY <1>1, <1>3, <2>2, <2>3
<1>6. ASSUME NEW p \in (from + 1)..(to - 1)
      PROVE  Follows(f, from + 1, s, p)
  <2>1. p \in from..(to - 1) /\ f[p].by \in Task /\ f[p].n \in Int
    BY <1>5
  <2>2. CASE f[p].n = sent[f[p].by] + 1
    <3>1. f[p].by # b.by
      BY <1>2, <1>3, <1>5, <2>2
    <3> QED
      BY <1>3, <2>1, <2>2, <3>1 DEF Follows
  <2>3. CASE \E q \in from..(p - 1) : f[q] = Byte(f[p].by, f[p].n - 1)
    <3>1. PICK q \in from..(p - 1) : f[q] = Byte(f[p].by, f[p].n - 1)
      BY <2>3
    <3>2. CASE q = from
      <4>1. b.by = f[p].by /\ b.n = f[p].n - 1
        BY <3>1, <3>2 DEF Byte
      <4>2. f[p].n = s[f[p].by] + 1
        BY <1>3, <2>1, <4>1
      <4> QED
        BY <4>2 DEF Follows
    <3>3. CASE q # from
      <4>1. q \in (from + 1)..(p - 1)
        BY <3>3
      <4> QED
        BY <3>1, <4>1 DEF Follows
    <3> QED
      BY <3>2, <3>3
  <2> QED
    BY <2>1, <2>2, <2>3 DEF Chain, Follows
<1>7. \A p, q \in (from + 1)..(to - 1) : p < q /\ f[p].by = f[q].by => f[p].n < f[q].n
  BY DEF Chain
<1>8. ASSUME NEW t \in Task
      PROVE  s[t] = put[t] \/ \E p \in (from + 1)..(to - 1) : f[p] = Byte(t, put[t])
  <2>1. CASE sent[t] = put[t]
    <3>1. t # b.by
      BY <1>1, <2>1
    <3> QED
      BY <1>3, <2>1, <3>1
  <2>2. CASE \E p \in from..(to - 1) : f[p] = Byte(t, put[t])
    <3>1. PICK p \in from..(to - 1) : f[p] = Byte(t, put[t])
      BY <2>2
    <3>2. CASE p = from
      <4>1. b.by = t /\ b.n = put[t]
        BY <3>1, <3>2 DEF Byte
      <4> QED
        BY <1>3, <4>1
    <3>3. CASE p # from
      <4>1. p \in (from + 1)..(to - 1)
        BY <3>3
      <4> QED
        BY <3>1, <4>1
    <3> QED
      BY <3>2, <3>3
  <2> QED
    BY <2>1, <2>2 DEF Chain
<1>9. Chain(f, from + 1, to, s, put)
  BY <1>5, <1>6, <1>7, <1>8 DEF Chain
<1> QED
  BY <1>1, <1>2, <1>9 DEF s

\* A task puts its next bytes behind the others.
LEMMA ChainPut ==
  ASSUME NEW f \in [Int -> Item], NEW g \in [Int -> Item],
         NEW from \in Int, NEW to \in Int, from <= to,
         NEW sent \in [Task -> Int], NEW put \in [Task -> Int],
         Chain(f, from, to, sent, put),
         NEW t \in Task, NEW len \in Nat,
         \A p \in from..(to - 1) : g[p] = f[p],
         \A p \in to..(to + len - 1) : g[p] = Byte(t, put[t] + 1 + (p - to))
  PROVE  Chain(g, from, to + len, sent, [put EXCEPT ![t] = @ + len])
<1> DEFINE more == [put EXCEPT ![t] = @ + len]
           I == from..(to - 1)
           J == to..(to + len - 1)
           K == from..(to + len - 1)
<1>1. \A p \in K : p \in I \/ p \in J
  OBVIOUS
<1>2. more \in [Task -> Int] /\ more[t] = put[t] + len /\ \A u \in Task : u # t => more[u] = put[u]
  OBVIOUS
<1> HIDE DEF more
<1>3. ASSUME NEW p \in J PROVE g[p].by = t /\ g[p].n = put[t] + 1 + (p - to)
  BY DEF Byte
<1>4. sent[t] <= put[t]
  <2>1. ASSUME NEW p \in I, f[p] = Byte(t, put[t]) PROVE sent[t] <= put[t]
    <3>1. f[p].by = t /\ f[p].n = put[t] /\ f[p].n > sent[f[p].by]
      BY <2>1 DEF Chain, Byte
    <3> QED
      BY <3>1
  <2> QED
    BY <2>1 DEF Chain
<1>5. ASSUME NEW p \in I
      PROVE  /\ g[p] = f[p] /\ g[p].by \in Task /\ g[p].n \in Int
             /\ g[p].n > sent[g[p].by] /\ g[p].n <= put[g[p].by]
  BY DEF Chain, Item
<1>6. ASSUME NEW p \in K
      PROVE  /\ g[p].by \in Task /\ g[p].n > sent[g[p].by] /\ g[p].n <= more[g[p].by]
  <2>1. CASE p \in I
    BY <1>2, <1>5, <2>1
  <2>2. CASE p \in J
    BY <1>2, <1>3, <1>4, <2>2
  <2> QED
    BY <1>1, <2>1, <2>2
<1>7. ASSUME NEW p \in K PROVE Follows(g, from, sent, p)
  <2>1. CASE p \in I
    <3>1. \A q \in from..(p - 1) : q \in I
      BY <2>1
    <3>2. Follows(f, from, sent, p)
      BY <2>1 DEF Chain
    <3> QED
      BY <1>5, <2>1, <3>1, <3>2 DEF Follows
  <2>2. CASE p \in J /\ p > to
    <3>1. p - 1 \in J /\ p - 1 \in from..(p - 1)
      BY <2>2
    <3>2. g[p - 1] = Byte(t, put[t] + 1 + ((p - 1) - to))
      BY <3>1
    <3>3. g[p].by = t /\ g[p].n - 1 = put[t] + 1 + ((p - 1) - to)
      BY <1>3, <2>2
    <3> QED
      BY <3>1, <3>2, <3>3 DEF Follows
  <2>3. CASE p = to /\ p \in J
    <3>1. g[p].by = t /\ g[p].n = put[t] + 1
      BY <1>3, <2>3
    <3>2. CASE sent[t] = put[t]
      BY <3>1, <3>2 DEF Follows
    <3>3. CASE \E q \in I : f[q] = Byte(t, put[t])
      <4>1. PICK q \in I : f[q] = Byte(t, put[t])
        BY <3>3
      <4>2. q \in from..(p - 1) /\ g[q] = Byte(g[p].by, g[p].n - 1)
        BY <1>5, <2>3, <3>1, <4>1
      <4> QED
        BY <4>2 DEF Follows
    <3> QED
      BY <3>2, <3>3 DEF Chain
  <2> QED
    BY <1>1, <2>1, <2>2, <2>3
<1>8. ASSUME NEW p \in K, NEW q \in K, p < q, g[p].by = g[q].by
      PROVE  g[p].n < g[q].n
  <2>1. CASE q \in I
    <3>1. p \in I
      BY <1>8, <2>1
    <3> QED
      BY <1>5, <1>8, <2>1, <3>1 DEF Chain
  <2>2. CASE p \in J
    <3>1. q \in J
      BY <1>8, <2>2
    <3> QED
      BY <1>3, <1>8, <2>2, <3>1
  <2>3. CASE p \in I /\ q \in J
    BY <1>3, <1>5, <1>8, <2>3
  <2> QED
    BY <1>1, <2>1, <2>2, <2>3
<1>9. ASSUME NEW u \in Task
      PROVE  sent[u] = more[u] \/ \E p \in K : g[p] = Byte(u, more[u])
  <2>1. CASE u = t /\ len > 0
    <3>1. to + len - 1 \in J /\ to + len - 1 \in K
      BY <2>1
    <3>2. g[to + len - 1] = Byte(t, put[t] + 1 + ((to + len - 1) - to))
      BY <3>1
    <3>3. put[t] + 1 + ((to + len - 1) - to) = more[t]
      BY <1>2
    <3> QED
      BY <2>1, <3>1, <3>2, <3>3
  <2>2. CASE u # t \/ len = 0
    <3>1. more[u] = put[u]
      BY <1>2, <2>2
    <3>2. \A p \in I : p \in K /\ g[p] = f[p]
      BY <1>5
    <3>3. sent[u] = put[u] \/ \E p \in I : f[p] = Byte(u, put[u])
      BY DEF Chain
    <3> QED
      BY <3>1, <3>2, <3>3
  <2> QED
    BY <2>1, <2>2
<1>10. Chain(g, from, to + len, sent, more)
  BY <1>6, <1>7, <1>8, <1>9 DEF Chain
<1> QED
  BY <1>10 DEF more

-----------------------------------------------------------------------------
(***************************************************************************)
(* The steps.                                                              *)
(***************************************************************************)
Out == {"idle", "wait"}
Asking == {"lock", "block", "allocate"}

\* Whoever leaves the ring, and what is sent of it, alone.
LEMMA ChainKept ==
  ASSUME BInv, UNCHANGED <<mem, size, wire, Unsent, Filled, Put>>
  PROVE  WireInv' /\ Chain(Ring, Unsent, Filled, Sent, Put)'
<1>1. Ring' = Ring /\ Sent' = Sent
  BY DEF Ring, Sent
<1>2. WireInv'
  BY DEF BInv, WireInv
<1> QED
  BY <1>1, <1>2 DEF BInv, Chain, Follows

LEMMA TransferKept ==
  ASSUME BInv, UNCHANGED <<mem, size, head, tail, serialDmaMemory_, dma, Filled>>,
         NEW t \in Task, Moves(t), writer'[t].at \notin {"configure", "enable"}
  PROVE  TransferInv' /\ Unsent' = Unsent
<1>1. Sending' = Sending
  BY DEF Sending
<1>2. Unsent' = Unsent
  BY <1>1 DEF Unsent
<1>3. \A u \in Task : writer'[u].at \in {"configure", "enable"} => writer'[u] = writer[u]
  BY DEF Moves
<1> QED
  BY <1>1, <1>2, <1>3 DEF BInv, TransferInv

\* What a task has put into the ring depends on its own variables only.
LEMMA PutKept ==
  ASSUME NEW t \in Task, Moves(t), PutBy(t)' = PutBy(t)
  PROVE  Put' = Put
<1>1. ASSUME NEW u \in Task PROVE PutBy(u)' = PutBy(u)
  <2>1. CASE u = t
    BY <2>1
  <2>2. CASE u # t
    <3>1. writer'[u] = writer[u]
      BY <2>2 DEF Moves
    <3> QED
      BY <3>1 DEF PutBy, Before, Written
  <2> QED
    BY <2>1, <2>2
<1> QED
  BY <1>1 DEF Put

LEMMA FilledKept ==
  ASSUME BInv, NEW t \in Task, Moves(t), writer'[t].len = writer[t].len, head' = head
  PROVE  Filled' = Filled
BY TaskFacts DEF Filled, Moves

\* The variables of a task that goes on.
LEMMA GotoFields ==
  ASSUME NEW t \in Task, TypeInv, NEW p \in Place, Goto(t, p)
  PROVE  /\ Moves(t) /\ writer'[t].at = p
         /\ writer'[t].left = writer[t].left /\ writer'[t].used = writer[t].used
         /\ writer'[t].took = writer[t].took /\ writer'[t].len = writer[t].len
         /\ writer'[t].rest = writer[t].rest
<1>1. Moves(t)
  BY GotoMoves
<1>2. writer' = [writer EXCEPT ![t].at = p] /\ writer[t] \in Writer
  BY DEF Goto, TypeInv
<1> QED
  BY <1>1, <1>2 DEF Writer, TypeInv

LEMMA AfterFields ==
  ASSUME NEW t \in Task, TypeInv, After(t)
  PROVE  /\ Moves(t)
         /\ writer'[t].at = IF writer[t].rest \/ Written(t) < Len(Text[t]) THEN "lock" ELSE "idle"
         /\ writer'[t].left = writer[t].left /\ writer'[t].used = Written(t)
         /\ writer'[t].took = 0 /\ writer'[t].len = writer[t].len
         /\ writer'[t].rest = writer[t].rest
<1> DEFINE a == IF writer[t].rest \/ Written(t) < Len(Text[t]) THEN "lock" ELSE "idle"
           n == Written(t)
<1>1. Moves(t)
  BY AfterMoves
<1>2. writer' = [writer EXCEPT ![t].at = a, ![t].used = n, ![t].took = 0] /\ writer[t] \in Writer
  BY DEF After, TypeInv
<1> HIDE DEF a, n
<1>3. /\ writer'[t].at = a /\ writer'[t].left = writer[t].left /\ writer'[t].used = n
      /\ writer'[t].took = 0 /\ writer'[t].len = writer[t].len /\ writer'[t].rest = writer[t].rest
  BY <1>2 DEF Writer, TypeInv
<1> QED
  BY <1>1, <1>3 DEF a, n

\* The conditions of one task are kept by the steps of the other.
PlaceOf(t) ==
  /\ writer[t].used \in Nat /\ writer[t].took \in Nat /\ writer[t].len \in Nat
  /\ writer[t].at # "publish" => writer[t].len = 0
  /\ Written(t) <= Len(Text[t])
  /\ writer[t].at \in Asking => writer[t].took = 0 /\ (writer[t].rest \/ writer[t].used < Len(Text[t]))
  /\ writer[t].at \in Out => ~writer[t].rest /\ writer[t].took = 0

LEMMA PlaceKept ==
  ASSUME PlaceInv, NEW t \in Task, Moves(t), PlaceOf(t)'
  PROVE  PlaceInv'
<1> SUFFICES ASSUME NEW u \in Task PROVE PlaceOf(u)'
  BY DEF PlaceInv, PlaceOf, Asking, Out
<1>1. CASE u = t
  BY <1>1
<1>2. CASE u # t
  <2>1. writer'[u] = writer[u] /\ PlaceOf(u)
    BY <1>2 DEF Moves, PlaceInv, PlaceOf, Asking, Out
  <2> QED
    BY <2>1 DEF PlaceOf, Written
<1> QED
  BY <1>1, <1>2

LEMMA GotoKeeps ==
  ASSUME BInv, NEW t \in Task, NEW p \in Place \ {"publish"}, Goto(t, p), head' = head,
         writer[t].at # "publish", writer[t].at \in Out <=> p \in Out,
         p \in Asking => writer[t].at \in Asking
  PROVE  PlaceInv' /\ UNCHANGED <<Filled, Put>> /\ Moves(t) /\ writer'[t].at = p
<1>1. TypeInv
  BY DEF BInv, HInv, IInv
<1>2. /\ Moves(t) /\ writer'[t].at = p
      /\ writer'[t].left = writer[t].left /\ writer'[t].used = writer[t].used
      /\ writer'[t].took = writer[t].took /\ writer'[t].len = writer[t].len
      /\ writer'[t].rest = writer[t].rest
  BY <1>1, GotoFields
<1>3. PlaceOf(t)
  BY DEF BInv, PlaceInv, PlaceOf, Asking, Out
<1>4. PlaceOf(t)'
  BY <1>2, <1>3 DEF PlaceOf, Written
<1>5. PutBy(t)' = PutBy(t)
  BY <1>2 DEF PutBy, Before, Written, Out
<1> QED
  BY <1>2, <1>4, <1>5, PlaceKept, PutKept, FilledKept DEF BInv

LEMMA AfterKeeps ==
  ASSUME BInv, NEW t \in Task, After(t), head' = head, writer[t].at \notin Out \cup {"publish"}
  PROVE  PlaceInv' /\ UNCHANGED <<Filled, Put>> /\ Moves(t) /\ writer'[t].at \in {"lock", "idle"}
<1>1. TypeInv
  BY DEF BInv, HInv, IInv
<1>2. /\ Moves(t)
      /\ writer'[t].at = IF writer[t].rest \/ Written(t) < Len(Text[t]) THEN "lock" ELSE "idle"
      /\ writer'[t].left = writer[t].left /\ writer'[t].used = Written(t)
      /\ writer'[t].took = 0 /\ writer'[t].len = writer[t].len
      /\ writer'[t].rest = writer[t].rest
  BY <1>1, AfterFields
<1>3. PlaceOf(t) /\ Len(Text[t]) \in Nat /\ writer[t].rest \in BOOLEAN
  BY <1>1, SerialAssumption DEF BInv, PlaceInv, PlaceOf, Asking, Out, TypeInv, Writer
<1>4. Written(t) \in Nat /\ Written(t)' = Written(t)
  BY <1>2, <1>3 DEF PlaceOf, Written
<1>5. PlaceOf(t)'
  BY <1>2, <1>3, <1>4 DEF PlaceOf, Asking, Out
<1>6. Before(t)' = Before(t)
  BY <1>2 DEF Before
<1>7. PutBy(t) = Before(t) + Expanded(t, Written(t)) - (IF writer[t].rest THEN 1 ELSE 0)
  BY DEF PutBy, Out
<1>8. CASE writer[t].rest \/ Written(t) < Len(Text[t])
  <2>1. PutBy(t)' = PutBy(t)
    BY <1>2, <1>4, <1>6, <1>7, <1>8 DEF PutBy
  <2> QED
    BY <1>2, <1>5, <2>1, PlaceKept, PutKept, FilledKept DEF BInv
<1>9. CASE ~(writer[t].rest \/ Written(t) < Len(Text[t]))
  <2>1. Written(t) = Len(Text[t]) /\ ~writer[t].rest
    BY <1>3, <1>4, <1>9 DEF PlaceOf
  <2> DEFINE a == Writes[t] - writer[t].left
             L == Length(t)
  <2>2. PutBy(t)' = a * L /\ PutBy(t) = (a - 1) * L + L - 0
    BY <1>2, <1>7, <1>9, <2>1 DEF PutBy, Before, Length
  <2>3. a \in Int /\ L \in Int
    <3>1. L \in Int
      BY <1>3, ExpandedType DEF Length
    <3>2. writer[t].left \in Int
      BY <1>1 DEF TypeInv, Writer
    <3>3. Writes[t] \in Int
      BY SerialAssumption
    <3> QED
      BY <3>1, <3>2, <3>3
  <2> HIDE DEF a, L
  <2>4. PutBy(t)' = PutBy(t)
    BY <2>2, <2>3
  <2> QED
    BY <1>2, <1>5, <2>4, PlaceKept, PutKept, FilledKept DEF BInv
<1> QED
  BY <1>8, <1>9

\* Steps on the way through the mutex and through startSerialTx() that leave
\* the DMA alone.
LEMMA BGo ==
  ASSUME BInv, HInv', NEW t \in Task, UNCHANGED <<mem, size, head, tail, serialDmaMemory_, dma, wire>>,
         PlaceInv', Put' = Put, Filled' = Filled, Moves(t), writer'[t].at \notin {"configure", "enable"}
  PROVE  BInv'
BY ChainKept, TransferKept DEF BInv

LEMMA BMutex ==
  ASSUME BInv, HInv', NEW t \in Task,
         Lock(t) \/ Block(t) \/ Unlock(t) \/ Release(t) \/ (t = Routing /\ (WaitForNotify \/ Awake))
  PROVE  BInv'
<1>1. PICK p \in Place \ {"publish", "configure", "enable"} :
        /\ Goto(t, p) /\ (writer[t].at \in Out <=> p \in Out)
        /\ p \in Asking => writer[t].at \in Asking
        /\ writer[t].at # "publish"
  <2>1. CASE Lock(t)
    BY <2>1 DEF Lock, At, Place, Out, Asking
  <2>2. CASE Block(t)
    BY <2>2 DEF Block, At, Place, Out, Asking
  <2>3. CASE Unlock(t)
    BY <2>3 DEF Unlock, At, Place, Out, Asking
  <2>4. CASE Release(t)
    BY <2>4 DEF Release, At, Place, Out, Asking
  <2>5. CASE t = Routing /\ (WaitForNotify \/ Awake)
    BY <2>5 DEF WaitForNotify, Awake, At, Place, Out, Asking
  <2> QED
    BY <2>1, <2>2, <2>3, <2>4, <2>5
<1>2. UNCHANGED <<mem, size, head, tail, serialDmaMemory_, dma, wire>>
  BY DEF Lock, Block, Unlock, Release, WaitForNotify, Awake, ringVars, dmaVars
<1>3. PlaceInv' /\ UNCHANGED <<Filled, Put>> /\ Moves(t) /\ writer'[t].at = p
  BY <1>1, <1>2, GotoKeeps
<1> QED
  BY <1>2, <1>3, BGo

LEMMA BStart ==
  ASSUME BInv, HInv', NEW t \in Task, Start(t) \/ Claim(t)
  PROVE  BInv'
<1>1. writer[t].at \in {"start", "claim"} /\ UNCHANGED <<mem, size, head, tail, serialDmaMemory_, dma, wire>>
  BY DEF Start, Claim, At, ringVars, dmaVars
<1>2. CASE After(t)
  <2>1. PlaceInv' /\ UNCHANGED <<Filled, Put>> /\ Moves(t) /\ writer'[t].at \in {"lock", "idle"}
    BY <1>1, <1>2, AfterKeeps DEF Out
  <2> QED
    BY <1>1, <2>1, BGo
<1>3. CASE \E p \in {"claim", "peek"} : Goto(t, p)
  <2>1. PICK p \in {"claim", "peek"} : Goto(t, p)
    BY <1>3
  <2>2. PlaceInv' /\ UNCHANGED <<Filled, Put>> /\ Moves(t) /\ writer'[t].at = p
    BY <1>1, <2>1, GotoKeeps DEF Out, Asking, Place
  <2> QED
    BY <1>1, <2>1, <2>2, BGo
<1> QED
  BY <1>2, <1>3 DEF Start, Claim

\* Its range begins with the next byte to send and ends where the ring does, or
\* before.
LEMMA BPeek ==
  ASSUME BInv, HInv', NEW t \in Task, Peek(t)
  PROVE  BInv'
<1>1. /\ writer[t].at = "peek" /\ serialDmaMemory_' = peek(tail)
      /\ UNCHANGED <<mem, size, head, tail, dma, wire>>
  BY DEF Peek, At, ringVars
<1>2. IInv /\ TypeInv
  BY DEF BInv, HInv, IInv
<1>3. PICK p \in {"release", "configure"} : Goto(t, p)
  BY DEF Peek
<1>4. PlaceInv' /\ UNCHANGED <<Filled, Put>> /\ Moves(t) /\ writer'[t].at = p
  BY <1>1, <1>3, GotoKeeps DEF Out, Asking, Place
<1>5. serialDmaMemory_'.at = tail /\ serialDmaMemory_'.len <= head - tail
  <2>1. tail % size \in 0..(size - 1)
    BY <1>2 DEF TypeInv
  <2>2. Contiguous(tail) \in Int /\ head - tail \in Int
    BY <1>2, <2>1 DEF TypeInv, Contiguous
  <2> QED
    BY <1>1, <2>2 DEF peek, Smaller
<1>6. ~Sending /\ Owners = {t}
  BY <1>1, <1>2, TaskIsOwner DEF Owning
<1>7. ~Sending' /\ Unsent' = Unsent
  BY <1>1, <1>6 DEF Sending, Unsent
<1>8. \A u \in Task : writer'[u].at # "enable"
  BY <1>3, <1>4, <1>6 DEF Moves, Owners
<1>9. \A u \in Task : writer'[u].at = "configure" => u = t
  BY <1>4, <1>6 DEF Moves, Owners
<1>10. TransferInv'
  BY <1>1, <1>4, <1>5, <1>7, <1>8, <1>9 DEF BInv, TransferInv
<1> QED
  BY <1>1, <1>4, <1>7, <1>10, ChainKept DEF BInv

LEMMA BConfigure ==
  ASSUME BInv, HInv', NEW t \in Task, Configure(t)
  PROVE  BInv'
<1>1. /\ writer[t].at = "configure" /\ dma' = Channel(serialDmaMemory_) /\ Goto(t, "enable")
      /\ UNCHANGED <<mem, size, head, tail, serialDmaMemory_, wire>>
  BY DEF Configure, At, ringVars
<1>2. IInv /\ TypeInv
  BY DEF BInv, HInv, IInv
<1>3. PlaceInv' /\ UNCHANGED <<Filled, Put>> /\ Moves(t) /\ writer'[t].at = "enable"
  BY <1>1, GotoKeeps DEF Out, Asking, Place
<1>4. ~Sending /\ Owners = {t}
  BY <1>1, <1>2, TaskIsOwner DEF Owning
<1>5. /\ dma'.at = serialDmaMemory_.at /\ dma'.left = serialDmaMemory_.len
      /\ dma'.done = FALSE /\ dma'.requests = FALSE
  BY <1>1 DEF Channel
<1>6. ~Sending' /\ Unsent' = Unsent
  BY <1>1, <1>4, <1>5 DEF Sending, Unsent
<1>7. serialDmaMemory_.at = tail /\ serialDmaMemory_.len <= head - tail
  BY <1>1 DEF BInv, TransferInv
<1>8. \A u \in Task : writer'[u].at # "configure"
  BY <1>3, <1>4 DEF Moves, Owners
<1>9. \A u \in Task : writer'[u].at = "enable" => u = t
  BY <1>3, <1>4 DEF Moves, Owners
<1>10. dma'.at >= tail /\ dma'.at + dma'.left = tail + serialDmaMemory_.len
  BY <1>2, <1>5, <1>7 DEF TypeInv
<1>11. TransferInv'
  BY <1>1, <1>3, <1>5, <1>6, <1>7, <1>8, <1>9, <1>10 DEF BInv, TransferInv
<1> QED
  BY <1>1, <1>3, <1>6, <1>11, ChainKept DEF BInv

\* The transfer begins where the last one ended.
LEMMA BEnable ==
  ASSUME BInv, HInv', NEW t \in Task, EnableTxDma(t)
  PROVE  BInv'
<1>1. /\ writer[t].at = "enable" /\ dma' = [dma EXCEPT !.requests = TRUE] /\ After(t)
      /\ UNCHANGED <<mem, size, head, tail, serialDmaMemory_, wire>>
  BY DEF EnableTxDma, At, ringVars
<1>2. IInv /\ TypeInv
  BY DEF BInv, HInv, IInv
<1>3. PlaceInv' /\ UNCHANGED <<Filled, Put>> /\ Moves(t) /\ writer'[t].at \in {"lock", "idle"}
  BY <1>1, AfterKeeps DEF Out
<1>4. ~Sending /\ Owners = {t} /\ dma.on
  BY <1>1, <1>2, TaskIsOwner DEF Owning, IInv, RangeInv
<1>5. dma'.on = dma.on /\ dma'.requests = TRUE /\ dma'.at = dma.at /\ dma'.left = dma.left /\ dma'.done = dma.done
  BY <1>1, <1>2 DEF TypeInv, Dma
<1>6. /\ dma.at = tail /\ dma.at >= tail /\ dma.at + dma.left = tail + serialDmaMemory_.len
      /\ serialDmaMemory_.len <= head - tail
  BY <1>1 DEF BInv, TransferInv
<1>7. Unsent' = Unsent
  BY <1>1, <1>4, <1>5, <1>6 DEF Sending, Unsent
<1>8. \A u \in Task : writer'[u].at \notin {"configure", "enable"}
  BY <1>3, <1>4 DEF Moves, Owners
<1>9. TransferInv'
  BY <1>1, <1>3, <1>5, <1>6, <1>8 DEF BInv, TransferInv
<1> QED
  BY <1>1, <1>3, <1>7, <1>9, ChainKept DEF BInv

LEMMA BWrite ==
  ASSUME BInv, HInv', NEW t \in Task, SerialWrite(t)
  PROVE  BInv'
<1>1. /\ writer[t].at = "idle" /\ UNCHANGED <<mem, size, head, tail, serialDmaMemory_, dma, wire>>
  BY DEF SerialWrite, At, ringVars, dmaVars
<1>2. TypeInv /\ writer[t] \in Writer
  BY DEF BInv, HInv, IInv, TypeInv
<1>3. Moves(t) /\ writer'[t].at = "lock"
  BY <1>2, WriteMoves
<1>4. /\ writer'[t].left = writer[t].left - 1 /\ writer'[t].used = 0
      /\ writer'[t].took = writer[t].took /\ writer'[t].len = writer[t].len
      /\ writer'[t].rest = writer[t].rest
  <2>1. writer' = [writer EXCEPT ![t].at = "lock", ![t].left = @ - 1, ![t].used = 0]
    BY DEF SerialWrite
  <2> QED
    BY <1>2, <2>1 DEF TypeInv, Writer
<1>5. PlaceOf(t) /\ ~writer[t].rest /\ writer[t].took = 0
  BY <1>1 DEF BInv, PlaceInv, PlaceOf, Asking, Out
<1>6. Len(Text[t]) \in Nat /\ Len(Text[t]) > 0
  BY SerialAssumption
<1>7. PlaceOf(t)'
  BY <1>1, <1>3, <1>4, <1>5, <1>6 DEF PlaceOf, Asking, Out, Written
<1>8. PutBy(t)' = PutBy(t)
  <2>1. PutBy(t) = (Writes[t] - writer[t].left) * Length(t)
    BY <1>1 DEF PutBy
  <2>2. PutBy(t)' = (Writes[t] - (writer[t].left - 1) - 1) * Length(t) + Expanded(t, 0) - 0
    BY <1>3, <1>4, <1>5 DEF PutBy, Before, Written
  <2>3. Expanded(t, 0) = 0
    BY NextExpanded
  <2>4. Writes[t] - (writer[t].left - 1) - 1 = Writes[t] - writer[t].left /\ Writes[t] - writer[t].left \in Int
    <3>1. writer[t].left \in Int
      BY <1>2 DEF Writer
    <3>2. Writes[t] \in Int
      BY SerialAssumption
    <3> QED
      BY <3>1, <3>2
  <2>5. Length(t) \in Int
    BY <1>6, ExpandedType DEF Length
  <2> DEFINE x == (Writes[t] - writer[t].left) * Length(t)
  <2>6. x \in Int
    BY <2>4, <2>5
  <2>7. PutBy(t)' = x + 0 - 0
    BY <2>2, <2>3, <2>4
  <2> HIDE DEF x
  <2>8. x + 0 - 0 = x
    BY <2>6
  <2> QED
    BY <2>1, <2>7, <2>8 DEF x
<1>9. PlaceInv' /\ Put' = Put /\ Filled' = Filled
  BY <1>1, <1>3, <1>4, <1>7, <1>8, PlaceKept, PutKept, FilledKept DEF BInv
<1> QED
  BY <1>1, <1>3, <1>9, BGo

LEMMA BPublish ==
  ASSUME BInv, HInv', NEW t \in Task, Publish(t)
  PROVE  BInv'
<1>1. /\ writer[t].at = "publish" /\ UNCHANGED <<mem, size, tail, serialDmaMemory_, dma, wire>>
      /\ head' = head + writer[t].len
  BY DEF Publish, At, dmaVars
<1>2. TypeInv /\ writer[t] \in Writer
  BY DEF BInv, HInv, IInv, TypeInv
<1>3. Moves(t) /\ writer'[t].at = "unlock"
  BY <1>2, PublishMoves
<1>4. /\ writer'[t].left = writer[t].left /\ writer'[t].used = writer[t].used
      /\ writer'[t].took = writer[t].took /\ writer'[t].len = 0
      /\ writer'[t].rest = writer[t].rest
  <2>1. writer' = [writer EXCEPT ![t].at = "unlock", ![t].len = 0]
    BY DEF Publish
  <2> QED
    BY <1>2, <2>1 DEF TypeInv, Writer
<1>5. PlaceOf(t)
  BY DEF BInv, PlaceInv, PlaceOf, Asking, Out
<1>6. PlaceOf(t)'
  BY <1>1, <1>3, <1>4, <1>5 DEF PlaceOf, Asking, Out, Written
<1>7. PutBy(t)' = PutBy(t)
  BY <1>1, <1>3, <1>4 DEF PutBy, Before, Written
<1>8. PlaceInv' /\ Put' = Put
  BY <1>3, <1>6, <1>7, PlaceKept, PutKept DEF BInv
<1>9. Filled' = Filled
  <2>1. \A u \in Task : writer[u].len \in Int
    BY <1>2 DEF TypeInv, Writer
  <2>2. head \in Int
    BY <1>2 DEF TypeInv
  <2>3. CASE t = Routing
    <3>1. writer'[Console].len = writer[Console].len
      BY <1>3, <2>3, TaskFacts DEF Moves
    <3> QED
      BY <1>1, <1>4, <2>1, <2>2, <2>3, <3>1, TaskFacts DEF Filled
  <2>4. CASE t = Console
    <3>1. writer'[Routing].len = writer[Routing].len
      BY <1>3, <2>4, TaskFacts DEF Moves
    <3> QED
      BY <1>1, <1>4, <2>1, <2>2, <2>4, <3>1, TaskFacts DEF Filled
  <2> QED
    BY <2>3, <2>4, TaskFacts
<1>10. head' >= head /\ head \in Int /\ head' \in Int /\ tail \in Int
  BY <1>1, <1>2, <1>5 DEF TypeInv, PlaceOf
<1>11. Sending' = Sending
  BY <1>1 DEF Sending
<1>12. \A u \in Task : writer'[u].at \in {"configure", "enable"} => writer'[u] = writer[u]
  BY <1>3 DEF Moves
<1>13. serialDmaMemory_.len \in Int
  BY <1>2 DEF TypeInv
<1>14. TransferInv'
  <2>1. TransferInv
    BY DEF BInv
  <2>2. ASSUME NEW x \in Int, x <= head - tail PROVE x <= head' - tail
    <3> DEFINE h == head'
    <3>1. h >= head /\ head \in Int /\ h \in Int /\ tail \in Int
      BY <1>10
    <3> HIDE DEF h
    <3>2. x <= h - tail
      BY <2>2, <3>1
    <3> QED
      BY <3>2 DEF h
  <2>3. tail <= head' /\ Filled' - tail <= size
    BY <1>9, <1>10, <2>1 DEF TransferInv
  <2>4. \A u \in Task :
          /\ writer'[u].at = "configure" =>
               serialDmaMemory_.at = tail /\ serialDmaMemory_.len <= head' - tail
          /\ writer'[u].at = "enable" => dma.at = tail
    BY <1>12, <1>13, <2>1, <2>2 DEF TransferInv
  <2>5. Sending \/ (\E u \in Task : writer'[u].at = "enable") =>
          /\ dma.at >= tail /\ dma.at + dma.left = tail + serialDmaMemory_.len
          /\ serialDmaMemory_.len <= head' - tail
    BY <1>12, <1>13, <2>1, <2>2 DEF TransferInv
  <2> QED
    BY <1>1, <1>11, <2>1, <2>3, <2>4, <2>5 DEF TransferInv
<1>15. Unsent' = Unsent
  BY <1>1, <1>11 DEF Unsent
<1> QED
  BY <1>1, <1>8, <1>9, <1>14, <1>15, ChainKept DEF BInv

LEMMA BOther ==
  ASSUME BInv, HInv', PendSV \/ BusIsr \/ UNCHANGED vars
  PROVE  BInv'
<1>1. UNCHANGED <<writer, mem, size, head, tail, serialDmaMemory_, dma, wire>>
  BY DEF PendSV, BusIsr, vars, ringVars, dmaVars
<1>2. UNCHANGED <<Unsent, Filled, Put, Sending>>
  BY <1>1 DEF Unsent, Filled, Put, PutBy, Before, Written, Sending
<1>3. PlaceInv' /\ TransferInv'
  BY <1>1, <1>2 DEF BInv, PlaceInv, Written, TransferInv
<1> QED
  BY <1>1, <1>2, <1>3, ChainKept DEF BInv

\* Where the kernel has let one task into the ring, nobody else fills it.
LEMMA FillsAlone ==
  ASSUME BInv, NEW t \in Task, writer[t].at = "allocate"
  PROVE  Filled = head
<1>1. Filling = {t}
  BY DEF BInv, HInv, MutexInv, Filling, Fill
<1>2. \A u \in Task : writer[u].at # "publish"
  BY <1>1 DEF Filling
<1>3. \A u \in Task : writer[u].len = 0
  BY <1>2 DEF BInv, PlaceInv
<1>4. head \in Int
  BY DEF BInv, HInv, IInv, TypeInv
<1> QED
  BY <1>3, <1>4, TaskFacts DEF Filled

\* The bytes that allocate() takes from the text: their number is what is asked
\* for or what is free, they are the next ones of the text, and the variables
\* say how far they go, with or without the second byte of a newline.
LEMMA AllocateText ==
  ASSUME BInv, NEW t \in Task, Allocate(t)
  PROVE  \E first \in Int, len \in Nat :
           /\ first = PutBy(t) + 1 - Before(t) /\ PutBy(t) \in Int /\ Before(t) \in Int
           /\ len <= size - Stored
           /\ mem' = [i \in DOMAIN mem |->
                        IF first + ((i - head) % size) <= first + len - 1
                        THEN Byte(t, Before(t) + (first + ((i - head) % size))) ELSE mem[i]]
           /\ PlaceOf(t)' /\ writer'[t].len = len /\ PutBy(t)' = PutBy(t) + len
<1> DEFINE text  == Text[t]
           w     == writer[t]
           used  == writer[t].used
           first == Expanded(t, used) + (IF writer[t].rest THEN 0 ELSE 1)
           extra == IF text[Len(text)] THEN 1 ELSE 0
           want  == IF writer[t].rest THEN 1 ELSE Len(text) - used + extra
           len   == Smaller(want, Smaller(size - Stored, Contiguous(head)))
           last  == IF writer[t].rest THEN first + len - 1
                    ELSE Smaller(first + len - 1, Length(t))
           upto  == Cardinality({c \in 1..Len(text) : Expanded(t, c - 1) < last})
           at   == IF len > 0 THEN "publish" ELSE "unlock"
           took == IF len = 0 \/ writer[t].rest THEN 0 ELSE upto - used
           rest == IF len = 0 THEN writer[t].rest ELSE Expanded(t, upto) > last
           E(n) == Expanded(t, n)
           L    == Len(text)
<1>1. writer' = [writer EXCEPT ![t].at = at, ![t].len = len, ![t].took = took, ![t].rest = rest]
  BY Zenon DEF Allocate
<1>2. mem' = [i \in DOMAIN mem |->
                IF first + ((i - head) % size) <= last
                THEN Byte(t, Before(t) + (first + ((i - head) % size))) ELSE mem[i]]
  BY DEF Allocate
<1>3. w.at = "allocate" /\ TypeInv /\ w \in Writer /\ PlaceOf(t)
  BY DEF Allocate, At, BInv, HInv, IInv, TypeInv, PlaceInv, PlaceOf, Asking, Out
<1>4. L \in Nat /\ L > 0
  BY SerialAssumption
<1>5. /\ used \in Nat /\ used <= L /\ w.took = 0 /\ w.rest \in BOOLEAN
      /\ w.rest \/ used < L
  BY <1>3, <1>4 DEF PlaceOf, Asking, Written, Writer
<1>6. E(used) \in Nat /\ Length(t) \in Nat /\ Length(t) = E(L)
  BY <1>4, <1>5, NextExpanded DEF Length
\* A text that ends with a newline has one byte more than characters, at least.
<1>7. ~w.rest => Length(t) - E(used) >= L - used + extra
  <2>1. CASE ~w.rest
    <3>1. L - 1 \in Nat /\ (L - 1) + 1 = L /\ used <= L - 1
      BY <1>4, <1>5, <2>1
    <3>2. E((L - 1) + 1) = E(L - 1) + (IF text[(L - 1) + 1] THEN 2 ELSE 1) /\ E(L - 1) \in Nat
      BY <3>1, NextExpanded
    <3>3. E(L) = E(L - 1) + 1 + extra
      BY <3>1, <3>2
    <3>4. E(L - 1) - E(used) >= (L - 1) - used
      BY <1>5, <3>1, MoreExpanded
    <3>5. extra \in Int /\ E(L - 1) \in Nat
      BY <3>2
    <3> HIDE DEF E, L, extra, used
    <3>6. Length(t) - E(used) >= L - used + extra
      BY <1>4, <1>5, <1>6, <3>3, <3>4, <3>5
    <3> QED
      BY <3>6
  <2> QED
    BY <2>1
<1>8. want \in Nat /\ want > 0 /\ (w.rest => want = 1)
  BY <1>4, <1>5
<1>9. size - Stored \in Nat
  BY <1>3, FillsAlone DEF BInv, TransferInv, TypeInv, Stored
<1>10. Contiguous(head) \in Nat
  <2>1. head % size \in 0..(size - 1) /\ size \in Nat
    BY <1>3 DEF TypeInv
  <2> QED
    BY <2>1 DEF Contiguous
<1> HIDE DEF want, E
<1>11. len \in Nat /\ len <= want /\ len <= size - Stored
  BY <1>8, <1>9, <1>10 DEF Smaller
<1> HIDE DEF len
<1>12. first \in Int /\ last = first + len - 1 /\ (len > 0 => last \in Nat /\ last <= Length(t))
  <2>1. CASE w.rest
    <3>1. first = E(used) /\ last = E(used) + len - 1
      BY <1>6, <2>1 DEF E
    <3>2. len \in {0, 1}
      BY <1>8, <1>11, <2>1
    <3>3. Length(t) - E(used) >= L - used
      BY <1>4, <1>5, <1>6, MoreExpanded DEF E
    <3> QED
      BY <1>4, <1>5, <1>6, <2>1, <3>1, <3>2, <3>3
  <2>2. CASE ~w.rest
    <3>1. first = E(used) + 1
      BY <2>2 DEF E
    <3>2. want = L - used + extra /\ extra \in Int
      BY <2>2 DEF want
    <3> HIDE DEF first, extra, L, used
    <3>3. first + len - 1 <= Length(t) /\ first + len - 1 \in Int
      BY <1>4, <1>5, <1>6, <1>7, <1>11, <2>2, <3>1, <3>2
    <3> DEFINE x == first + len - 1
    <3>4. last = Smaller(x, Length(t))
      BY <2>2
    <3> HIDE DEF x
    <3>5. last = x
      BY <1>6, <3>3, <3>4 DEF Smaller, x
    <3> HIDE DEF last
    <3> QED
      BY <1>6, <1>11, <3>1, <3>3, <3>5 DEF x
  <2> QED
    BY <2>1, <2>2
<1>13. Before(t) \in Int
  <2>1. w.left \in Int /\ Writes[t] \in Int
    BY <1>3, SerialAssumption DEF Writer
  <2> DEFINE a == Writes[t] - w.left - 1
  <2>2. a \in Int /\ Length(t) \in Int
    BY <1>6, <2>1
  <2> HIDE DEF a
  <2>3. a * Length(t) \in Int
    BY <2>2
  <2> QED
    BY <2>3 DEF Before, a
<1>14. PutBy(t) = Before(t) + E(used) - (IF w.rest THEN 1 ELSE 0)
  <2>1. Written(t) = used
    BY <1>5 DEF Written
  <2> QED
    BY <1>3, <2>1 DEF PutBy, E
<1>15. PutBy(t) \in Int /\ first = PutBy(t) + 1 - Before(t)
  BY <1>5, <1>6, <1>13, <1>14 DEF E
<1> HIDE DEF first, last, upto, took, rest, at
<1>16. /\ writer'[t].at = at /\ writer'[t].len = len /\ writer'[t].took = took /\ writer'[t].rest = rest
       /\ writer'[t].left = w.left /\ writer'[t].used = used
  BY <1>1, <1>3 DEF TypeInv, Writer
<1>17. Before(t)' = Before(t)
  BY <1>16 DEF Before
<1>18. CASE len = 0
  <2>1. took = 0 /\ rest = w.rest /\ at = "unlock"
    BY <1>18 DEF took, rest, at
  <2>2. PlaceOf(t)'
    BY <1>4, <1>5, <1>16, <1>18, <2>1 DEF PlaceOf, Asking, Out, Written
  <2>3. PutBy(t)' = Before(t) + E(used) - (IF w.rest THEN 1 ELSE 0)
    <3>1. Written(t)' = used
      BY <1>5, <1>16, <2>1 DEF Written
    <3> QED
      BY <1>16, <1>17, <2>1, <3>1 DEF PutBy, E
  <2> QED
    BY <1>2, <1>11, <1>12, <1>13, <1>14, <1>15, <1>16, <1>18, <2>2, <2>3
<1>19. CASE len > 0
  <2>1. /\ upto \in 0..L /\ E(upto) \in {last, last + 1}
        /\ \A n \in 0..L : E(n) <= last => n <= upto
        /\ \A n \in 0..L : E(n) = last => n = upto
    BY <1>12, <1>19, CharactersUpTo DEF upto, E
  <2>2. at = "publish" /\ (rest <=> E(upto) > last)
    BY <1>11, <1>19 DEF at, rest, E
  <2>3. took \in Nat /\ used + took = upto /\ E(upto) - (IF rest THEN 1 ELSE 0) = last
    <3>1. CASE w.rest
      <4>1. first = E(used)
        BY <1>6, <3>1 DEF first, E
      <4>2. len = 1
        BY <1>8, <1>11, <1>19, <3>1
      <4>3. last = E(used)
        BY <1>6, <1>12, <4>1, <4>2
      <4>4. upto = used
        BY <1>4, <1>5, <2>1, <4>3
      <4>5. took = 0
        BY <3>1 DEF took
      <4> QED
        BY <1>5, <1>6, <2>2, <4>3, <4>4, <4>5
    <3>2. CASE ~w.rest
      <4>1. first = E(used) + 1
        BY <3>2 DEF first, E
      <4>2. E(used) <= last
        BY <1>6, <1>11, <1>12, <4>1, <1>19
      <4>3. used <= upto
        BY <1>4, <1>5, <2>1, <4>2
      <4>4. took = upto - used
        BY <1>11, <1>19, <3>2 DEF took
      <4>5. used + took = upto /\ took \in Nat
        BY <1>4, <1>5, <2>1, <4>3, <4>4
      <4>6. E(upto) - (IF rest THEN 1 ELSE 0) = last
        BY <1>12, <1>19, <2>1, <2>2
      <4> QED
        BY <4>5, <4>6
    <3> QED
      BY <3>1, <3>2
  <2>4. PlaceOf(t)'
    BY <1>4, <1>5, <1>11, <1>16, <2>1, <2>2, <2>3 DEF PlaceOf, Asking, Out, Written
  <2>5. PutBy(t)' = Before(t) + last
    <3>1. Written(t)' = upto
      BY <1>16, <2>3 DEF Written
    <3>2. E(upto) \in Int /\ last \in Int
      BY <1>12, <1>19, <2>1
    <3>3. PutBy(t)' = Before(t) + E(upto) - (IF rest THEN 1 ELSE 0)
      BY <1>16, <1>17, <2>2, <3>1 DEF PutBy, E
    <3> QED
      BY <1>13, <2>3, <3>2, <3>3
  <2>6. PutBy(t)' = PutBy(t) + len
    BY <1>11, <1>12, <1>13, <1>15, <2>5
  <2> QED
    BY <1>2, <1>11, <1>12, <1>13, <1>15, <1>16, <2>4, <2>6
<1> QED
  BY <1>11, <1>18, <1>19

\* What is in the ring lies between tail and head.
LEMMA UnsentRange ==
  ASSUME BInv
  PROVE  /\ Unsent \in Int /\ head \in Int /\ tail \in Int /\ size \in Nat \ {0}
         /\ tail <= Unsent /\ Unsent <= head /\ head - tail <= size /\ Filled \in Int
         /\ head <= Filled
<1>1. TypeInv
  BY DEF BInv, HInv, IInv
<1>2. writer[Routing].len \in Nat /\ writer[Console].len \in Nat
  BY TaskFacts DEF BInv, PlaceInv
<1>3. head \in Int /\ tail \in Int /\ size \in Nat \ {0} /\ dma.at \in Int /\ dma.left \in Nat
      /\ serialDmaMemory_.len \in Int
  BY <1>1 DEF TypeInv, Dma
<1>4. Filled \in Int /\ head <= Filled
  BY <1>2, <1>3 DEF Filled
<1>5. tail <= head /\ Filled - tail <= size
  BY DEF BInv, TransferInv
<1>6. CASE Sending
  BY <1>3, <1>4, <1>5, <1>6 DEF BInv, TransferInv, Unsent
<1>7. CASE ~Sending
  BY <1>3, <1>4, <1>5, <1>7 DEF Unsent
<1> QED
  BY <1>6, <1>7

LEMMA RingType ==
  ASSUME BInv
  PROVE  /\ Ring \in [Int -> Item] /\ DOMAIN mem = 0..(size - 1)
         /\ \A p \in Int : p % size \in DOMAIN mem /\ Ring[p] = mem[p % size]
<1>1. size \in Nat \ {0} /\ mem \in [0..(size - 1) -> Item]
  BY UnsentRange DEF BInv, TransferInv
<1>2. \A p \in Int : p % size \in 0..(size - 1)
  BY <1>1
<1> QED
  BY <1>1, <1>2 DEF Ring

LEMMA CountsType ==
  ASSUME BInv
  PROVE  Sent \in [Task -> Int] /\ Put \in [Task -> Int]
<1>1. \A t \in Task : Len(wire[t]) \in Int
  BY DEF BInv, WireInv
<1>2. ASSUME NEW t \in Task PROVE PutBy(t) \in Int
  <2>1. writer[t] \in Writer /\ Writes[t] \in Int
    BY SerialAssumption DEF BInv, HInv, IInv, TypeInv
  <2>2. Length(t) \in Int
    <3>1. Len(Text[t]) \in Int
      BY SerialAssumption
    <3> QED
      BY <3>1, ExpandedType DEF Length
  <2>3. writer[t].left \in Int /\ Written(t) \in Int
    BY <2>1 DEF Writer, Written
  <2>4. Expanded(t, Written(t)) \in Int
    BY <2>3, ExpandedType
  <2> DEFINE a == Writes[t] - writer[t].left
             b == Writes[t] - writer[t].left - 1
             e == Expanded(t, Written(t))
             r == IF writer[t].rest THEN 1 ELSE 0
  <2>5. a \in Int /\ b \in Int /\ r \in Int /\ e \in Int
    BY <2>1, <2>3, <2>4
  <2>6. PutBy(t) = a * Length(t) \/ PutBy(t) = b * Length(t) + e - r
    BY DEF PutBy, Before
  <2> HIDE DEF a, b, e, r
  <2> QED
    BY <2>2, <2>5, <2>6
<1> QED
  BY <1>1, <1>2 DEF Sent, Put

LEMMA BAllocate ==
  ASSUME BInv, HInv', NEW t \in Task, Allocate(t)
  PROVE  BInv'
<1>1. PICK first \in Int, len \in Nat :
        /\ first = PutBy(t) + 1 - Before(t) /\ PutBy(t) \in Int /\ Before(t) \in Int
        /\ len <= size - Stored
        /\ mem' = [i \in DOMAIN mem |->
                     IF first + ((i - head) % size) <= first + len - 1
                     THEN Byte(t, Before(t) + (first + ((i - head) % size))) ELSE mem[i]]
        /\ PlaceOf(t)' /\ writer'[t].len = len /\ PutBy(t)' = PutBy(t) + len
  BY AllocateText
<1>2. writer[t].at = "allocate" /\ UNCHANGED <<head, tail, size, serialDmaMemory_, dma, wire>>
  BY DEF Allocate, At, dmaVars
<1>3. Moves(t) /\ writer'[t].at \in {"publish", "unlock"}
  BY AllocateMoves DEF BInv, HInv, IInv
<1>4. /\ Unsent \in Int /\ head \in Int /\ tail \in Int /\ size \in Nat \ {0}
      /\ tail <= Unsent /\ Unsent <= head /\ head - tail <= size
  BY UnsentRange
<1>5. Filled = head
  BY <1>2, FillsAlone
<1>6. /\ Ring \in [Int -> Item] /\ DOMAIN mem = 0..(size - 1)
      /\ \A p \in Int : p % size \in DOMAIN mem /\ Ring[p] = mem[p % size]
  BY RingType
<1>7. Filled' = head + len
  <2>1. writer[Routing].len = 0 /\ writer[Console].len = 0
    <3>1. writer[Routing].len \in Nat /\ writer[Console].len \in Nat
      BY TaskFacts DEF BInv, PlaceInv
    <3> QED
      BY <1>4, <1>5, <3>1 DEF Filled
  <2>2. \A u \in Task \ {t} : writer'[u].len = writer[u].len
    BY <1>3 DEF Moves
  <2>3. CASE t = Routing
    BY <1>1, <1>2, <1>4, <2>1, <2>2, <2>3, TaskFacts DEF Filled
  <2>4. CASE t = Console
    BY <1>1, <1>2, <1>4, <2>1, <2>2, <2>4, TaskFacts DEF Filled
  <2> QED
    BY <2>3, <2>4, TaskFacts
<1>8. /\ DOMAIN mem' = DOMAIN mem
      /\ \A p \in Int : Ring'[p] = IF first + (((p % size) - head) % size) <= first + len - 1
                                   THEN Byte(t, Before(t) + (first + (((p % size) - head) % size)))
                                   ELSE Ring[p]
  BY <1>1, <1>2, <1>6 DEF Ring
<1>9. ASSUME NEW p \in Unsent..(head - 1) PROVE Ring'[p] = Ring[p]
  <2>1. p \in Int /\ head - p \in 1..size
    BY <1>4
  <2>2. ((p % size) - head) % size = size - (head - p)
    BY <1>4, <2>1, Distance
  <2>3. ~(first + (size - (head - p)) <= first + len - 1)
    BY <1>1, <1>4, <2>1 DEF Stored
  <2> QED
    BY <1>8, <2>1, <2>2, <2>3
<1>10. ASSUME NEW p \in head..(head + len - 1) PROVE Ring'[p] = Byte(t, Put[t] + 1 + (p - head))
  <2>1. p \in Int /\ p - head \in 0..(size - 1) /\ p - head <= len - 1
    BY <1>1, <1>4 DEF Stored
  <2>2. ((p % size) - head) % size = p - head
    BY <1>4, <2>1, Distance
  <2>3. first + (p - head) <= first + len - 1
    BY <1>1, <1>4, <2>1
  <2>4. Ring'[p] = Byte(t, Before(t) + (first + (p - head)))
    BY <1>8, <2>1, <2>2, <2>3
  <2>5. Before(t) + (first + (p - head)) = PutBy(t) + 1 + (p - head)
    BY <1>1, <1>4, <2>1
  <2> QED
    BY <2>4, <2>5 DEF Put
<1>11. mem' \in [0..(size - 1) -> Item]
  <2>1. ASSUME NEW i \in DOMAIN mem
        PROVE  (IF first + ((i - head) % size) <= first + len - 1
                THEN Byte(t, Before(t) + (first + ((i - head) % size))) ELSE mem[i]) \in Item
    <3>1. i \in Int /\ (i - head) % size \in Int
      BY <1>4, <1>6
    <3> DEFINE n == Before(t) + (first + ((i - head) % size))
    <3>2. n \in Int
      BY <1>1, <3>1
    <3> HIDE DEF n
    <3>3. Byte(t, n) \in Item
      BY <3>2 DEF Byte, Item
    <3>4. mem[i] \in Item
      BY <1>6 DEF BInv, TransferInv
    <3> QED
      BY <3>3, <3>4 DEF n
  <2> QED
    BY <1>1, <1>6, <2>1
<1>12. Ring' \in [Int -> Item]
  <2>1. \A p \in Int : p % size \in 0..(size - 1)
    BY <1>4
  <2> QED
    BY <1>2, <1>11, <2>1 DEF Ring
<1>13. Put' = [Put EXCEPT ![t] = @ + len]
  <2>1. \A u \in Task \ {t} : PutBy(u)' = PutBy(u)
    BY <1>3 DEF Moves, PutBy, Before, Written
  <2> QED
    BY <1>1, <2>1 DEF Put
<1>14. Sent' = Sent /\ WireInv'
  BY <1>2 DEF Sent, BInv, WireInv
<1>15. TransferInv' /\ Unsent' = Unsent
  <2>1. Sending' = Sending
    BY <1>2 DEF Sending
  <2>2. \A u \in Task : writer'[u].at \in {"configure", "enable"} => writer'[u] = writer[u]
    BY <1>3 DEF Moves
  <2>3. Filled' - tail <= size
    BY <1>1, <1>4, <1>7 DEF Stored
  <2> QED
    BY <1>2, <1>11, <2>1, <2>2, <2>3 DEF BInv, TransferInv, Unsent
<1>16. Chain(Ring, Unsent, Filled, Sent, Put)'
  <2> DEFINE f == Ring
             g == Ring'
             from == Unsent
             sent == Sent
             put == Put
  <2>1. f \in [Int -> Item] /\ g \in [Int -> Item] /\ from \in Int /\ head \in Int /\ from <= head
        /\ sent \in [Task -> Int] /\ put \in [Task -> Int]
    BY <1>4, <1>6, <1>12, CountsType
  <2>2. Chain(f, from, head, sent, put)
    BY <1>5 DEF BInv
  <2>3. /\ \A p \in from..(head - 1) : g[p] = f[p]
        /\ \A p \in head..(head + len - 1) : g[p] = Byte(t, put[t] + 1 + (p - head))
    BY <1>9, <1>10
  <2> HIDE DEF f, g, from, sent, put
  <2>4. Chain(g, from, head + len, sent, [put EXCEPT ![t] = @ + len])
    BY <2>1, <2>2, <2>3, ChainPut
  <2>5. g = Ring' /\ from = Unsent' /\ head + len = Filled' /\ sent = Sent'
        /\ [put EXCEPT ![t] = @ + len] = Put'
    BY <1>7, <1>13, <1>14, <1>15 DEF g, from, sent, put
  <2> QED
    BY <2>4, <2>5 DEF Chain, Follows
<1>17. PlaceInv'
  BY <1>1, <1>3, PlaceKept DEF BInv
<1> QED
  BY <1>14, <1>15, <1>16, <1>17 DEF BInv

\* The next byte goes out.
LEMMA BDmaByte ==
  ASSUME BInv, HInv', DmaByte
  PROVE  BInv'
<1> DEFINE b == mem[dma.at % size]
<1>1. /\ dma.on /\ dma.requests /\ dma.left > 0
      /\ wire' = [wire EXCEPT ![b.by] = Append(@, b.n)]
      /\ dma' = [dma EXCEPT !.at = @ + 1, !.left = @ - 1, !.done = dma.left = 1]
      /\ UNCHANGED <<mem, head, tail, size, serialDmaMemory_, writer>>
  BY DEF DmaByte, Transfers, ringVars
<1>2. dma \in Dma /\ serialDmaMemory_.len \in Int
  BY DEF BInv, HInv, IInv, TypeInv
<1>3. /\ dma'.on = dma.on /\ dma'.requests = dma.requests /\ dma'.at = dma.at + 1
      /\ dma'.left = dma.left - 1 /\ (dma'.done <=> dma.left = 1)
  BY <1>1, <1>2 DEF Dma
<1>4. Sending /\ Sending' /\ Unsent = dma.at /\ Unsent' = Unsent + 1
  BY <1>1, <1>3 DEF Sending, Unsent
<1>5. /\ Unsent \in Int /\ head \in Int /\ tail \in Int /\ tail <= Unsent /\ Filled \in Int /\ head <= Filled
  BY UnsentRange
<1>6. /\ dma.at + dma.left = tail + serialDmaMemory_.len /\ serialDmaMemory_.len <= head - tail
      /\ dma.at \in Int /\ dma.left \in Nat
  BY <1>2, <1>4 DEF BInv, TransferInv, Dma
<1>7. Unsent < Filled
  BY <1>1, <1>2, <1>4, <1>5, <1>6
<1>8. Ring' = Ring /\ Filled' = Filled /\ Put' = Put /\ PlaceInv'
  BY <1>1 DEF Ring, Filled, Put, PutBy, Before, Written, BInv, PlaceInv
<1>9. Ring \in [Int -> Item] /\ Ring[Unsent] = b /\ b \in Item
  BY <1>4, <1>5, RingType
<1> HIDE DEF b
<1>10. /\ b.by \in Task /\ b.n = Sent[b.by] + 1
       /\ Chain(Ring, Unsent + 1, Filled, [Sent EXCEPT ![b.by] = b.n], Put)
  BY <1>5, <1>7, <1>9, CountsType, ChainSend DEF BInv
<1>11. /\ wire \in [Task \cup {None} -> Seq(Int)] /\ wire[None] = <<>>
       /\ \A t \in Task : \A i \in 1..Len(wire[t]) : wire[t][i] = i
  BY DEF BInv, WireInv
<1>12. b.n \in Int /\ b.n = Len(wire[b.by]) + 1
  BY <1>9, <1>10 DEF Sent, Item
<1>13. /\ Append(wire[b.by], b.n) \in Seq(Int) /\ Len(Append(wire[b.by], b.n)) = b.n
       /\ \A i \in 1..b.n : Append(wire[b.by], b.n)[i] = i
  <2> DEFINE w == wire[b.by]
  <2>1. w \in Seq(Int) /\ b.n = Len(w) + 1 /\ \A i \in 1..Len(w) : w[i] = i
    BY <1>10, <1>11, <1>12
  <2> HIDE DEF w
  <2>2. /\ Append(w, b.n) \in Seq(Int) /\ Len(Append(w, b.n)) = b.n
        /\ \A i \in 1..b.n : Append(w, b.n)[i] = i
    BY <1>12, <2>1
  <2> QED
    BY <2>2 DEF w
<1> DEFINE a == Append(wire[b.by], b.n)
<1> HIDE DEF a
<1>14. wire' = [wire EXCEPT ![b.by] = a] /\ None \notin Task
  BY <1>1, TaskFacts DEF a
<1>15. a \in Seq(Int) /\ Len(a) = b.n /\ \A i \in 1..b.n : a[i] = i
  BY <1>13 DEF a
<1>16. WireInv'
  BY <1>10, <1>11, <1>14, <1>15 DEF WireInv
<1>17. Sent' = [Sent EXCEPT ![b.by] = b.n]
  BY <1>10, <1>11, <1>14, <1>15 DEF Sent
<1>18. Chain(Ring, Unsent, Filled, Sent, Put)'
  BY <1>4, <1>8, <1>10, <1>17 DEF Chain, Follows
<1>19. \A t \in Task : writer[t].at \notin {"configure", "enable"}
  BY <1>4 DEF BInv, HInv, IInv, OwnerInv, Owners
<1>20. TransferInv'
  <2>1. dma'.at >= tail /\ dma'.at + dma'.left = tail + serialDmaMemory_.len /\ (dma'.done => dma'.left = 0)
    BY <1>3, <1>4, <1>5, <1>6
  <2> QED
    BY <1>1, <1>6, <1>8, <1>19, <2>1 DEF BInv, TransferInv
<1> QED
  BY <1>8, <1>16, <1>18, <1>20 DEF BInv

\* The next transfer begins where the last one ended.
LEMMA BIsr ==
  ASSUME BInv, HInv', dma1_channel4_isr
  PROVE  BInv'
<1> DEFINE rest == tail + serialDmaMemory_.len
<1>1. dma.done /\ tail' = rest /\ UNCHANGED <<mem, head, size, writer, wire>>
  BY DEF dma1_channel4_isr
<1>2. TypeInv /\ Sending /\ Owners = {}
  BY <1>1 DEF BInv, HInv, IInv, OwnerInv, RangeInv
<1>3. head \in Int /\ tail \in Int /\ size \in Nat \ {0} /\ rest \in Int /\ dma.at \in Int /\ Filled \in Int
  BY <1>2, UnsentRange DEF TypeInv, Dma
<1>4. Unsent = rest /\ rest <= head /\ rest >= tail
  <2>1. dma.left = 0 /\ dma.at + dma.left = tail + serialDmaMemory_.len /\ dma.at >= tail
    BY <1>1, <1>2 DEF BInv, TransferInv
  <2>2. serialDmaMemory_.len <= head - tail /\ serialDmaMemory_.len \in Int
    BY <1>2 DEF BInv, TransferInv, TypeInv
  <2> QED
    BY <1>2, <1>3, <2>1, <2>2 DEF Unsent
<1>5. Filled' = Filled /\ Put' = Put /\ PlaceInv'
  BY <1>1 DEF Filled, Put, PutBy, Before, Written, BInv, PlaceInv
<1>6. \A t \in Task : writer'[t].at \notin {"configure", "enable"}
  BY <1>1, <1>2 DEF Owners
<1>7. tail' <= head' /\ Filled' - tail' <= size' /\ mem' \in [0..(size' - 1) -> Item]
  <2>1. Filled - tail <= size /\ mem \in [0..(size - 1) -> Item]
    BY DEF BInv, TransferInv
  <2>2. Filled - rest <= size
    BY <1>3, <1>4, <2>1
  <2> QED
    BY <1>1, <1>4, <1>5, <2>1, <2>2
<1>8. CASE /\ head > rest /\ serialDmaMemory_' = peek(rest)
           /\ dma' = [Channel(peek(rest)) EXCEPT !.requests = TRUE] /\ busy' = TRUE
  <2>1. /\ peek(rest).at = rest /\ peek(rest).len \in Int /\ peek(rest).len <= head - rest
    <3>1. rest % size \in 0..(size - 1)
      BY <1>3
    <3>2. Contiguous(rest) \in Int /\ head - rest \in Int
      BY <1>3, <3>1 DEF Contiguous
    <3> QED
      BY <3>2 DEF peek, Smaller
  <2> DEFINE r == peek(rest)
  <2> HIDE DEF r
  <2>2. r.at = rest /\ r.len \in Int /\ r.len <= head - rest
    BY <2>1 DEF r
  <2>3. /\ dma'.on = TRUE /\ dma'.requests = TRUE /\ dma'.done = FALSE
        /\ dma'.at = r.at /\ dma'.left = r.len /\ serialDmaMemory_'.len = r.len
    BY <1>8 DEF Channel, r
  <2>4. Unsent' = Unsent
    BY <1>4, <2>2, <2>3 DEF Unsent, Sending
  <2>5. dma'.at >= tail' /\ dma'.at + dma'.left = tail' + serialDmaMemory_'.len
        /\ serialDmaMemory_'.len <= head' - tail'
    BY <1>1, <1>3, <2>2, <2>3
  <2>6. TransferInv'
    BY <1>6, <1>7, <2>3, <2>5 DEF TransferInv
  <2> QED
    BY <1>1, <1>5, <2>4, <2>6, ChainKept DEF BInv
<1>9. CASE /\ head = rest /\ busy' = FALSE /\ UNCHANGED serialDmaMemory_
           /\ dma' = [dma EXCEPT !.on = FALSE, !.requests = FALSE, !.done = FALSE]
  <2>1. dma'.on = FALSE /\ dma'.done = FALSE
    BY <1>2, <1>9 DEF TypeInv, Dma
  <2>2. ~Sending' /\ Unsent' = Unsent
    BY <1>1, <1>4, <2>1 DEF Sending, Unsent
  <2>3. TransferInv'
    BY <1>6, <1>7, <2>1, <2>2 DEF TransferInv
  <2> QED
    BY <1>1, <1>5, <2>2, <2>3, ChainKept DEF BInv
<1> QED
  BY <1>8, <1>9 DEF dma1_channel4_isr

LEMMA BInit == Init /\ HInv => BInv
<1> SUFFICES ASSUME Init, HInv PROVE BInv
  OBVIOUS
<1>1. /\ mem = [i \in 0..size - 1 |-> Stale] /\ head = 0 /\ tail = 0 /\ size \in Nat \ {0}
      /\ serialDmaMemory_ = [at |-> 0, len |-> 0]
      /\ dma = [on |-> FALSE, requests |-> FALSE, at |-> 0, left |-> 0, done |-> FALSE]
      /\ wire = [t \in Task \cup {None} |-> <<>>]
  BY SerialAssumption DEF Init
<1>2. \A t \in Task : /\ writer[t].at = "idle" /\ writer[t].left = Writes[t] /\ writer[t].used = 0
                      /\ writer[t].len = 0 /\ writer[t].took = 0 /\ writer[t].rest = FALSE
  BY DEF Init
<1>3. ~Sending /\ Unsent = 0
  BY <1>1 DEF Sending, Unsent
<1>4. Filled = 0
  BY <1>1, <1>2, TaskFacts DEF Filled
<1>5. WireInv
  <2>1. \A t \in Task \cup {None} : wire[t] = <<>>
    BY <1>1
  <2>2. wire \in [Task \cup {None} -> Seq(Int)]
    BY <1>1
  <2> QED
    BY <2>1, <2>2 DEF WireInv
<1>6. TransferInv
  <2>1. mem \in [0..(size - 1) -> Item]
    BY <1>1 DEF Stale, Byte, Item
  <2>2. dma.done = FALSE /\ tail <= head /\ Filled - tail <= size
    BY <1>1, <1>4
  <2> QED
    BY <1>2, <1>3, <2>1, <2>2 DEF TransferInv
<1>7. PlaceInv
  <2>1. \A t \in Task : Len(Text[t]) \in Nat
    BY SerialAssumption
  <2> QED
    BY <1>2, <2>1 DEF PlaceInv, Written
<1>8. \A t \in Task : Sent[t] = 0 /\ Put[t] = 0
  <2> SUFFICES ASSUME NEW t \in Task PROVE Sent[t] = 0 /\ Put[t] = 0
    OBVIOUS
  <2>1. Sent[t] = 0
    BY <1>1 DEF Sent
  <2>2. Writes[t] - writer[t].left = 0
    <3>1. Writes[t] \in Nat
      BY SerialAssumption
    <3> QED
      BY <1>2, <3>1
  <2>3. Length(t) \in Int
    <3>1. Len(Text[t]) \in Int
      BY SerialAssumption
    <3> QED
      BY <3>1, ExpandedType DEF Length
  <2>4. PutBy(t) = 0 * Length(t)
    BY <1>2, <2>2 DEF PutBy
  <2> QED
    BY <2>1, <2>3, <2>4 DEF Put
<1>9. Chain(Ring, Unsent, Filled, Sent, Put)
  <2>1. Unsent..(Filled - 1) = {}
    BY <1>3, <1>4
  <2> QED
    BY <1>8, <2>1 DEF Chain
<1> QED
  BY <1>5, <1>6, <1>7, <1>9 DEF BInv

LEMMA BStep ==
  ASSUME BInv, [Next]_vars
  PROVE  BInv'
<1>1. HInv'
  BY HStep DEF BInv
<1>2. ASSUME NEW t \in Task, TaskStep(t) PROVE BInv'
  BY <1>1, <1>2, BWrite, BMutex, BAllocate, BPublish, BStart, BPeek, BConfigure, BEnable, Zenon
     DEF TaskStep
<1>3. CASE Processor
  BY <1>1, <1>2, <1>3, BMutex, TaskFacts, Zenon DEF Processor
<1> QED
  BY <1>1, <1>3, BDmaByte, BIsr, BOther, Zenon DEF Next

\* Everything that the tasks write is sent once and in its order, whatever
\* the size of the ring, the texts and the moments at which the tasks and the
\* handler of the DMA interrupt each other.
THEOREM SentInOrder == Spec => []BytesInOrder
<1>1. Init => BInv
  BY InitInv, HInit, BInit
<1>2. BInv /\ [Next]_vars => BInv'
  BY BStep
<1>3. BInv => BytesInOrder
  <2> SUFFICES ASSUME BInv PROVE BytesInOrder
    OBVIOUS
  <2>1. wire[None] = <<>>
    BY DEF BInv, WireInv
  <2>2. ASSUME NEW t \in Task PROVE wire[t] = [i \in 1..Len(wire[t]) |-> i]
    <3>1. wire[t] \in Seq(Int) /\ \A i \in 1..Len(wire[t]) : wire[t][i] = i
      BY DEF BInv, WireInv
    <3> QED
      BY <3>1
  <2> QED
    BY <2>1, <2>2 DEF BytesInOrder
<1> QED
  BY <1>1, <1>2, <1>3, PTL DEF Spec
=============================================================================
