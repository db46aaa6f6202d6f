---------------------------- MODULE KernelProofs ----------------------------
(***************************************************************************)
(* Lemmas about the operators of Kernel, for any tasks, any priorities and *)
(* any objects: what becomes of the lists that the tasks are in, and what  *)
(* an operator leaves alone.                                               *)
(***************************************************************************)
EXTENDS Kernel, SequenceTheorems, FiniteSetTheorems, WellFoundedInduction, TLAPS

-----------------------------------------------------------------------------
(***************************************************************************)
(* Lists.                                                                  *)
(***************************************************************************)
\* No item is in a list twice.
Once(list) == \A i, j \in DOMAIN list : list[i] = list[j] => i = j
Lists(S) == {list \in Seq(S) : Once(list)}
Rings == {ring \in Lists(Task \cup {EndMark}) : EndMark \in Members(ring)}

\* A part of a list.
LEMMA Part ==
  ASSUME NEW S, NEW list \in Seq(S), NEW i \in Int, NEW j \in Int,
         1 <= i, i <= j + 1, j <= Len(list)
  PROVE  /\ SubSeq(list, i, j) \in Seq(S)
         /\ Len(SubSeq(list, i, j)) = j - i + 1
         /\ \A x \in 1..(j - i + 1) : SubSeq(list, i, j)[x] = list[i + x - 1]
<1>1. \A x \in i..j : list[x] \in S
  OBVIOUS
<1>2. /\ SubSeq(list, i, j) \in Seq(S)
      /\ Len(SubSeq(list, i, j)) = IF i <= j THEN j - i + 1 ELSE 0
      /\ \A x \in 1..(j - i + 1) : SubSeq(list, i, j)[x] = list[i + x - 1]
  BY <1>1, SubSeqProperties
<1> DEFINE r == SubSeq(list, i, j)
<1> HIDE DEF r
<1>3. Len(r) = j - i + 1
  BY <1>2 DEF r
<1> QED
  BY <1>2, <1>3 DEF r

\* An item that is removed: those behind it move up.
LEMMA RemovedItems ==
  ASSUME NEW S, NEW list \in Lists(S), NEW t \in Members(list)
  PROVE  \E at \in 1..Len(list) :
           /\ list[at] = t
           /\ uxListRemove(list, t) \in Seq(S) /\ Len(uxListRemove(list, t)) = Len(list) - 1
           /\ \A i \in 1..(Len(list) - 1) :
                uxListRemove(list, t)[i] = IF i < at THEN list[i] ELSE list[i + 1]
<1> DEFINE n == Len(list)
           at == CHOOSE i \in DOMAIN list : list[i] = t
           a == SubSeq(list, 1, at - 1)
           b == SubSeq(list, at + 1, n)
           r == uxListRemove(list, t)
<1>1. list \in Seq(S) /\ n \in Nat /\ DOMAIN list = 1..n /\ \A i \in 1..n : list[i] \in S
  BY DEF Lists
<1>2. at \in 1..n /\ list[at] = t
  BY <1>1 DEF Members
<1>3. r = a \o b
  BY DEF uxListRemove
<1>c. Len(list) = n
  OBVIOUS
<1> HIDE DEF at, r, n
<1>4. /\ a \in Seq(S) /\ Len(a) = at - 1 /\ \A i \in 1..(at - 1) : a[i] = list[i]
      /\ b \in Seq(S) /\ Len(b) = n - at /\ \A i \in 1..(n - at) : b[i] = list[i + at]
  <2>1. /\ a \in Seq(S) /\ Len(a) = (at - 1) - 1 + 1
        /\ \A i \in 1..((at - 1) - 1 + 1) : a[i] = list[1 + i - 1]
    BY <1>1, <1>2, <1>c, Part
  <2>2. /\ b \in Seq(S) /\ Len(b) = n - (at + 1) + 1
        /\ \A i \in 1..(n - (at + 1) + 1) : b[i] = list[(at + 1) + i - 1]
    BY <1>1, <1>2, <1>c, Part
  <2> HIDE DEF a, b
  <2>3. ASSUME NEW i \in 1..(at - 1) PROVE a[i] = list[i]
    <3>1. 1 + i - 1 = i /\ i \in 1..((at - 1) - 1 + 1)
      BY <1>1, <1>2
    <3> QED
      BY <2>1, <3>1
  <2>4. ASSUME NEW i \in 1..(n - at) PROVE b[i] = list[i + at]
    <3>1. (at + 1) + i - 1 = i + at /\ i \in 1..(n - (at + 1) + 1)
      BY <1>1, <1>2
    <3> QED
      BY <2>2, <3>1
  <2>5. Len(a) = at - 1 /\ Len(b) = n - at
    BY <1>1, <1>2, <2>1, <2>2
  <2> QED
    BY <2>1, <2>2, <2>3, <2>4, <2>5
<1> HIDE DEF a, b
<1>5. /\ r \in Seq(S) /\ Len(r) = n - 1
      /\ \A i \in 1..(n - 1) : r[i] = IF i < at THEN list[i] ELSE list[i + 1]
  <2>1. /\ r \in Seq(S) /\ Len(r) = Len(a) + Len(b)
        /\ \A i \in 1..(Len(a) + Len(b)) : r[i] = IF i <= Len(a) THEN a[i] ELSE b[i - Len(a)]
    BY <1>3, <1>4, ConcatProperties
  <2>2. ASSUME NEW i \in 1..(n - 1) PROVE r[i] = IF i < at THEN list[i] ELSE list[i + 1]
    BY <1>1, <1>2, <1>4, <2>1
  <2>3. Len(r) = n - 1
    BY <1>1, <1>2, <1>4, <2>1
  <2> QED
    BY <2>1, <2>2, <2>3
<1> QED
  BY <1>2, <1>5, <1>c DEF r

\* An item that is removed is in the list no more, and the others still are.
LEMMA RemoveFromList ==
  ASSUME NEW S, NEW list \in Lists(S), NEW t
  PROVE  /\ uxListRemove(list, t) \in Lists(S)
         /\ Members(uxListRemove(list, t)) = Members(list) \ {t}
<1>1. CASE t \notin Members(list)
  BY <1>1 DEF uxListRemove
<1>2. CASE t \in Members(list)
  <2> DEFINE n == Len(list)
             r == uxListRemove(list, t)
  <2>1. list \in Seq(S) /\ n \in Nat /\ DOMAIN list = 1..n /\ \A i \in 1..n : list[i] \in S
    BY DEF Lists
  <2>2. PICK at \in 1..n :
          /\ list[at] = t
          /\ r \in Seq(S) /\ Len(r) = n - 1
          /\ \A i \in 1..(n - 1) : r[i] = IF i < at THEN list[i] ELSE list[i + 1]
    BY <1>2, RemovedItems
  <2>3. \A i, j \in 1..n : list[i] = list[j] => i = j
    BY <2>1 DEF Lists, Once
  <2> HIDE DEF r, n
  <2>4. /\ r \in Seq(S) /\ Len(r) = n - 1 /\ DOMAIN r = 1..(n - 1)
        /\ \A i \in 1..(n - 1) : r[i] = IF i < at THEN list[i] ELSE list[i + 1]
    BY <2>1, <2>2
  <2>5. Once(r)
    <3> SUFFICES ASSUME NEW i \in 1..(n - 1), NEW j \in 1..(n - 1), r[i] = r[j] PROVE i = j
      BY <2>4 DEF Once
    <3> DEFINE x == IF i < at THEN i ELSE i + 1
               y == IF j < at THEN j ELSE j + 1
    <3>1. x \in 1..n /\ y \in 1..n /\ r[i] = list[x] /\ r[j] = list[y]
      BY <2>1, <2>2, <2>4
    <3>2. x = y
      <4> HIDE DEF x, y
      <4> QED
        BY <2>3, <3>1
    <3> QED
      BY <2>1, <2>2, <3>2
  <2>6. \A x : x \in Members(r) <=> x \in Members(list) /\ x # t
    <3> SUFFICES ASSUME NEW x PROVE x \in Members(r) <=> x \in Members(list) /\ x # t
      OBVIOUS
    <3>1. ASSUME x \in Members(r) PROVE x \in Members(list) /\ x # t
      <4>1. PICK i \in 1..(n - 1) : x = r[i]
        BY <2>4, <3>1 DEF Members
      <4> DEFINE j == IF i < at THEN i ELSE i + 1
      <4>2. j \in 1..n /\ j # at /\ x = list[j]
        BY <2>1, <2>2, <2>4, <4>1
      <4> QED
        BY <2>1, <2>2, <2>3, <4>2 DEF Members
    <3>2. ASSUME x \in Members(list), x # t PROVE x \in Members(r)
      <4>1. PICK j \in 1..n : x = list[j]
        BY <2>1, <3>2 DEF Members
      <4>2. j # at
        BY <2>2, <3>2, <4>1
      <4> DEFINE i == IF j < at THEN j ELSE j - 1
      <4>3. i \in 1..(n - 1) /\ x = r[i]
        BY <2>1, <2>2, <2>4, <4>1, <4>2
      <4> QED
        BY <2>4, <4>3 DEF Members
    <3> QED
      BY <3>1, <3>2
  <2> QED
    BY <2>4, <2>5, <2>6 DEF Lists, r
<1> QED
  BY <1>1, <1>2

\* A new item between the first n and the rest.
Inserted(list, n, t) == SubSeq(list, 1, n) \o <<t>> \o SubSeq(list, n + 1, Len(list))

LEMMA InsertInList ==
  ASSUME NEW S, NEW list \in Lists(S), NEW t \in S, t \notin Members(list),
         NEW n \in 0..Len(list)
  PROVE  /\ Inserted(list, n, t) \in Lists(S)
         /\ Members(Inserted(list, n, t)) = Members(list) \cup {t}
         /\ Len(Inserted(list, n, t)) = Len(list) + 1
         /\ \A i \in 1..(Len(list) + 1) :
              Inserted(list, n, t)[i] = IF i <= n THEN list[i] ELSE IF i = n + 1 THEN t ELSE list[i - 1]
<1> DEFINE r == Inserted(list, n, t)
           l == Len(list)
           a == SubSeq(list, 1, n)
           b == SubSeq(list, n + 1, l)
<1>1. list \in Seq(S) /\ l \in Nat /\ DOMAIN list = 1..l /\ n \in 0..l /\ \A i \in 1..l : list[i] \in S
  BY DEF Lists
<1>2. /\ \A i, j \in 1..l : list[i] = list[j] => i = j
      /\ \A i \in 1..l : list[i] # t
  BY <1>1 DEF Lists, Once, Members
<1>3. r = (a \o <<t>>) \o b
  BY DEF Inserted
<1>c. Len(list) = l
  OBVIOUS
<1> HIDE DEF l, r
<1>4. /\ a \in Seq(S) /\ Len(a) = n /\ \A i \in 1..n : a[i] = list[i]
      /\ b \in Seq(S) /\ Len(b) = l - n /\ \A i \in 1..(l - n) : b[i] = list[i + n]
  <2>1. /\ a \in Seq(S) /\ Len(a) = n - 1 + 1
        /\ \A i \in 1..(n - 1 + 1) : a[i] = list[1 + i - 1]
    BY <1>1, <1>c, Part
  <2>2. /\ b \in Seq(S) /\ Len(b) = l - (n + 1) + 1
        /\ \A i \in 1..(l - (n + 1) + 1) : b[i] = list[(n + 1) + i - 1]
    BY <1>1, <1>c, Part
  <2> HIDE DEF a, b
  <2>3. ASSUME NEW i \in 1..n PROVE a[i] = list[i]
    <3>1. 1 + i - 1 = i /\ i \in 1..(n - 1 + 1)
      BY <1>1
    <3> QED
      BY <2>1, <3>1
  <2>4. ASSUME NEW i \in 1..(l - n) PROVE b[i] = list[i + n]
    <3>1. (n + 1) + i - 1 = i + n /\ i \in 1..(l - (n + 1) + 1)
      BY <1>1
    <3> QED
      BY <2>2, <3>1
  <2>5. Len(a) = n /\ Len(b) = l - n
    BY <1>1, <2>1, <2>2
  <2> QED
    BY <2>1, <2>2, <2>3, <2>4, <2>5
<1> HIDE DEF a, b
<1>5. /\ r \in Seq(S) /\ Len(r) = l + 1 /\ DOMAIN r = 1..(l + 1)
      /\ \A i \in 1..(l + 1) : r[i] = IF i <= n THEN list[i] ELSE IF i = n + 1 THEN t ELSE list[i - 1]
  <2> DEFINE c == a \o <<t>>
  <2>1. <<t>> \in Seq(S) /\ Len(<<t>>) = 1 /\ <<t>>[1] = t
    OBVIOUS
  <2>2. /\ c \in Seq(S) /\ Len(c) = n + 1
        /\ \A i \in 1..(n + 1) : c[i] = IF i <= n THEN a[i] ELSE <<t>>[i - n]
    BY <1>4, <2>1, ConcatProperties
  <2>3. r = c \o b
    BY <1>3
  <2> HIDE DEF c
  <2>4. /\ r \in Seq(S) /\ Len(r) = Len(c) + Len(b)
        /\ \A i \in 1..(Len(c) + Len(b)) : r[i] = IF i <= Len(c) THEN c[i] ELSE b[i - Len(c)]
    <3>1. c \in Seq(S) /\ b \in Seq(S)
      BY <1>4, <2>2
    <3>2. /\ c \o b \in Seq(S) /\ Len(c \o b) = Len(c) + Len(b)
          /\ \A i \in 1..(Len(c) + Len(b)) : (c \o b)[i] = IF i <= Len(c) THEN c[i] ELSE b[i - Len(c)]
      BY <3>1, ConcatProperties, Zenon
    <3> QED
      BY <2>3, <3>2, Zenon
  <2>5. Len(r) = l + 1 /\ Len(c) = n + 1 /\ Len(c) + Len(b) = l + 1
    BY <1>1, <1>4, <2>2, <2>4
  <2>6. \A i \in 1..(n + 1) : c[i] = IF i <= n THEN list[i] ELSE t
    <3> SUFFICES ASSUME NEW i \in 1..(n + 1) PROVE c[i] = IF i <= n THEN list[i] ELSE t
      OBVIOUS
    <3>1. CASE i <= n
      BY <1>1, <1>4, <2>2, <3>1
    <3>2. CASE ~(i <= n)
      <4>1. i - n = 1
        BY <1>1, <3>2
      <4> QED
        BY <2>1, <2>2, <3>2, <4>1
    <3> QED
      BY <3>1, <3>2
  <2>7. ASSUME NEW i \in 1..(l + 1)
        PROVE  r[i] = IF i <= n THEN list[i] ELSE IF i = n + 1 THEN t ELSE list[i - 1]
    <3>1. CASE i <= n + 1
      <4>1. i \in 1..(n + 1) /\ r[i] = c[i]
        BY <1>1, <2>4, <2>5, <3>1
      <4>2. i <= n \/ (~(i <= n) /\ i = n + 1)
        BY <1>1, <3>1
      <4> QED
        BY <2>6, <4>1, <4>2
    <3>2. CASE ~(i <= n + 1)
      <4>1. r[i] = b[i - (n + 1)] /\ i - (n + 1) \in 1..(l - n) /\ i - (n + 1) + n = i - 1
        BY <1>1, <2>4, <2>5, <3>2
      <4>2. b[i - (n + 1)] = list[i - 1]
        BY <1>4, <4>1
      <4>3. ~(i <= n) /\ i # n + 1
        BY <1>1, <3>2
      <4> QED
        BY <4>1, <4>2, <4>3
    <3> QED
      BY <3>1, <3>2
  <2> QED
    BY <1>1, <2>4, <2>5, <2>7
<1>6. Once(r)
  BY <1>1, <1>2, <1>5 DEF Once
<1>7. \A x : x \in Members(r) <=> x \in Members(list) \/ x = t
  <2> SUFFICES ASSUME NEW x PROVE x \in Members(r) <=> x \in Members(list) \/ x = t
    OBVIOUS
  <2>1. ASSUME x \in Members(r) PROVE x \in Members(list) \/ x = t
    <3>1. PICK i \in 1..(l + 1) : x = r[i]
      BY <1>5, <2>1 DEF Members
    <3>2. CASE i <= n
      BY <1>1, <1>5, <3>1, <3>2 DEF Members
    <3>3. CASE i = n + 1
      BY <1>1, <1>5, <3>1, <3>3
    <3>4. CASE i > n + 1
      <4>1. r[i] = list[i - 1] /\ i - 1 \in 1..l
        BY <1>1, <1>5, <3>4
      <4> QED
        BY <1>1, <3>1, <4>1 DEF Members
    <3> QED
      BY <1>1, <3>2, <3>3, <3>4
  <2>2. ASSUME x \in Members(list) PROVE x \in Members(r)
    <3>1. PICK j \in 1..l : x = list[j]
      BY <1>1, <2>2 DEF Members
    <3> DEFINE i == IF j <= n THEN j ELSE j + 1
    <3>2. i \in 1..(l + 1) /\ x = r[i]
      BY <1>1, <1>5, <3>1
    <3> QED
      BY <1>5, <3>2 DEF Members
  <2>3. t \in Members(r)
    <3>1. n + 1 \in 1..(l + 1) /\ ~(n + 1 <= n)
      BY <1>1
    <3>2. r[n + 1] = t
      BY <1>5, <3>1
    <3> QED
      BY <1>5, <3>1, <3>2 DEF Members
  <2> QED
    BY <2>1, <2>2, <2>3
<1>8. Members(r) = Members(list) \cup {t}
  BY <1>7
<1>9. r \in Lists(S)
  BY <1>5, <1>6 DEF Lists
<1>10. /\ Len(r) = Len(list) + 1
       /\ \A i \in 1..(Len(list) + 1) : r[i] = IF i <= n THEN list[i] ELSE IF i = n + 1 THEN t ELSE list[i - 1]
  BY <1>5, <1>c
<1> QED
  BY <1>8, <1>9, <1>10, Zenon DEF r

\* The end of a ring is just before the item of pxIndex.
LEMMA InsertInRing ==
  ASSUME NEW ring \in Rings, NEW t \in Task, t \notin Members(ring)
  PROVE  /\ vListInsertEnd(ring, t) \in Rings
         /\ Members(vListInsertEnd(ring, t)) = Members(ring) \cup {t}
<1> DEFINE S == Task \cup {EndMark}
           l == Len(ring)
<1>1. ring \in Lists(S) /\ ring \in Seq(S) /\ l \in Nat /\ DOMAIN ring = 1..l /\ l > 0
  BY DEF Rings, Lists, Members
<1>2. SubSeq(ring, (l - 1) + 1, l) = <<ring[l]>>
  <2> DEFINE q == SubSeq(ring, l, l)
             x == ring[l]
  <2>1. l \in Int /\ 1 <= l /\ l <= l + 1 /\ (l - 1) + 1 = l
    BY <1>1
  <2>2. q \in Seq(S) /\ Len(q) = l - l + 1 /\ \A i \in 1..(l - l + 1) : q[i] = ring[l + i - 1]
    BY <1>1, <2>1, Part
  <2>3. l - l + 1 = 1 /\ l + 1 - 1 = l
    BY <2>1
  <2>4. q \in Seq(S) /\ Len(q) = 1 /\ q[1] = x
    BY <2>2, <2>3
  <2> HIDE DEF q, x
  <2>5. q = <<x>>
    BY <2>4
  <2> QED
    BY <2>1, <2>5 DEF q, x
<1>3. vListInsertEnd(ring, t) = Inserted(ring, l - 1, t)
  <2> DEFINE a == SubSeq(ring, 1, l - 1)
             x == ring[l]
  <2>1. a \in Seq(S) /\ x \in S
    BY <1>1
  <2>2. vListInsertEnd(ring, t) = a \o <<t, x>>
    BY DEF vListInsertEnd
  <2> HIDE DEF a, x, S
  <2>3. <<t, x>> = <<t>> \o <<x>>
    OBVIOUS
  <2>4. a \o (<<t>> \o <<x>>) = (a \o <<t>>) \o <<x>>
    BY <2>1
  <2> QED
    BY <1>2, <2>2, <2>3, <2>4 DEF a, x, Inserted
<1>4. l - 1 \in 0..l /\ t \in S
  BY <1>1
<1> HIDE DEF S
<1>5. /\ vListInsertEnd(ring, t) \in Lists(S)
      /\ Members(vListInsertEnd(ring, t)) = Members(ring) \cup {t}
  BY <1>1, <1>3, <1>4, InsertInList
<1> QED
  BY <1>5 DEF Rings, S

\* A sorted list takes an item anywhere.
LEMMA InsertSorted ==
  ASSUME NEW S, NEW list \in Lists(S), NEW t \in S, t \notin Members(list), NEW value
  PROVE  /\ vListInsert(list, t, value) \in Lists(S)
         /\ Members(vListInsert(list, t, value)) = Members(list) \cup {t}
<1> DEFINE low == {i \in DOMAIN list : value[list[i]] <= value[t]}
           n == Cardinality(low)
<1>1. Len(list) \in Nat /\ DOMAIN list = 1..Len(list)
  BY DEF Lists
<1>2. IsFiniteSet(1..Len(list)) /\ Cardinality(1..Len(list)) = Len(list)
  <2> DEFINE l == Len(list)
             c == Cardinality(1..l)
  <2>1. 1 \in Int /\ l \in Int /\ l \in Nat
    BY <1>1
  <2>2. IsFiniteSet(1..l) /\ c = IF 1 > l THEN 0 ELSE l - 1 + 1
    BY <2>1, FS_Interval
  <2> HIDE DEF l, c
  <2>3. c = l
    BY <2>1, <2>2
  <2> QED
    BY <2>2, <2>3 DEF l, c
<1>3. low \subseteq 1..Len(list)
  BY <1>1
<1> HIDE DEF low
<1>4. n \in Nat /\ n <= Len(list)
  <2>1. IsFiniteSet(low) /\ Cardinality(low) <= Cardinality(1..Len(list))
    BY <1>2, <1>3, FS_Subset, Zenon
  <2>2. Cardinality(low) \in Nat
    BY <2>1, FS_CardinalityType
  <2> QED
    BY <1>2, <2>1, <2>2
<1>5. vListInsert(list, t, value) = Inserted(list, n, t)
  BY DEF vListInsert, Inserted, low
<1> HIDE DEF n
<1>6. n \in 0..Len(list)
  BY <1>1, <1>4
<1> QED
  BY <1>5, <1>6, InsertInList

\* The first item of a list goes.
LEMMA TailOfList ==
  ASSUME NEW S, NEW list \in Lists(S), list # <<>>
  PROVE  /\ Head(list) \in Members(list) /\ Head(list) \in S
         /\ Tail(list) \in Lists(S) /\ Len(Tail(list)) = Len(list) - 1
         /\ \A i \in 1..(Len(list) - 1) : Tail(list)[i] = list[i + 1]
         /\ Members(Tail(list)) = Members(list) \ {Head(list)}
<1> DEFINE n == Len(list)
           h == Head(list)
           r == Tail(list)
<1>1. list \in Seq(S) /\ n \in Nat /\ n > 0 /\ DOMAIN list = 1..n /\ h = list[1] /\ h \in S
  BY DEF Lists
<1>2. \A i, j \in 1..n : list[i] = list[j] => i = j
  BY <1>1 DEF Lists, Once
<1>3. /\ r \in Seq(S) /\ Len(r) = n - 1 /\ DOMAIN r = 1..(n - 1)
      /\ \A i \in 1..(n - 1) : r[i] = list[i + 1]
  BY <1>1, HeadTailProperties
<1>c. Len(list) = n
  OBVIOUS
<1> HIDE DEF n, h, r
<1>4. Once(r)
  <2> SUFFICES ASSUME NEW i \in 1..(n - 1), NEW j \in 1..(n - 1), r[i] = r[j] PROVE i = j
    BY <1>3 DEF Once
  <2>1. i + 1 \in 1..n /\ j + 1 \in 1..n /\ list[i + 1] = list[j + 1]
    BY <1>1, <1>3
  <2>2. i + 1 = j + 1
    BY <1>2, <2>1
  <2> QED
    BY <1>1, <2>2
<1>5. \A x : x \in Members(r) <=> x \in Members(list) /\ x # h
  <2> SUFFICES ASSUME NEW x PROVE x \in Members(r) <=> x \in Members(list) /\ x # h
    OBVIOUS
  <2>1. ASSUME x \in Members(r) PROVE x \in Members(list) /\ x # h
    <3>1. PICK i \in 1..(n - 1) : x = r[i]
      BY <1>3, <2>1 DEF Members
    <3>2. i + 1 \in 1..n /\ i + 1 # 1 /\ 1 \in 1..n /\ x = list[i + 1]
      BY <1>1, <1>3, <3>1
    <3> QED
      BY <1>1, <1>2, <3>2 DEF Members
  <2>2. ASSUME x \in Members(list), x # h PROVE x \in Members(r)
    <3>1. PICK j \in 1..n : x = list[j]
      BY <1>1, <2>2 DEF Members
    <3>2. j - 1 \in 1..(n - 1) /\ (j - 1) + 1 = j
      BY <1>1, <2>2, <3>1
    <3>3. r[j - 1] = x
      BY <1>3, <3>1, <3>2
    <3> QED
      BY <1>3, <3>2, <3>3 DEF Members
  <2> QED
    BY <2>1, <2>2
<1>6. Members(r) = Members(list) \ {h}
  BY <1>5
<1>7. h \in Members(list)
  BY <1>1 DEF Members
<1>8. r \in Lists(S)
  BY <1>3, <1>4 DEF Lists
<1> QED
  BY <1>1, <1>3, <1>6, <1>7, <1>8, <1>c DEF h, r

\* A new item at the end of a list.
LEMMA AppendToList ==
  ASSUME NEW S, NEW list \in Lists(S), NEW t \in S, t \notin Members(list)
  PROVE  /\ Append(list, t) \in Lists(S)
         /\ Members(Append(list, t)) = Members(list) \cup {t}
<1> DEFINE n == Len(list)
           r == Append(list, t)
<1>1. list \in Seq(S) /\ n \in Nat /\ DOMAIN list = 1..n /\ \A i, j \in 1..n : list[i] = list[j] => i = j
  BY DEF Lists, Once
<1>2. /\ r \in Seq(S) /\ DOMAIN r = 1..(n + 1) /\ r[n + 1] = t
      /\ \A i \in 1..n : r[i] = list[i]
  BY <1>1
<1>3. \A i \in 1..n : list[i] # t
  BY <1>1 DEF Members
<1> HIDE DEF n, r
<1>4. \A i \in 1..(n + 1) : i = n + 1 \/ i \in 1..n
  BY <1>1
<1>5. Once(r)
  <2> SUFFICES ASSUME NEW i \in 1..(n + 1), NEW j \in 1..(n + 1), r[i] = r[j] PROVE i = j
    BY <1>2 DEF Once
  <2>1. CASE i = n + 1 /\ j # n + 1
    BY <1>2, <1>3, <1>4, <2>1
  <2>2. CASE i # n + 1 /\ j = n + 1
    BY <1>2, <1>3, <1>4, <2>2
  <2>3. CASE i # n + 1 /\ j # n + 1
    BY <1>1, <1>2, <1>4, <2>3
  <2> QED
    BY <2>1, <2>2, <2>3
<1>6. \A x : x \in Members(r) <=> x \in Members(list) \/ x = t
  <2> SUFFICES ASSUME NEW x PROVE x \in Members(r) <=> x \in Members(list) \/ x = t
    OBVIOUS
  <2>1. x \in Members(r) <=> \E i \in 1..(n + 1) : x = r[i]
    BY <1>2 DEF Members
  <2>2. x \in Members(list) <=> \E i \in 1..n : x = list[i]
    BY <1>1 DEF Members
  <2>3. n + 1 \in 1..(n + 1) /\ \A i \in 1..n : i \in 1..(n + 1)
    BY <1>1
  <2> QED
    BY <1>2, <1>4, <2>1, <2>2, <2>3
<1>7. Members(r) = Members(list) \cup {t}
  BY <1>6
<1> QED
  BY <1>2, <1>5, <1>7 DEF Lists, r

\* A ring turned by one item.
LEMMA RotateRing ==
  ASSUME NEW S, NEW ring \in Lists(S), ring # <<>>
  PROVE  /\ Rotated(ring) \in Lists(S) /\ Rotated(ring) # <<>>
         /\ Members(Rotated(ring)) = Members(ring)
         /\ Len(Rotated(ring)) = Len(ring)
         /\ Rotated(ring)[Len(ring)] = Head(ring)
         /\ Len(ring) > 1 => Head(Rotated(ring)) = ring[2]
<1> DEFINE n == Len(ring)
           h == Head(ring)
           a == Tail(ring)
           r == Append(a, h)
<1>1. ring \in Seq(S) /\ n \in Nat /\ n > 0 /\ DOMAIN ring = 1..n /\ h \in S /\ h \in Members(ring)
  BY TailOfList DEF Lists
<1>2. /\ a \in Lists(S) /\ Len(a) = n - 1 /\ Members(a) = Members(ring) \ {h}
      /\ \A i \in 1..(n - 1) : a[i] = ring[i + 1]
  BY TailOfList
<1>3. a \in Seq(S) /\ (\A i, j \in 1..(n - 1) : a[i] = a[j] => i = j) /\ DOMAIN a = 1..(n - 1)
  BY <1>2 DEF Lists, Once
<1>c. Len(ring) = n
  OBVIOUS
<1> HIDE DEF n, h, a
<1>4. /\ r \in Seq(S) /\ Len(r) = n /\ DOMAIN r = 1..n
      /\ \A i \in 1..(n - 1) : r[i] = a[i]
      /\ r[n] = h
  <2>1. Append(a, h) \in Seq(S) /\ Len(Append(a, h)) = Len(a) + 1
    BY <1>1, <1>3
  <2>2. \A i \in 1..(n - 1) : Append(a, h)[i] = a[i]
    BY <1>1, <1>2, <1>3
  <2>3. Append(a, h)[Len(a) + 1] = h
    BY <1>1, <1>3
  <2>4. Len(a) + 1 = n
    BY <1>1, <1>2
  <2> QED
    BY <1>1, <2>1, <2>2, <2>3, <2>4
<1> HIDE DEF r
<1>5. \A i \in 1..(n - 1) : r[i] # h
  <2> SUFFICES ASSUME NEW i \in 1..(n - 1), r[i] = h PROVE FALSE
    OBVIOUS
  <2>1. a[i] = h
    BY <1>4
  <2>2. h \in Members(a)
    BY <1>3, <2>1 DEF Members
  <2> QED
    BY <1>2, <2>2
<1>6. Once(r)
  <2> SUFFICES ASSUME NEW i \in 1..n, NEW j \in 1..n, r[i] = r[j] PROVE i = j
    BY <1>4 DEF Once
  <2>1. CASE i = n \/ j = n
    BY <1>1, <1>4, <1>5, <2>1
  <2>2. CASE i # n /\ j # n
    <3>1. i \in 1..(n - 1) /\ j \in 1..(n - 1)
      BY <1>1, <2>2
    <3> QED
      BY <1>3, <1>4, <3>1
  <2> QED
    BY <2>1, <2>2
<1>7. Members(r) = Members(ring)
  <2>1. ASSUME NEW x \in Members(r) PROVE x \in Members(ring)
    <3>1. PICK i \in 1..n : x = r[i]
      BY <1>4, <2>1 DEF Members
    <3>2. CASE i = n
      BY <1>1, <1>4, <3>1, <3>2
    <3>3. CASE i # n
      <4>1. i \in 1..(n - 1)
        BY <1>1, <3>3
      <4>2. x \in Members(a)
        BY <1>3, <1>4, <3>1, <4>1 DEF Members
      <4> QED
        BY <1>2, <4>2
    <3> QED
      BY <3>2, <3>3
  <2>2. ASSUME NEW x \in Members(ring) PROVE x \in Members(r)
    <3>1. CASE x = h
      BY <1>1, <1>4, <3>1 DEF Members
    <3>2. CASE x # h
      <4>1. x \in Members(a)
        BY <1>2, <3>2
      <4>2. PICK i \in 1..(n - 1) : x = a[i]
        BY <1>3, <4>1 DEF Members
      <4>3. i \in 1..n /\ x = r[i]
        BY <1>1, <1>4, <4>2
      <4> QED
        BY <1>4, <4>3 DEF Members
    <3> QED
      BY <3>1, <3>2
  <2> QED
    BY <2>1, <2>2
<1>8. r \in Lists(S) /\ r # <<>>
  BY <1>1, <1>4, <1>6 DEF Lists
<1>9. n > 1 => Head(r) = ring[2]
  <2> SUFFICES ASSUME n > 1 PROVE Head(r) = ring[2]
    OBVIOUS
  <2>1. 1 \in 1..(n - 1) /\ 1 + 1 = 2
    BY <1>1
  <2>2. r[1] = ring[2]
    BY <1>2, <1>4, <2>1
  <2> QED
    BY <1>4, <1>8, <2>2
<1>10. Rotated(ring) = r
  BY DEF Rotated, r, a, h
<1> QED
  BY <1>4, <1>7, <1>8, <1>9, <1>10, <1>c DEF h

\* pxIndex moves on to a task.
LEMMA NextInRing ==
  ASSUME NEW ring \in Rings, Members(ring) \ {EndMark} # {}
  PROVE  /\ NextEntry(ring) \in Rings
         /\ Members(NextEntry(ring)) = Members(ring)
         /\ NextEntry(ring)[Len(NextEntry(ring))] \in Members(ring) \ {EndMark}
<1> DEFINE S == Task \cup {EndMark}
           n == Len(ring)
           r == Rotated(ring)
           q == Rotated(r)
<1>1. ring \in Lists(S) /\ ring \in Seq(S) /\ n \in Nat /\ DOMAIN ring = 1..n /\ EndMark \in Members(ring)
  BY DEF Rings, Lists
<1>2. n > 1
  <2>1. PICK i \in 1..n : ring[i] = EndMark
    BY <1>1 DEF Members
  <2>2. PICK j \in 1..n : ring[j] # EndMark
    BY <1>1 DEF Members
  <2> QED
    BY <1>1, <2>1, <2>2
<1>3. ring # <<>> /\ \A i, j \in 1..n : ring[i] = ring[j] => i = j
  BY <1>1, <1>2 DEF Lists, Once
<1>4. Head(ring) = ring[1] /\ ring[1] \in Members(ring) /\ ring[2] \in Members(ring) /\ ring[1] # ring[2]
  BY <1>1, <1>2, <1>3 DEF Members
<1>c. Len(ring) = n
  OBVIOUS
<1> HIDE DEF n, S
<1>5. /\ r \in Lists(S) /\ r # <<>> /\ Members(r) = Members(ring) /\ Len(r) = n
      /\ r[n] = Head(ring) /\ Head(r) = ring[2]
  BY <1>1, <1>2, <1>3, <1>c, RotateRing
<1> HIDE DEF r
<1>6. CASE Head(ring) # EndMark
  <2>1. NextEntry(ring) = r
    BY <1>6 DEF NextEntry, r
  <2> QED
    BY <1>1, <1>4, <1>5, <1>6, <2>1 DEF Rings, S
<1>7. CASE Head(ring) = EndMark
  <2>1. NextEntry(ring) = q
    BY <1>7 DEF NextEntry, r
  <2>2. q \in Lists(S) /\ Members(q) = Members(ring) /\ Len(q) = n /\ q[n] = ring[2]
    BY <1>5, RotateRing
  <2> HIDE DEF q
  <2>3. ring[2] # EndMark
    BY <1>4, <1>7
  <2> QED
    BY <1>1, <1>4, <2>1, <2>2, <2>3 DEF Rings, S
<1> QED
  BY <1>6, <1>7

-----------------------------------------------------------------------------
(***************************************************************************)
(* The kernel's record.                                                    *)
(***************************************************************************)
Fields ==
  {"pxCurrentTCB", "ready", "delayed", "overflow", "wake", "waiting", "pending", "tick",
   "nextUnblock", "pendedTicks", "suspended", "yieldPending", "pendSV", "notify", "value",
   "prio", "held", "failed"}
StateLists == {"ready", "delayed", "overflow", "wake"}

Kern(k) ==
  /\ DOMAIN k = Fields
  /\ k.pxCurrentTCB \in Task
  /\ k.ready \in [Priority -> Rings]
  /\ k.delayed \in Lists(Task) /\ k.overflow \in Lists(Task) /\ k.pending \in Lists(Task)
  /\ k.waiting \in [Object -> Lists(Task)]
  /\ k.prio \in [Task -> Priority]
  /\ DOMAIN k.wake = Task /\ DOMAIN k.notify = Task /\ DOMAIN k.value = Task
  /\ k.held \in [Task -> Int]

\* The scheduler is not suspended, and nothing waits for it to be resumed.
Quiet(k) == k.suspended = 0 /\ k.pendedTicks = 0 /\ k.pending = <<>>

\* All but some fields stay.
Keeps(j, k, F) == DOMAIN j = DOMAIN k /\ \A f \in Fields \ F : j[f] = k[f]

\* A task is taken from whatever list it was in.
LEMMA UnlistedKernel ==
  ASSUME NEW k, Kern(k), NEW t \in Task, EndMark \notin Task
  PROVE  /\ Kern(Unlisted(k, t))
         /\ Keeps(Unlisted(k, t), k, StateLists)
         /\ \A p \in Priority : Members(Unlisted(k, t).ready[p]) = Members(k.ready[p]) \ {t}
         /\ Members(Unlisted(k, t).delayed) = Members(k.delayed) \ {t}
         /\ Members(Unlisted(k, t).overflow) = Members(k.overflow) \ {t}
<1> DEFINE j == Unlisted(k, t)
           r == [p \in Priority |-> uxListRemove(k.ready[p], t)]
           d == uxListRemove(k.delayed, t)
           o == uxListRemove(k.overflow, t)
<1>1. /\ DOMAIN j = Fields /\ Keeps(j, k, StateLists)
      /\ j.ready = r /\ j.delayed = d /\ j.overflow = o /\ j.wake = [k.wake EXCEPT ![t] = 0]
  BY DEF Kern, Fields, Keeps, StateLists, Unlisted
<1>2. \A p \in Priority : r[p] \in Rings /\ Members(r[p]) = Members(k.ready[p]) \ {t}
  <2> SUFFICES ASSUME NEW p \in Priority
               PROVE  r[p] \in Rings /\ Members(r[p]) = Members(k.ready[p]) \ {t}
    OBVIOUS
  <2>1. k.ready[p] \in Lists(Task \cup {EndMark}) /\ EndMark \in Members(k.ready[p])
    BY DEF Kern, Rings
  <2>2. /\ r[p] \in Lists(Task \cup {EndMark})
        /\ Members(r[p]) = Members(k.ready[p]) \ {t}
    BY <2>1, RemoveFromList
  <2> QED
    BY <2>1, <2>2 DEF Rings
<1>3. /\ d \in Lists(Task) /\ Members(d) = Members(k.delayed) \ {t}
      /\ o \in Lists(Task) /\ Members(o) = Members(k.overflow) \ {t}
  BY RemoveFromList DEF Kern
<1>4. r \in [Priority -> Rings]
  BY <1>2
<1> HIDE DEF j, r, d, o
<1>5. Kern(j)
  BY <1>1, <1>3, <1>4 DEF Kern, Keeps, StateLists, Fields
<1> QED
  BY <1>1, <1>2, <1>3, <1>5 DEF j

\* A task goes to the ready list of its priority.
JoinsReady(j, k, t) ==
  \A p \in Priority : \A x :
    x \in Members(j.ready[p]) <=>
      \/ x = t /\ p = k.prio[t]
      \/ x # t /\ x \in Members(k.ready[p])

LEMMA ReadiedKernel ==
  ASSUME NEW k, Kern(k), NEW t \in Task, EndMark \notin Task
  PROVE  /\ Kern(Readied(k, t))
         /\ Keeps(Readied(k, t), k, StateLists)
         /\ JoinsReady(Readied(k, t), k, t)
         /\ Members(Readied(k, t).delayed) = Members(k.delayed) \ {t}
         /\ Members(Readied(k, t).overflow) = Members(k.overflow) \ {t}
<1> DEFINE u == Unlisted(k, t)
           j == Readied(k, t)
           q == k.prio[t]
           l == vListInsertEnd(u.ready[q], t)
<1>1. /\ Kern(u) /\ Keeps(u, k, StateLists)
      /\ \A p \in Priority : Members(u.ready[p]) = Members(k.ready[p]) \ {t}
      /\ Members(u.delayed) = Members(k.delayed) \ {t}
      /\ Members(u.overflow) = Members(k.overflow) \ {t}
  BY UnlistedKernel
<1>2. j = [u EXCEPT !.ready[u.prio[t]] = vListInsertEnd(@, t)]
  BY DEF Readied, prvAddTaskToReadyList
<1> HIDE DEF u, j
<1>3. q \in Priority /\ u.prio[t] = q
  BY <1>1 DEF Kern, Keeps, Fields, StateLists
<1>4. l \in Rings /\ Members(l) = Members(u.ready[q]) \cup {t}
  <2>1. u.ready[q] \in Rings /\ t \notin Members(u.ready[q])
    BY <1>1, <1>3 DEF Kern
  <2> QED
    BY <2>1, InsertInRing
<1>5. /\ DOMAIN j = Fields /\ Keeps(j, u, {"ready"}) /\ j.ready = [u.ready EXCEPT ![q] = l]
  BY <1>1, <1>2, <1>3 DEF Kern, Keeps, Fields
<1> HIDE DEF l, q
<1>6. j.ready \in [Priority -> Rings]
  BY <1>1, <1>3, <1>4, <1>5 DEF Kern
<1>7. Kern(j)
  BY <1>1, <1>5, <1>6 DEF Kern, Keeps, Fields
<1>8. Keeps(j, k, StateLists)
  BY <1>1, <1>5 DEF Keeps, Fields, StateLists
<1>9. JoinsReady(j, k, t)
  <2> SUFFICES ASSUME NEW p \in Priority, NEW x
               PROVE  x \in Members(j.ready[p]) <=>
                        \/ x = t /\ p = q
                        \/ x # t /\ x \in Members(k.ready[p])
    BY Zenon DEF JoinsReady, q
  <2>1. CASE p = q
    <3>1. j.ready[p] = l
      BY <1>1, <1>3, <1>5, <2>1 DEF Kern
    <3> QED
      BY <1>1, <1>3, <1>4, <2>1, <3>1
  <2>2. CASE p # q
    <3>1. j.ready[p] = u.ready[p]
      BY <1>1, <1>3, <1>5, <2>2 DEF Kern
    <3> QED
      BY <1>1, <2>2, <3>1
  <2> QED
    BY <2>1, <2>2
<1>10. j.delayed = u.delayed /\ j.overflow = u.overflow
  BY <1>5 DEF Keeps, Fields
<1> QED
  BY <1>1, <1>7, <1>8, <1>9, <1>10 DEF j, q

\* A task is ready if it is in some ready list.
LEMMA ReadyMember ==
  ASSUME NEW k, NEW x
  PROVE  x \in ReadyTasks(k) <=> x # EndMark /\ \E p \in Priority : x \in Members(k.ready[p])
BY DEF ReadyTasks

LEMMA ReadiedTasks ==
  ASSUME NEW k, Kern(k), NEW t \in Task, EndMark \notin Task
  PROVE  ReadyTasks(Readied(k, t)) = ReadyTasks(k) \cup {t}
<1> DEFINE j == Readied(k, t)
<1>1. JoinsReady(j, k, t)
  BY ReadiedKernel, Zenon
<1>2. k.prio[t] \in Priority /\ t # EndMark
  BY DEF Kern
<1> HIDE DEF j
<1>3. \A x : x \in ReadyTasks(j) <=> x \in ReadyTasks(k) \/ x = t
  <2> SUFFICES ASSUME NEW x PROVE x \in ReadyTasks(j) <=> x \in ReadyTasks(k) \/ x = t
    OBVIOUS
  <2>1. x \in ReadyTasks(j) <=> x # EndMark /\ \E p \in Priority : x \in Members(j.ready[p])
    BY ReadyMember
  <2>2. x \in ReadyTasks(k) <=> x # EndMark /\ \E p \in Priority : x \in Members(k.ready[p])
    BY ReadyMember
  <2> QED
    BY <1>1, <1>2, <2>1, <2>2 DEF JoinsReady
<1> QED
  BY <1>3 DEF j

LEMMA UnlistedTasks ==
  ASSUME NEW k, Kern(k), NEW t \in Task, EndMark \notin Task
  PROVE  ReadyTasks(Unlisted(k, t)) = ReadyTasks(k) \ {t}
<1> DEFINE j == Unlisted(k, t)
<1>1. \A p \in Priority : Members(j.ready[p]) = Members(k.ready[p]) \ {t}
  BY UnlistedKernel
<1> HIDE DEF j
<1>2. \A x : x \in ReadyTasks(j) <=> x \in ReadyTasks(k) /\ x # t
  BY <1>1, ReadyMember
<1> QED
  BY <1>2 DEF j

-----------------------------------------------------------------------------
(***************************************************************************)
(* Context switches.                                                       *)
(***************************************************************************)
LEMMA LeastNatural ==
  ASSUME NEW T \in SUBSET Nat, T # {}
  PROVE  \E n \in T : \A m \in T : n <= m
<1> DEFINE R == OpToRel(<, Nat)
<1>1. IsWellFoundedOn(R, Nat)
  BY NatLessThanWellFounded
<1> HIDE DEF R
<1>2. PICK n \in T : \A m \in T : <<m, n>> \notin R
  BY <1>1, WFMin, Zenon
<1>3. \A a, b \in Nat : a < b => <<a, b>> \in R
  BY DEF R, OpToRel
<1>4. ASSUME NEW m \in T PROVE n <= m
  <2>1. n \in Nat /\ m \in Nat /\ <<m, n>> \notin R
    BY <1>2
  <2>2. ~(m < n)
    BY <1>3, <2>1
  <2> QED
    BY <2>1, <2>2
<1> QED
  BY <1>4

LEMMA PriorityType == Priority \subseteq Nat /\ IsFiniteSet(Priority)
<1>1. BasePriority \in [Task -> Nat] /\ IsFiniteSet(Task)
  BY KernelAssumption
<1>2. BasePriority \in Surjection(Task, Priority)
  BY <1>1 DEF Surjection, Priority
<1>3. IsFiniteSet(Priority)
  BY <1>1, <1>2, FS_Surjection
<1> QED
  BY <1>1, <1>3 DEF Priority

\* There is a highest one among the priorities.
LEMMA HighestPriority ==
  ASSUME NEW P \in SUBSET Priority, P # {}
  PROVE  \E p \in P : \A q \in P : q <= p
<1>1. P \subseteq Nat /\ IsFiniteSet(P)
  BY PriorityType, FS_Subset
<1> DEFINE Above(p) == {q \in P : q > p}
           Count(p) == Cardinality(Above(p))
           Counts == {Count(p) : p \in P}
<1>2. \A p \in P : IsFiniteSet(Above(p))
  <2>1. \A p \in P : Above(p) \in SUBSET P
    OBVIOUS
  <2> HIDE DEF Above
  <2> QED
    BY <1>1, <2>1, FS_Subset
<1>3. \A p \in P : Count(p) \in Nat
  BY <1>2, FS_CardinalityType
<1>4. \A p, q \in P : q > p => Count(q) < Count(p)
  <2> SUFFICES ASSUME NEW p \in P, NEW q \in P, q > p PROVE Count(q) < Count(p)
    OBVIOUS
  <2>1. Above(q) \subseteq Above(p) /\ q \in Above(p) /\ q \notin Above(q)
    <3>1. p \in Int /\ q \in Int
      BY <1>1
    <3>2. \A x \in P : x \in Int
      BY <1>1
    <3>3. \A x \in P : x > q => x > p
      BY <3>1, <3>2
    <3>4. ~(q > q)
      BY <3>1
    <3> QED
      BY <3>3, <3>4
  <2> DEFINE a == Above(p)
             b == Above(q)
  <2>2. IsFiniteSet(a) /\ b \in SUBSET a /\ b # a
    BY <1>2, <2>1
  <2>3. Cardinality(a) \in Nat /\ Cardinality(b) \in Nat
    BY <1>3
  <2> HIDE DEF a, b
  <2>4. Cardinality(b) <= Cardinality(a) /\ Cardinality(a) # Cardinality(b)
    BY <2>2, FS_Subset
  <2>5. Cardinality(b) < Cardinality(a)
    BY <2>3, <2>4
  <2> QED
    BY <2>5 DEF a, b
<1>5. Counts \in SUBSET Nat /\ Counts # {}
  BY <1>3
<1> HIDE DEF Count, Above
<1>6. PICK n \in Counts : \A m \in Counts : n <= m
  <2> HIDE DEF Counts
  <2> QED
    BY <1>5, LeastNatural
<1>7. PICK p \in P : n = Count(p)
  OBVIOUS
<1>8. ASSUME NEW q \in P PROVE q <= p
  <2>1. Count(q) \in Counts /\ Count(q) \in Nat /\ Count(p) \in Nat /\ p \in Nat /\ q \in Nat
    BY <1>1, <1>3
  <2>2. ~(Count(q) < Count(p))
    BY <1>6, <1>7, <2>1
  <2> QED
    BY <1>4, <2>1, <2>2
<1> QED
  BY <1>8

LEMMA TopPriority ==
  ASSUME NEW k, ReadyTasks(k) # {}
  PROVE  /\ TopReadyPriority(k) \in Priority
         /\ ReadyAt(k, TopReadyPriority(k)) # {}
         /\ \A q \in Priority : ReadyAt(k, q) # {} => q <= TopReadyPriority(k)
<1> DEFINE P == {p \in Priority : ReadyAt(k, p) # {}}
<1>1. P # {}
  BY DEF ReadyTasks, ReadyAt
<1>2. P \in SUBSET Priority
  OBVIOUS
<1>3. \E p \in P : \A q \in P : q <= p
  <2> HIDE DEF P
  <2> QED
    BY <1>1, <1>2, HighestPriority
<1>4. \E p \in Priority : ReadyAt(k, p) # {} /\ \A q \in Priority : ReadyAt(k, q) # {} => q <= p
  BY <1>3
<1> QED
  BY <1>4, Zenon DEF TopReadyPriority

\* The next task is one of the highest priority among the ready ones.
LEMMA SwitchKernel ==
  ASSUME NEW k, Kern(k), k.suspended = 0, ReadyTasks(k) # {}, EndMark \notin Task
  PROVE  /\ Kern(vTaskSwitchContext(k))
         /\ Keeps(vTaskSwitchContext(k), k, {"pendSV", "yieldPending", "ready", "pxCurrentTCB"})
         /\ \A p \in Priority : Members(vTaskSwitchContext(k).ready[p]) = Members(k.ready[p])
         /\ vTaskSwitchContext(k).pendSV = FALSE
         /\ vTaskSwitchContext(k).pxCurrentTCB \in ReadyAt(k, TopReadyPriority(k))
<1> DEFINE p == TopReadyPriority(k)
           ring == NextEntry(k.ready[p])
           c == ring[Len(ring)]
           j == vTaskSwitchContext(k)
<1>1. p \in Priority /\ ReadyAt(k, p) # {}
  BY TopPriority
<1>2. k.ready[p] \in Rings /\ Members(k.ready[p]) \ {EndMark} # {}
  BY <1>1 DEF Kern, ReadyAt
<1>3. ring \in Rings /\ Members(ring) = Members(k.ready[p]) /\ c \in Members(k.ready[p]) \ {EndMark}
  BY <1>2, NextInRing
<1>4. j = [k EXCEPT !.pendSV = FALSE, !.yieldPending = FALSE, !.ready[p] = ring, !.pxCurrentTCB = c]
  BY DEF vTaskSwitchContext
<1>5. c \in Task
  BY <1>2, <1>3 DEF Rings, Lists, Members
<1> HIDE DEF p, ring, c, j
<1>6. /\ DOMAIN j = Fields /\ j.pendSV = FALSE /\ j.pxCurrentTCB = c
      /\ j.ready = [k.ready EXCEPT ![p] = ring]
      /\ Keeps(j, k, {"pendSV", "yieldPending", "ready", "pxCurrentTCB"})
  BY <1>4 DEF Kern, Keeps, Fields
<1>7. j.ready \in [Priority -> Rings] /\ \A q \in Priority : Members(j.ready[q]) = Members(k.ready[q])
  BY <1>1, <1>3, <1>6 DEF Kern
<1>8. Kern(j)
  BY <1>5, <1>6, <1>7 DEF Kern, Keeps, Fields
<1>9. c \in ReadyAt(k, p)
  BY <1>3 DEF ReadyAt
<1> QED
  BY <1>6, <1>7, <1>8, <1>9 DEF j, p

-----------------------------------------------------------------------------
(***************************************************************************)
(* Waiting and waking.                                                     *)
(***************************************************************************)
\* The running task goes to sleep.
LEMMA DelayKernel ==
  ASSUME NEW k, Kern(k), EndMark \notin Task, NEW x
  PROVE  /\ Kern(prvAddCurrentTaskToDelayedList(k, x))
         /\ Keeps(prvAddCurrentTaskToDelayedList(k, x), k, StateLists \cup {"nextUnblock"})
         /\ ReadyTasks(prvAddCurrentTaskToDelayedList(k, x)) = ReadyTasks(k) \ {k.pxCurrentTCB}
<1> DEFINE t == k.pxCurrentTCB
           w == Later(k.tick, x)
           v == Unlisted(k, t)
           u == [v EXCEPT !.wake[t] = w]
           d == vListInsert(u.delayed, t, u.wake)
           o == vListInsert(u.overflow, t, u.wake)
           b == IF w < u.nextUnblock THEN w ELSE u.nextUnblock
           j == prvAddCurrentTaskToDelayedList(k, x)
<1>1. t \in Task
  BY DEF Kern
<1>2. /\ Kern(v) /\ Keeps(v, k, StateLists)
      /\ t \notin Members(v.delayed) /\ t \notin Members(v.overflow)
      /\ ReadyTasks(v) = ReadyTasks(k) \ {t}
  <2> HIDE DEF t
  <2>1. Kern(v) /\ Keeps(v, k, StateLists)
    BY <1>1, UnlistedKernel
  <2>2. Members(v.delayed) = Members(k.delayed) \ {t} /\ Members(v.overflow) = Members(k.overflow) \ {t}
    BY <1>1, UnlistedKernel
  <2>3. ReadyTasks(v) = ReadyTasks(k) \ {t}
    BY <1>1, UnlistedTasks
  <2> QED
    BY <2>1, <2>2, <2>3
<1>3. j = IF w < k.tick THEN [u EXCEPT !.overflow = o] ELSE [u EXCEPT !.delayed = d, !.nextUnblock = b]
  BY DEF prvAddCurrentTaskToDelayedList
<1> HIDE DEF t, w, v
<1>4. Kern(u) /\ Keeps(u, v, {"wake"}) /\ u.ready = v.ready /\ u.delayed = v.delayed /\ u.overflow = v.overflow
  BY <1>1, <1>2 DEF Kern, Keeps, Fields
<1> HIDE DEF u
<1>5. d \in Lists(Task) /\ o \in Lists(Task)
  BY <1>1, <1>2, <1>4, InsertSorted DEF Kern
<1> HIDE DEF d, o, b, j
<1>6. Kern(j) /\ Keeps(j, u, {"delayed", "overflow", "nextUnblock"}) /\ j.ready = u.ready
  <2>1. CASE j = [u EXCEPT !.overflow = o]
    BY <1>4, <1>5, <2>1 DEF Kern, Keeps, Fields
  <2>2. CASE j = [u EXCEPT !.delayed = d, !.nextUnblock = b]
    BY <1>4, <1>5, <2>2 DEF Kern, Keeps, Fields
  <2> QED
    BY <1>3, <2>1, <2>2
<1>7. Keeps(j, k, StateLists \cup {"nextUnblock"})
  BY <1>2, <1>4, <1>6 DEF Keeps, Fields, StateLists
<1>8. ReadyTasks(j) = ReadyTasks(v)
  BY <1>4, <1>6 DEF ReadyTasks
<1> QED
  BY <1>2, <1>6, <1>7, <1>8 DEF j, t

\* It waits for an object.
LEMMA PlaceKernel ==
  ASSUME NEW k, Kern(k), EndMark \notin Task, NEW o \in Object, NEW x,
         k.pxCurrentTCB \notin Members(k.waiting[o])
  PROVE  LET j == vTaskPlaceOnEventList(k, o, x)
         IN  /\ Kern(j)
             /\ Keeps(j, k, StateLists \cup {"nextUnblock", "waiting"})
             /\ ReadyTasks(j) = ReadyTasks(k) \ {k.pxCurrentTCB}
             /\ Members(j.waiting[o]) = Members(k.waiting[o]) \cup {k.pxCurrentTCB}
             /\ \A e \in Object \ {o} : j.waiting[e] = k.waiting[e]
<1> DEFINE t == k.pxCurrentTCB
           l == vListInsert(k.waiting[o], t, [y \in Task |-> 0 - k.prio[y]])
           u == [k EXCEPT !.waiting[o] = l]
           j == vTaskPlaceOnEventList(k, o, x)
<1>1. t \in Task /\ k.waiting[o] \in Lists(Task) /\ t \notin Members(k.waiting[o])
  BY DEF Kern
<1>2. l \in Lists(Task) /\ Members(l) = Members(k.waiting[o]) \cup {t}
  BY <1>1, InsertSorted
<1>3. j = prvAddCurrentTaskToDelayedList(u, x)
  BY DEF vTaskPlaceOnEventList
<1> HIDE DEF l, t
<1>4. /\ Kern(u) /\ Keeps(u, k, {"waiting"}) /\ u.waiting = [k.waiting EXCEPT ![o] = l]
      /\ u.ready = k.ready /\ u.pxCurrentTCB = t
  BY <1>1, <1>2 DEF Kern, Keeps, Fields, t
<1> HIDE DEF u, j
<1>5. /\ Kern(j) /\ Keeps(j, u, StateLists \cup {"nextUnblock"})
      /\ ReadyTasks(j) = ReadyTasks(u) \ {t}
  BY <1>3, <1>4, DelayKernel
<1>6. ReadyTasks(u) = ReadyTasks(k)
  BY <1>4 DEF ReadyTasks
<1>7. j.waiting = u.waiting
  BY <1>5 DEF Keeps, Fields, StateLists
<1>8. Keeps(j, k, StateLists \cup {"nextUnblock", "waiting"})
  BY <1>4, <1>5 DEF Keeps, Fields, StateLists
<1>9. Members(j.waiting[o]) = Members(k.waiting[o]) \cup {t} /\ \A e \in Object \ {o} : j.waiting[e] = k.waiting[e]
  BY <1>2, <1>4, <1>7 DEF Kern
<1> QED
  BY <1>5, <1>6, <1>8, <1>9 DEF j, t

\* The first of those that wait for an object is woken.
LEMMA WakeKernel ==
  ASSUME NEW k, Kern(k), EndMark \notin Task, NEW o \in Object, k.waiting[o] # <<>>, k.suspended = 0
  PROVE  LET j == xTaskRemoveFromEventList(k, o)
             t == Head(k.waiting[o])
         IN  /\ t \in Task
             /\ Kern(j)
             /\ Keeps(j, k, StateLists \cup {"waiting", "yieldPending"})
             /\ ReadyTasks(j) = ReadyTasks(k) \cup {t}
             /\ j.waiting = [k.waiting EXCEPT ![o] = Tail(@)]
<1> DEFINE t == Head(k.waiting[o])
           l == Tail(k.waiting[o])
           y == k.yieldPending \/ Outranks(k, t)
           u == [k EXCEPT !.waiting[o] = l, !.yieldPending = y]
           j == xTaskRemoveFromEventList(k, o)
<1>1. t \in Task /\ l \in Lists(Task)
  BY TailOfList DEF Kern
<1>2. j = Readied(u, t)
  BY DEF xTaskRemoveFromEventList
<1> HIDE DEF t, l, y
<1>3. /\ Kern(u) /\ Keeps(u, k, {"waiting", "yieldPending"})
      /\ u.waiting = [k.waiting EXCEPT ![o] = l] /\ u.ready = k.ready
  BY <1>1 DEF Kern, Keeps, Fields
<1> HIDE DEF u, j
<1>4. Kern(j) /\ Keeps(j, u, StateLists) /\ ReadyTasks(j) = ReadyTasks(u) \cup {t}
  BY <1>1, <1>2, <1>3, ReadiedKernel, ReadiedTasks
<1>5. ReadyTasks(u) = ReadyTasks(k)
  BY <1>3 DEF ReadyTasks
<1>6. Keeps(j, k, StateLists \cup {"waiting", "yieldPending"}) /\ j.waiting = u.waiting
  BY <1>3, <1>4 DEF Keeps, Fields, StateLists
<1> QED
  BY <1>1, <1>3, <1>4, <1>5, <1>6 DEF j, t, l

\* The scheduler is resumed when nothing has happened meanwhile.
LEMMA ResumeKernel ==
  ASSUME NEW k, Kern(k), k.suspended = 1, k.pendedTicks = 0, k.pending = <<>>
  PROVE  /\ Kern(xTaskResumeAll(k))
         /\ Keeps(xTaskResumeAll(k), k, {"suspended", "pendSV"})
         /\ xTaskResumeAll(k).suspended = 0
         /\ k.pendSV => xTaskResumeAll(k).pendSV
<1> DEFINE d == [k EXCEPT !.suspended = 0]
           e == [configASSERT(k, k.suspended > 0) EXCEPT !.suspended = @ - 1]
           r == PendedTicksDone(PendingReadied(e))
           j == xTaskResumeAll(k)
<1>1. e = d
  BY DEF configASSERT, Kern, Fields
<1>2. Kern(d) /\ Keeps(d, k, {"suspended"}) /\ d.suspended = 0 /\ d.pending = <<>> /\ d.pendedTicks = 0
  BY DEF Kern, Keeps, Fields
<1>3. j = IF e.suspended > 0 THEN e ELSE IF r.yieldPending THEN portYIELD(r) ELSE r
  BY Zenon DEF xTaskResumeAll
<1> HIDE DEF d, e
<1>4. r = d
  BY <1>1, <1>2 DEF PendingReadied, PendedTicksDone
<1> HIDE DEF r
<1>5. j = IF d.yieldPending THEN [d EXCEPT !.pendSV = TRUE] ELSE d
  BY <1>1, <1>2, <1>3, <1>4 DEF portYIELD
<1> HIDE DEF j
<1>6. CASE j = d
  BY <1>2, <1>6 DEF Keeps, Fields, j
<1>7. CASE j = [d EXCEPT !.pendSV = TRUE]
  <2>1. Kern(j) /\ Keeps(j, k, {"suspended", "pendSV"}) /\ j.suspended = 0 /\ j.pendSV = TRUE
    BY <1>2, <1>7 DEF Kern, Keeps, Fields
  <2> QED
    BY <2>1 DEF j
<1> QED
  BY <1>5, <1>6, <1>7

-----------------------------------------------------------------------------
(***************************************************************************)
(* Priorities.                                                             *)
(***************************************************************************)
\* A ready task is in the list of its priority.
Placed(k) == \A p \in Priority : \A x \in ReadyAt(k, p) : k.prio[x] = p

\* No ready task outranks the running one.
Topped(k) == \A t \in ReadyTasks(k) : k.prio[t] <= k.prio[k.pxCurrentTCB]

LEMMA ReadyIsTask ==
  ASSUME NEW k, Kern(k)
  PROVE  ReadyTasks(k) \subseteq Task
BY DEF Kern, Rings, Lists, Members, ReadyTasks

LEMMA SwitchTopped ==
  ASSUME NEW k, Kern(k), k.suspended = 0, ReadyTasks(k) # {}, EndMark \notin Task, Placed(k)
  PROVE  /\ Placed(vTaskSwitchContext(k)) /\ Topped(vTaskSwitchContext(k))
         /\ ReadyTasks(vTaskSwitchContext(k)) = ReadyTasks(k)
         /\ vTaskSwitchContext(k).pxCurrentTCB \in ReadyTasks(k)
<1> DEFINE j == vTaskSwitchContext(k)
           top == TopReadyPriority(k)
<1>1. /\ Keeps(j, k, {"pendSV", "yieldPending", "ready", "pxCurrentTCB"})
      /\ \A p \in Priority : Members(j.ready[p]) = Members(k.ready[p])
      /\ j.pxCurrentTCB \in ReadyAt(k, top)
  BY SwitchKernel
<1>2. top \in Priority /\ \A q \in Priority : ReadyAt(k, q) # {} => q <= top
  BY TopPriority
<1> HIDE DEF j, top
<1>3. j.prio = k.prio
  BY <1>1 DEF Keeps, Fields
<1>4. ReadyTasks(j) = ReadyTasks(k) /\ \A p \in Priority : ReadyAt(j, p) = ReadyAt(k, p)
  BY <1>1 DEF ReadyTasks, ReadyAt
<1>5. j.pxCurrentTCB \in ReadyTasks(k) /\ k.prio[j.pxCurrentTCB] = top
  BY <1>1, <1>2 DEF Placed, ReadyTasks, ReadyAt
<1>6. Topped(j)
  <2> SUFFICES ASSUME NEW t \in ReadyTasks(k) PROVE k.prio[t] <= top
    BY <1>3, <1>4, <1>5 DEF Topped
  <2>1. PICK p \in Priority : t \in ReadyAt(k, p)
    BY DEF ReadyTasks, ReadyAt
  <2> QED
    BY <1>2, <2>1 DEF Placed
<1> QED
  BY <1>3, <1>4, <1>5, <1>6 DEF Placed, j

LEMMA ReadiedPlaced ==
  ASSUME NEW k, Kern(k), NEW t \in Task, EndMark \notin Task, Placed(k)
  PROVE  Placed(Readied(k, t))
<1> DEFINE j == Readied(k, t)
<1>1. Keeps(j, k, StateLists) /\ JoinsReady(j, k, t)
  BY ReadiedKernel
<1> HIDE DEF j
<1>2. j.prio = k.prio
  BY <1>1 DEF Keeps, Fields, StateLists
<1>3. ASSUME NEW p \in Priority, NEW x \in ReadyAt(j, p) PROVE k.prio[x] = p
  <2>1. x \in Members(j.ready[p]) /\ x # EndMark
    BY <1>3 DEF ReadyAt
  <2>2. (x = t /\ p = k.prio[t]) \/ x \in ReadyAt(k, p)
    BY <1>1, <2>1 DEF JoinsReady, ReadyAt
  <2> QED
    BY <2>2 DEF Placed
<1> QED
  BY <1>2, <1>3 DEF Placed, j

LEMMA DelayPlaced ==
  ASSUME NEW k, Kern(k), EndMark \notin Task, NEW x, Placed(k)
  PROVE  Placed(prvAddCurrentTaskToDelayedList(k, x))
<1> DEFINE t == k.pxCurrentTCB
           w == Later(k.tick, x)
           v == Unlisted(k, t)
           u == [v EXCEPT !.wake[t] = w]
           j == prvAddCurrentTaskToDelayedList(k, x)
<1>1. t \in Task
  BY DEF Kern
<1>2. /\ Kern(v) /\ Keeps(v, k, StateLists)
      /\ \A p \in Priority : Members(v.ready[p]) = Members(k.ready[p]) \ {t}
  <2> HIDE DEF t
  <2> QED
    BY <1>1, UnlistedKernel
<1>3. \/ j = [u EXCEPT !.overflow = vListInsert(@, t, u.wake)]
      \/ j = [u EXCEPT !.delayed = vListInsert(@, t, u.wake),
                       !.nextUnblock = IF w < @ THEN w ELSE @]
  BY DEF prvAddCurrentTaskToDelayedList
<1> HIDE DEF v, w, t
<1>4. u.ready = v.ready /\ u.prio = v.prio /\ DOMAIN u = Fields
  BY <1>2 DEF Kern, Fields
<1> HIDE DEF u
<1>5. j.ready = v.ready /\ j.prio = v.prio
  <2> HIDE DEF j
  <2> QED
    BY <1>3, <1>4 DEF Fields
<1> HIDE DEF j
<1>6. j.prio = k.prio
  BY <1>2, <1>5 DEF Keeps, Fields, StateLists
<1> QED
  BY <1>2, <1>5, <1>6 DEF Placed, ReadyAt, j

-----------------------------------------------------------------------------
(***************************************************************************)
(* The order of a list.                                                    *)
(***************************************************************************)
\* The items of r are items of list, in the same order.
PartOf(r, list) ==
  \A i, j \in DOMAIN r : i <= j =>
    \E x, y \in DOMAIN list : x <= y /\ r[i] = list[x] /\ r[j] = list[y]
Sorted(list, value) == \A i, j \in DOMAIN list : i <= j => value[list[i]] <= value[list[j]]

LEMMA PartOfSame ==
  ASSUME NEW list
  PROVE  PartOf(list, list)
BY DEF PartOf

LEMMA PartOfMembers ==
  ASSUME NEW S, NEW r \in Seq(S), NEW list, PartOf(r, list)
  PROVE  Members(r) \subseteq Members(list)
<1> SUFFICES ASSUME NEW i \in DOMAIN r PROVE r[i] \in Members(list)
  BY DEF Members
<1>1. i <= i
  OBVIOUS
<1>2. PICK x, y \in DOMAIN list : x <= y /\ r[i] = list[x]
  BY <1>1 DEF PartOf
<1> QED
  BY <1>2 DEF Members

LEMMA PartOfMore ==
  ASSUME NEW q, NEW r, NEW list, NEW S, r \in Seq(S), PartOf(q, r), PartOf(r, list)
  PROVE  PartOf(q, list)
<1> SUFFICES ASSUME NEW i \in DOMAIN q, NEW j \in DOMAIN q, i <= j
             PROVE  \E x, y \in DOMAIN list : x <= y /\ q[i] = list[x] /\ q[j] = list[y]
  BY DEF PartOf
<1>1. PICK x, y \in DOMAIN r : x <= y /\ q[i] = r[x] /\ q[j] = r[y]
  BY DEF PartOf
<1>2. PICK v, w \in DOMAIN list : v <= w /\ r[x] = list[v] /\ r[y] = list[w]
  BY <1>1 DEF PartOf
<1> QED
  BY <1>1, <1>2

\* Sorted by values that count for its items only.
LEMMA PartOfSorted ==
  ASSUME NEW r, NEW list, NEW value, NEW other, PartOf(r, list), Sorted(list, value),
         \A x \in Members(r) : other[x] = value[x]
  PROVE  Sorted(r, other)
<1> SUFFICES ASSUME NEW i \in DOMAIN r, NEW j \in DOMAIN r, i <= j
             PROVE  other[r[i]] <= other[r[j]]
  BY DEF Sorted
<1>1. PICK x, y \in DOMAIN list : x <= y /\ r[i] = list[x] /\ r[j] = list[y]
  BY DEF PartOf
<1>2. other[r[i]] = value[r[i]] /\ other[r[j]] = value[r[j]]
  BY DEF Members
<1>3. value[list[x]] <= value[list[y]]
  BY <1>1 DEF Sorted
<1> QED
  BY <1>1, <1>2, <1>3

\* What is left keeps its order.
LEMMA RemovePartOf ==
  ASSUME NEW S, NEW list \in Lists(S), NEW t
  PROVE  PartOf(uxListRemove(list, t), list)
<1>1. CASE t \notin Members(list)
  BY <1>1, PartOfSame DEF uxListRemove
<1>2. CASE t \in Members(list)
  <2> DEFINE n == Len(list)
             r == uxListRemove(list, t)
  <2>1. list \in Seq(S) /\ n \in Nat /\ DOMAIN list = 1..n
    BY DEF Lists
  <2>2. PICK at \in 1..n :
          /\ r \in Seq(S) /\ Len(r) = n - 1
          /\ \A i \in 1..(n - 1) : r[i] = IF i < at THEN list[i] ELSE list[i + 1]
    BY <1>2, RemovedItems
  <2> HIDE DEF n, r
  <2>3. DOMAIN r = 1..(n - 1)
    BY <2>1, <2>2
  <2>4. ASSUME NEW i \in 1..(n - 1), NEW j \in 1..(n - 1), i <= j
        PROVE  \E x, y \in 1..n : x <= y /\ r[i] = list[x] /\ r[j] = list[y]
    <3> DEFINE x == IF i < at THEN i ELSE i + 1
               y == IF j < at THEN j ELSE j + 1
    <3>1. x \in 1..n /\ y \in 1..n /\ r[i] = list[x] /\ r[j] = list[y] /\ x <= y
      BY <2>1, <2>2, <2>4
    <3> HIDE DEF x, y
    <3> QED
      BY <3>1
  <2>5. PartOf(r, list)
    <3> SUFFICES ASSUME NEW i \in DOMAIN r, NEW j \in DOMAIN r, i <= j
                 PROVE  \E x, y \in DOMAIN list : x <= y /\ r[i] = list[x] /\ r[j] = list[y]
      BY DEF PartOf
    <3>1. i \in 1..(n - 1) /\ j \in 1..(n - 1) /\ DOMAIN list = 1..n
      BY <2>1, <2>3
    <3>2. PICK x \in 1..n, y \in 1..n : x <= y /\ r[i] = list[x] /\ r[j] = list[y]
      BY <2>4, <3>1
    <3>3. x \in DOMAIN list /\ y \in DOMAIN list
      BY <3>1
    <3> QED
      BY <3>2, <3>3
  <2> QED
    BY <2>5 DEF r
<1> QED
  BY <1>1, <1>2

\* The first so many.
LEMMA DownClosed ==
  ASSUME NEW l \in Nat, NEW L \in SUBSET (1..l), \A x \in L : \A y \in 1..l : y <= x => y \in L
  PROVE  /\ Cardinality(L) \in 0..l /\ L = 1..Cardinality(L)
<1> DEFINE C == {x \in Nat : x >= 1 /\ x \notin L}
<1>1. PICK c \in C : \A x \in C : c <= x
  <2>1. l + 1 \in C /\ C \in SUBSET Nat
    OBVIOUS
  <2> HIDE DEF C
  <2> QED
    BY <2>1, LeastNatural
<1>2. L = 1..(c - 1)
  <2>1. ASSUME NEW x \in L PROVE x \in 1..(c - 1)
    BY <1>1
  <2>2. ASSUME NEW x \in 1..(c - 1) PROVE x \in L
    BY <1>1
  <2> QED
    BY <2>1, <2>2
<1>3. c \in Nat /\ c >= 1 /\ c - 1 <= l
  <2>1. c \in Nat /\ c >= 1 /\ l + 1 \in C
    OBVIOUS
  <2> QED
    BY <1>1, <2>1
<1>4. Cardinality(1..(c - 1)) = c - 1
  <2> DEFINE m == c - 1
             d == Cardinality(1..m)
  <2>1. 1 \in Int /\ m \in Int /\ m \in Nat
    BY <1>3
  <2>2. d = IF 1 > m THEN 0 ELSE m - 1 + 1
    BY <2>1, FS_Interval
  <2> HIDE DEF m, d
  <2>3. d = m
    BY <2>1, <2>2
  <2> QED
    BY <2>3 DEF m, d
<1> QED
  BY <1>2, <1>3, <1>4

\* vListInsert() keeps a list sorted.
LEMMA InsertKeepsSorted ==
  ASSUME NEW S, NEW list \in Lists(S), NEW t \in S, t \notin Members(list),
         NEW value, \A x \in S : value[x] \in Int, Sorted(list, value)
  PROVE  Sorted(vListInsert(list, t, value), value)
<1> DEFINE l == Len(list)
           low == {i \in DOMAIN list : value[list[i]] <= value[t]}
           n == Cardinality(low)
           r == vListInsert(list, t, value)
<1>1. l \in Nat /\ DOMAIN list = 1..l /\ \A i \in 1..l : list[i] \in S
  BY DEF Lists
<1>2. \A i, j \in 1..l : i <= j => value[list[i]] <= value[list[j]]
  BY <1>1 DEF Sorted
<1>3. n \in 0..l /\ low = 1..n
  <2>1. low \in SUBSET (1..l)
    BY <1>1
  <2>2. ASSUME NEW x \in low, NEW y \in 1..l, y <= x PROVE y \in low
    <3>1. x \in 1..l /\ value[list[x]] <= value[t]
      BY <1>1
    <3>2. value[list[y]] <= value[list[x]]
      BY <1>2, <2>2, <3>1
    <3>3. value[list[x]] \in Int /\ value[list[y]] \in Int /\ value[t] \in Int
      BY <1>1, <3>1
    <3>4. value[list[y]] <= value[t]
      BY <3>1, <3>2, <3>3
    <3> QED
      BY <1>1, <3>4
  <2> HIDE DEF low, l
  <2> QED
    BY <1>1, <2>1, <2>2, DownClosed
<1>4. r = Inserted(list, n, t)
  BY DEF vListInsert, Inserted
<1>5. \A i \in 1..l : (i <= n) <=> value[list[i]] <= value[t]
  <2>1. \A i \in 1..l : i \in low <=> value[list[i]] <= value[t]
    BY <1>1
  <2> HIDE DEF low, l
  <2> QED
    BY <1>1, <1>3, <2>1
<1>c. Len(list) = l
  OBVIOUS
<1> HIDE DEF n, low, r, l
<1>6. /\ r \in Lists(S) /\ Len(r) = l + 1
      /\ \A i \in 1..(l + 1) :
           r[i] = IF i <= n THEN list[i] ELSE IF i = n + 1 THEN t ELSE list[i - 1]
  BY <1>3, <1>4, <1>c, InsertInList
<1>7. DOMAIN r = 1..(l + 1)
  BY <1>1, <1>6 DEF Lists
<1>8. ASSUME NEW i \in 1..(l + 1), NEW j \in 1..(l + 1), i <= j
      PROVE  value[r[i]] <= value[r[j]]
  <2>1. \/ i <= n /\ i \in 1..l /\ r[i] = list[i]
        \/ i = n + 1 /\ r[i] = t
        \/ i > n + 1 /\ i - 1 \in 1..l /\ r[i] = list[i - 1]
    BY <1>1, <1>3, <1>6
  <2>2. \/ j <= n /\ j \in 1..l /\ r[j] = list[j]
        \/ j = n + 1 /\ r[j] = t
        \/ j > n + 1 /\ j - 1 \in 1..l /\ r[j] = list[j - 1]
    BY <1>1, <1>3, <1>6
  <2>3. value[t] \in Int /\ \A x \in 1..l : value[list[x]] \in Int
    BY <1>1
  <2>4. \A x \in 1..l : x > n => value[t] <= value[list[x]]
    BY <1>1, <1>3, <1>5, <2>3
  <2> QED
    BY <1>1, <1>2, <1>3, <1>5, <1>8, <2>1, <2>2, <2>3, <2>4
<1> QED
  BY <1>7, <1>8 DEF Sorted, r

LEMMA NoMembers ==
  ASSUME NEW S, NEW list \in Seq(S), Members(list) = {}
  PROVE  list = <<>>
<1>1. Len(list) \in Nat /\ DOMAIN list = 1..Len(list)
  OBVIOUS
<1>2. ASSUME Len(list) # 0 PROVE FALSE
  <2>1. 1 \in DOMAIN list
    BY <1>1, <1>2
  <2> QED
    BY <2>1 DEF Members
<1> QED
  BY <1>1, <1>2

-----------------------------------------------------------------------------
(***************************************************************************)
(* Times.  A delayed task is to wake before the tick count comes round, or *)
(* after it.                                                               *)
(***************************************************************************)
\* Tick counts.
Span == 0..(Ticks - 1)

LEMMA SpanType ==
  /\ Span \subseteq Int /\ Ticks \in Nat /\ Ticks > 1 /\ 0 \in Span /\ MaxDelay \in Span /\ MaxDelay # 0
  /\ \A x \in Span : x >= 0 /\ x < Ticks
BY KernelAssumption DEF Span, MaxDelay

LEMMA SpanMember ==
  ASSUME NEW x \in Span
  PROVE  x \in Int /\ 0 <= x /\ x < Ticks
BY KernelAssumption DEF Span

LEMMA LaterType ==
  ASSUME NEW x \in Int, NEW y \in Int
  PROVE  Later(x, y) \in Span
<1>1. Ticks \in Nat /\ Ticks > 0 /\ x + y \in Int
  BY SpanType
<1>2. (x + y) % Ticks \in 0..(Ticks - 1)
  BY <1>1
<1> QED
  BY <1>2 DEF Later, Span

\* Sums of two numbers of the range.
LEMMA LaterValue ==
  ASSUME NEW x \in Span, NEW y \in Span
  PROVE  Later(x, y) = IF x + y < Ticks THEN x + y ELSE (x + y) - Ticks
<1> DEFINE s == x + y
<1>1. Ticks \in Nat /\ Ticks > 0 /\ s \in Int /\ s >= 0 /\ s < 2 * Ticks
  BY SpanType
<1>4. Later(x, y) = s % Ticks
  BY DEF Later
<1> HIDE DEF s
<1>2. CASE s < Ticks
  <2>1. s % Ticks = s
    BY <1>1, <1>2
  <2> QED
    BY <1>2, <1>4, <2>1 DEF s
<1>3. CASE ~(s < Ticks)
  <2>1. s = Ticks * 1 + (s - Ticks) /\ s - Ticks \in 0..(Ticks - 1)
    BY <1>1, <1>3
  <2>2. s % Ticks = s - Ticks
    BY <1>1, <2>1
  <2> QED
    BY <1>3, <1>4, <2>2 DEF s
<1> QED
  BY <1>2, <1>3

\* The ticks from y to x on the clock that comes round.
Gap(x, y) == (x - y) % Ticks

LEMMA GapValue ==
  ASSUME NEW x \in Span, NEW y \in Span
  PROVE  Gap(x, y) = (IF x >= y THEN x - y ELSE (x - y) + Ticks) /\ Gap(x, y) \in Span
<1> DEFINE d == x - y
<1>1. /\ Ticks \in Nat /\ Ticks > 0 /\ d \in Int /\ d < Ticks /\ d > 0 - Ticks
      /\ x \in Int /\ y \in Int /\ Gap(x, y) = d % Ticks
  BY SpanType DEF Gap
<1>2. CASE x >= y
  <2>1. d = Ticks * 0 + d /\ d \in 0..(Ticks - 1)
    BY <1>1, <1>2
  <2> HIDE DEF d
  <2>2. d % Ticks = d
    BY <1>1, <2>1
  <2> QED
    BY <1>1, <1>2, <2>1, <2>2 DEF d, Span
<1>3. CASE ~(x >= y)
  <2>1. d = Ticks * (-1) + (d + Ticks) /\ d + Ticks \in 0..(Ticks - 1)
    BY <1>1, <1>3
  <2> HIDE DEF d
  <2>2. d % Ticks = d + Ticks
    BY <1>1, <2>1
  <2> QED
    BY <1>1, <1>3, <2>1, <2>2 DEF d, Span
<1> QED
  BY <1>2, <1>3

LEMMA GapSelf ==
  ASSUME NEW x \in Span
  PROVE  Gap(x, x) = 0
<1>1. Gap(x, x) = IF x >= x THEN x - x ELSE (x - x) + Ticks
  BY GapValue
<1>2. x \in Int
  BY SpanMember, Zenon
<1> QED
  BY <1>1, <1>2

\* A tick goes by on the way from y to x.
LEMMA GapStep ==
  ASSUME NEW x \in Span, NEW y \in Span, x # y
  PROVE  Gap(x, y) = Gap(x, Later(y, 1)) + Gap(Later(y, 1), y)
<1> DEFINE z == Later(y, 1)
<1>1. /\ x \in Int /\ 0 <= x /\ x < Ticks /\ y \in Int /\ 0 <= y /\ y < Ticks
      /\ Ticks \in Nat /\ 1 \in Span
  BY SpanMember, SpanType DEF Span
<1>2. z = IF y + 1 < Ticks THEN y + 1 ELSE (y + 1) - Ticks
  BY <1>1, LaterValue
<1>3. z \in Span
  BY <1>1, LaterType
<1> HIDE DEF z
<1>4. /\ Gap(x, y) = IF x >= y THEN x - y ELSE (x - y) + Ticks
      /\ Gap(x, z) = IF x >= z THEN x - z ELSE (x - z) + Ticks
      /\ Gap(z, y) = IF z >= y THEN z - y ELSE (z - y) + Ticks
  BY <1>3, GapValue
<1>5. Gap(z, y) = 1 /\ Gap(x, y) = Gap(x, z) + 1
  BY <1>1, <1>2, <1>4
<1> QED
  BY <1>5 DEF z

\* Two parts of the way from c to a time make up the whole.
LEMMA GapMore ==
  ASSUME NEW a \in Span, NEW b \in Span, NEW c \in Span, NEW u \in Span, NEW v \in Span, NEW w \in Span,
         Gap(u, c) = Gap(v, b) + Gap(b, c), Gap(v, b) = Gap(w, a) + Gap(a, b)
  PROVE  Gap(u, c) = Gap(w, a) + Gap(a, c)
<1>1. /\ a \in Int /\ 0 <= a /\ a < Ticks /\ b \in Int /\ 0 <= b /\ b < Ticks
      /\ c \in Int /\ 0 <= c /\ c < Ticks
  BY SpanMember, Zenon
<1>2. /\ Gap(a, b) = IF a >= b THEN a - b ELSE (a - b) + Ticks
      /\ Gap(b, c) = IF b >= c THEN b - c ELSE (b - c) + Ticks
      /\ Gap(a, c) = IF a >= c THEN a - c ELSE (a - c) + Ticks
  BY GapValue
<1>3. Gap(u, c) \in Span /\ Gap(w, a) \in Span
  BY GapValue
<1>4. Gap(u, c) \in Int /\ Gap(u, c) < Ticks /\ Gap(w, a) \in Int /\ 0 <= Gap(w, a)
  BY <1>3, SpanMember, Zenon
<1>5. Gap(u, c) = Gap(w, a) + Gap(a, b) + Gap(b, c)
  <2>1. Gap(a, b) \in Int /\ Gap(b, c) \in Int
    BY <1>1, <1>2, SpanType
  <2> QED
    BY <1>4, <2>1
<1>6. Gap(a, c) = Gap(a, b) + Gap(b, c)
  BY <1>1, <1>2, <1>4, <1>5, SpanType
<1> QED
  BY <1>1, <1>2, <1>4, <1>5, <1>6, SpanType

\* The delayed lists are in the order of their times.
Ordered(k) ==
  /\ k.tick \in Span /\ k.nextUnblock \in Span /\ k.wake \in [Task -> Span]
  /\ Sorted(k.delayed, k.wake) /\ Sorted(k.overflow, k.wake)

\* All times lie ahead: those of the one list before the tick count comes round,
\* those of the other after it.
Timed(k) ==
  /\ Ordered(k)
  /\ \A t \in Members(k.delayed) : k.wake[t] > k.tick /\ k.wake[t] >= k.nextUnblock
  /\ \A t \in Members(k.overflow) : k.wake[t] < k.tick

\* What is still delayed is delayed as it was.
Rest(j, k) ==
  /\ PartOf(j.delayed, k.delayed) /\ PartOf(j.overflow, k.overflow)
  /\ \A t \in Members(j.delayed) \cup Members(j.overflow) : j.wake[t] = k.wake[t]
  /\ k.wake \in [Task -> Span] => j.wake \in [Task -> Span]

LEMMA RestSame ==
  ASSUME NEW j, NEW k, j.delayed = k.delayed, j.overflow = k.overflow, j.wake = k.wake
  PROVE  Rest(j, k)
BY PartOfSame DEF Rest

LEMMA RestMore ==
  ASSUME NEW i, NEW j, NEW k, Kern(i), Kern(j), Rest(i, j), Rest(j, k)
  PROVE  Rest(i, k)
<1>1. /\ i.delayed \in Seq(Task) /\ i.overflow \in Seq(Task)
      /\ j.delayed \in Seq(Task) /\ j.overflow \in Seq(Task)
  BY DEF Kern, Lists
<1>2. PartOf(i.delayed, k.delayed) /\ PartOf(i.overflow, k.overflow)
  BY <1>1, PartOfMore DEF Rest
<1>3. Members(i.delayed) \subseteq Members(j.delayed) /\ Members(i.overflow) \subseteq Members(j.overflow)
  BY <1>1, PartOfMembers DEF Rest
<1> QED
  BY <1>2, <1>3 DEF Rest

LEMMA UnlistedRest ==
  ASSUME NEW k, Kern(k), NEW t \in Task
  PROVE  Rest(Unlisted(k, t), k)
<1> DEFINE j == Unlisted(k, t)
           d == uxListRemove(k.delayed, t)
           o == uxListRemove(k.overflow, t)
<1>1. j.delayed = d /\ j.overflow = o /\ j.wake = [k.wake EXCEPT ![t] = 0]
  BY DEF Kern, Fields, Unlisted
<1>2. /\ PartOf(d, k.delayed) /\ Members(d) = Members(k.delayed) \ {t}
      /\ PartOf(o, k.overflow) /\ Members(o) = Members(k.overflow) \ {t}
  BY RemovePartOf, RemoveFromList DEF Kern
<1>3. Members(k.delayed) \subseteq Task /\ Members(k.overflow) \subseteq Task
  BY DEF Kern, Lists, Members
<1>4. k.wake \in [Task -> Span] => j.wake \in [Task -> Span]
  BY <1>1, SpanType
<1> HIDE DEF j, d, o
<1>5. \A x \in Members(j.delayed) \cup Members(j.overflow) : j.wake[x] = k.wake[x]
  BY <1>1, <1>2, <1>3 DEF Kern
<1> QED
  BY <1>1, <1>2, <1>4, <1>5 DEF Rest, j

LEMMA ReadiedRest ==
  ASSUME NEW k, Kern(k), NEW t \in Task
  PROVE  Rest(Readied(k, t), k)
<1> DEFINE u == Unlisted(k, t)
           j == Readied(k, t)
<1>1. Rest(u, k)
  BY UnlistedRest
<1>2. DOMAIN u = Fields
  BY DEF Kern, Fields, Unlisted
<1>3. j = [u EXCEPT !.ready[u.prio[t]] = vListInsertEnd(@, t)]
  BY DEF Readied, prvAddTaskToReadyList
<1> HIDE DEF u, j
<1>4. j.delayed = u.delayed /\ j.overflow = u.overflow /\ j.wake = u.wake
  BY <1>2, <1>3 DEF Fields
<1> QED
  BY <1>1, <1>4 DEF Rest, j

LEMMA RestOrdered ==
  ASSUME NEW j, NEW k, Kern(j), Ordered(k), Rest(j, k), j.tick = k.tick, j.nextUnblock = k.nextUnblock
  PROVE  /\ Ordered(j)
         /\ Members(j.delayed) \subseteq Members(k.delayed) /\ Members(j.overflow) \subseteq Members(k.overflow)
         /\ \A t \in Members(j.delayed) \cup Members(j.overflow) : j.wake[t] = k.wake[t]
<1>1. j.delayed \in Seq(Task) /\ j.overflow \in Seq(Task)
  BY DEF Kern, Lists
<1>2. Members(j.delayed) \subseteq Members(k.delayed) /\ Members(j.overflow) \subseteq Members(k.overflow)
  BY <1>1, PartOfMembers DEF Rest
<1>3. \A t \in Members(j.delayed) \cup Members(j.overflow) : j.wake[t] = k.wake[t]
  BY DEF Rest
<1>4. Sorted(j.delayed, j.wake)
  BY <1>3, PartOfSorted DEF Rest, Ordered
<1>5. Sorted(j.overflow, j.wake)
  BY <1>3, PartOfSorted DEF Rest, Ordered
<1> QED
  BY <1>2, <1>3, <1>4, <1>5 DEF Ordered, Rest

LEMMA RestTimed ==
  ASSUME NEW j, NEW k, Kern(j), Timed(k), Rest(j, k), j.tick = k.tick, j.nextUnblock = k.nextUnblock
  PROVE  Timed(j)
<1>1. Ordered(k)
  BY DEF Timed
<1>2. /\ Ordered(j)
      /\ Members(j.delayed) \subseteq Members(k.delayed) /\ Members(j.overflow) \subseteq Members(k.overflow)
      /\ \A t \in Members(j.delayed) \cup Members(j.overflow) : j.wake[t] = k.wake[t]
  BY <1>1, RestOrdered
<1> QED
  BY <1>2 DEF Timed

\* The other fields say nothing of time.
Untimed == Fields \ {"tick", "nextUnblock", "wake", "delayed", "overflow"}

LEMMA KeepsTimed ==
  ASSUME NEW j, NEW k, Keeps(j, k, Untimed), Timed(k)
  PROVE  Timed(j)
<1>1. /\ j.tick = k.tick /\ j.nextUnblock = k.nextUnblock /\ j.wake = k.wake
      /\ j.delayed = k.delayed /\ j.overflow = k.overflow
  BY DEF Keeps, Untimed, Fields
<1> QED
  BY <1>1 DEF Timed, Ordered

LEMMA HeadLeast ==
  ASSUME NEW S, NEW list \in Seq(S), list # <<>>, NEW value, Sorted(list, value)
  PROVE  Head(list) \in Members(list) /\ \A x \in Members(list) : value[Head(list)] <= value[x]
<1>1. 1 \in DOMAIN list /\ Head(list) = list[1] /\ \A i \in DOMAIN list : 1 <= i
  OBVIOUS
<1>2. \A i \in DOMAIN list : value[list[1]] <= value[list[i]]
  BY <1>1 DEF Sorted
<1> QED
  BY <1>1, <1>2 DEF Members

-----------------------------------------------------------------------------
(***************************************************************************)
(* Several tasks are woken at once.                                        *)
(***************************************************************************)
LEMMA OffEventsKernel ==
  ASSUME NEW k, Kern(k), NEW t \in Task
  PROVE  /\ Kern(OffEvents(k, t))
         /\ Keeps(OffEvents(k, t), k, {"waiting", "pending"})
         /\ \A o \in Object : Members(OffEvents(k, t).waiting[o]) = Members(k.waiting[o]) \ {t}
         /\ Members(OffEvents(k, t).pending) = Members(k.pending) \ {t}
<1> DEFINE j == OffEvents(k, t)
           w == [o \in Object |-> uxListRemove(k.waiting[o], t)]
           d == uxListRemove(k.pending, t)
<1>1. /\ DOMAIN j = Fields /\ Keeps(j, k, {"waiting", "pending"})
      /\ j.waiting = w /\ j.pending = d
  BY DEF Kern, Fields, Keeps, OffEvents
<1>2. \A o \in Object : w[o] \in Lists(Task) /\ Members(w[o]) = Members(k.waiting[o]) \ {t}
  BY RemoveFromList DEF Kern
<1>3. d \in Lists(Task) /\ Members(d) = Members(k.pending) \ {t}
  BY RemoveFromList DEF Kern
<1>4. w \in [Object -> Lists(Task)]
  BY <1>2
<1> HIDE DEF j, w, d
<1>5. Kern(j)
  BY <1>1, <1>3, <1>4 DEF Kern, Keeps, Fields
<1> QED
  BY <1>1, <1>2, <1>3, <1>5 DEF j

\* Whoever still waits for an object has waited for it before, and is delayed as
\* it was.
Delays(k) == Members(k.delayed) \cup Members(k.overflow)
Dozes(j, k) ==
  \A o \in Object : \A t \in Members(j.waiting[o]) :
    /\ t \in Members(k.waiting[o]) /\ j.wake[t] = k.wake[t]
    /\ t \in Delays(k) => t \in Delays(j)

LEMMA DozesSame ==
  ASSUME NEW j, NEW k, j.waiting = k.waiting, j.wake = k.wake, Delays(j) = Delays(k)
  PROVE  Dozes(j, k)
BY DEF Dozes

LEMMA DozesMore ==
  ASSUME NEW i, NEW j, NEW k, Dozes(i, j), Dozes(j, k)
  PROVE  Dozes(i, k)
BY DEF Dozes

\* Whoever still waits is as much nearer to its time as ticks have gone by: none
\* sleeps past it.
Nears(j, k) ==
  \A o \in Object : \A t \in Members(j.waiting[o]) \cap Delays(k) :
    Gap(k.wake[t], k.tick) = Gap(j.wake[t], j.tick) + Gap(j.tick, k.tick)

LEMMA NearsAs ==
  ASSUME NEW h, NEW i, NEW j, NEW k, Nears(j, k),
         i.waiting = j.waiting, i.wake = j.wake, i.tick = j.tick,
         h.wake = k.wake, h.tick = k.tick, Delays(h) = Delays(k)
  PROVE  Nears(i, h)
BY DEF Nears

LEMMA WaitersTimed ==
  ASSUME NEW k, Kern(k), Timed(k), NEW o \in Object, NEW t \in Members(k.waiting[o])
  PROVE  /\ k.wake[t] \in Span
         /\ t \in Delays(k) => k.wake[t] # k.tick
<1>1. t \in Task
  BY DEF Kern, Lists, Members
<1>2. k.wake[t] \in Span /\ k.tick \in Span
  BY <1>1 DEF Timed, Ordered
<1>3. k.wake[t] \in Int /\ k.tick \in Int
  BY <1>2, SpanMember, Zenon
<1>4. t \in Delays(k) => k.wake[t] > k.tick \/ k.wake[t] < k.tick
  BY DEF Timed, Delays
<1> QED
  BY <1>2, <1>3, <1>4

LEMMA NearsSame ==
  ASSUME NEW j, NEW k, Kern(k), Timed(k), Dozes(j, k), j.tick = k.tick
  PROVE  Nears(j, k)
<1> SUFFICES ASSUME NEW o \in Object, NEW t \in Members(j.waiting[o]), t \in Delays(k)
             PROVE  Gap(k.wake[t], k.tick) = Gap(j.wake[t], j.tick) + Gap(j.tick, k.tick)
  BY DEF Nears
<1>1. t \in Members(k.waiting[o]) /\ j.wake[t] = k.wake[t]
  BY DEF Dozes
<1>2. k.wake[t] \in Span /\ k.tick \in Span
  BY <1>1, WaitersTimed DEF Timed, Ordered
<1> DEFINE g == Gap(k.wake[t], k.tick)
<1>3. g \in Span
  BY <1>2, GapValue
<1>4. Gap(k.tick, k.tick) = 0
  BY <1>2, GapSelf
<1> HIDE DEF g
<1>5. g = g + 0
  BY <1>3, SpanMember
<1> QED
  BY <1>1, <1>4, <1>5 DEF g

LEMMA NearsTick ==
  ASSUME NEW j, NEW k, Kern(k), Timed(k), Dozes(j, k), j.tick = Later(k.tick, 1)
  PROVE  Nears(j, k)
<1> SUFFICES ASSUME NEW o \in Object, NEW t \in Members(j.waiting[o]), t \in Delays(k)
             PROVE  Gap(k.wake[t], k.tick) = Gap(j.wake[t], j.tick) + Gap(j.tick, k.tick)
  BY DEF Nears
<1>1. t \in Members(k.waiting[o]) /\ j.wake[t] = k.wake[t]
  BY DEF Dozes
<1>2. k.wake[t] \in Span /\ k.tick \in Span /\ k.wake[t] # k.tick
  BY <1>1, WaitersTimed DEF Timed, Ordered
<1> QED
  BY <1>1, <1>2, GapStep

LEMMA NearsMore ==
  ASSUME NEW i, NEW j, NEW k, Kern(i), Kern(j), Kern(k), Timed(i), Timed(j), Timed(k),
         Dozes(i, j), Dozes(j, k), Nears(i, j), Nears(j, k)
  PROVE  Nears(i, k)
<1> SUFFICES ASSUME NEW o \in Object, NEW t \in Members(i.waiting[o]), t \in Delays(k)
             PROVE  Gap(k.wake[t], k.tick) = Gap(i.wake[t], i.tick) + Gap(i.tick, k.tick)
  BY DEF Nears
<1>1. t \in Members(j.waiting[o]) /\ t \in Members(k.waiting[o]) /\ t \in Delays(j)
  BY DEF Dozes
<1>2. i.wake[t] \in Span /\ j.wake[t] \in Span /\ k.wake[t] \in Span
  BY <1>1, WaitersTimed
<1>3. i.tick \in Span /\ j.tick \in Span /\ k.tick \in Span
  BY DEF Timed, Ordered
<1>4. Gap(k.wake[t], k.tick) = Gap(j.wake[t], j.tick) + Gap(j.tick, k.tick)
  BY <1>1 DEF Nears
<1>5. Gap(j.wake[t], j.tick) = Gap(i.wake[t], i.tick) + Gap(i.tick, j.tick)
  BY <1>1 DEF Nears
<1> DEFINE a == i.tick
           b == j.tick
           c == k.tick
           u == k.wake[t]
           v == j.wake[t]
           w == i.wake[t]
<1>6. /\ a \in Span /\ b \in Span /\ c \in Span /\ u \in Span /\ v \in Span /\ w \in Span
      /\ Gap(u, c) = Gap(v, b) + Gap(b, c) /\ Gap(v, b) = Gap(w, a) + Gap(a, b)
  BY <1>2, <1>3, <1>4, <1>5
<1> HIDE DEF a, b, c, u, v, w
<1>7. Gap(u, c) = Gap(w, a) + Gap(a, c)
  <2>1. a \in Span
    BY <1>6
  <2>2. b \in Span
    BY <1>6
  <2>3. c \in Span
    BY <1>6
  <2>4. u \in Span
    BY <1>6
  <2>5. v \in Span
    BY <1>6
  <2>6. w \in Span
    BY <1>6
  <2>7. Gap(u, c) = Gap(v, b) + Gap(b, c)
    BY <1>6
  <2>8. Gap(v, b) = Gap(w, a) + Gap(a, b)
    BY <1>6
  <2> QED
    BY <2>1, <2>2, <2>3, <2>4, <2>5, <2>6, <2>7, <2>8, GapMore
<1> QED
  BY <1>7 DEF a, b, c, u, v, w

\* The tasks of a set have left what they waited for and are ready.
Woken(j, k, S) ==
  /\ Kern(j) /\ Keeps(j, k, StateLists \cup {"waiting", "pending"})
  /\ ReadyTasks(j) = ReadyTasks(k) \cup S
  /\ \A o \in Object : Members(j.waiting[o]) = Members(k.waiting[o]) \ S
  /\ Members(j.pending) = Members(k.pending) \ S
  /\ Members(j.delayed) = Members(k.delayed) \ S
  /\ Members(j.overflow) = Members(k.overflow) \ S
  /\ Rest(j, k) /\ Dozes(j, k)
  /\ Placed(k) => Placed(j)

\* Its own time is all that changes when a task is made ready.
LEMMA ReadiedWake ==
  ASSUME NEW k, Kern(k), NEW t \in Task, NEW x \in Task \ {t}
  PROVE  Readied(k, t).wake[x] = k.wake[x]
<1> DEFINE u == Unlisted(k, t)
           l == vListInsertEnd(u.ready[u.prio[t]], t)
<1>1. u.wake = [k.wake EXCEPT ![t] = 0] /\ DOMAIN u = Fields
  BY DEF Unlisted, Kern, Fields
<1>2. Readied(k, t) = [u EXCEPT !.ready[u.prio[t]] = l]
  BY DEF Readied, prvAddTaskToReadyList
<1> HIDE DEF u, l
<1>3. Readied(k, t).wake = u.wake
  BY <1>1, <1>2 DEF Fields
<1> QED
  BY <1>1, <1>3 DEF Kern

LEMMA WokenOne ==
  ASSUME NEW k, Kern(k), NEW t \in Task, EndMark \notin Task
  PROVE  Woken(Readied(OffEvents(k, t), t), k, {t})
<1> DEFINE u == OffEvents(k, t)
           j == Readied(u, t)
<1>1. /\ Kern(u) /\ Keeps(u, k, {"waiting", "pending"})
      /\ \A o \in Object : Members(u.waiting[o]) = Members(k.waiting[o]) \ {t}
      /\ Members(u.pending) = Members(k.pending) \ {t}
  BY OffEventsKernel
<1> HIDE DEF u
<1>2. /\ u.ready = k.ready /\ u.prio = k.prio /\ u.delayed = k.delayed /\ u.overflow = k.overflow
      /\ u.wake = k.wake
  BY <1>1 DEF Keeps, Fields
<1>3. Placed(k) => Placed(u)
  BY <1>2 DEF Placed, ReadyAt
<1>4. /\ Kern(j) /\ Keeps(j, u, StateLists) /\ (Placed(u) => Placed(j))
      /\ Members(j.delayed) = Members(u.delayed) \ {t} /\ Members(j.overflow) = Members(u.overflow) \ {t}
      /\ ReadyTasks(j) = ReadyTasks(u) \cup {t}
  BY <1>1, ReadiedKernel, ReadiedPlaced, ReadiedTasks
<1>r. Rest(j, u)
  BY <1>1, ReadiedRest
<1> HIDE DEF j
<1>s. Rest(j, k)
  <2>1. Rest(u, k)
    BY <1>2, RestSame
  <2> QED
    BY <1>1, <1>4, <1>r, <2>1, RestMore
<1>5. j.waiting = u.waiting /\ j.pending = u.pending /\ Keeps(j, k, StateLists \cup {"waiting", "pending"})
  BY <1>1, <1>4 DEF Keeps, Fields, StateLists
<1>6. ReadyTasks(u) = ReadyTasks(k)
  BY <1>2 DEF ReadyTasks
<1>d. Dozes(j, k)
  <2>1. \A x \in Task \ {t} : j.wake[x] = u.wake[x]
    BY <1>1, ReadiedWake DEF j
  <2>2. ASSUME NEW o \in Object PROVE Members(j.waiting[o]) \subseteq (Members(k.waiting[o]) \ {t}) \cap Task
    <3>1. j.waiting[o] \in Seq(Task)
      BY <1>4 DEF Kern, Lists
    <3>2. Members(j.waiting[o]) \subseteq Task
      BY <3>1 DEF Members
    <3> QED
      BY <1>1, <1>5, <3>2
  <2> QED
    BY <1>2, <1>4, <2>1, <2>2 DEF Dozes, Delays
<1>7. Woken(j, k, {t})
  BY <1>1, <1>2, <1>3, <1>4, <1>5, <1>6, <1>s, <1>d DEF Woken
<1> QED
  BY <1>7 DEF j, u

LEMMA WokenMore ==
  ASSUME NEW i, NEW j, NEW k, NEW S, NEW T, Woken(j, k, S), Woken(i, j, T)
  PROVE  Woken(i, k, S \cup T)
<1>1. Keeps(i, k, StateLists \cup {"waiting", "pending"})
  BY DEF Woken, Keeps
<1>2. Rest(i, k) /\ Dozes(i, k)
  BY RestMore, DozesMore DEF Woken
<1> QED
  BY <1>1, <1>2 DEF Woken

\* What the loop of ReadiedAll() has come to after each of its first n steps.
ReadiedBy(f, k, list, n) ==
  f = [i \in 0..n |-> IF i = 0 THEN k ELSE Readied(OffEvents(f[i - 1], list[i]), list[i])]

LEMMA ReadiedSteps ==
  ASSUME NEW k, NEW list, NEW n \in Nat
  PROVE  \E f : ReadiedBy(f, k, list, n)
<1> DEFINE Good(f, m) == f = [i \in 0..m |-> IF i = 0 THEN k ELSE Readied(OffEvents(f[i - 1], list[i]), list[i])]
           Bad == {m \in 0..n : ~ \E f : Good(f, m)}
<1> SUFFICES ASSUME Bad # {} PROVE FALSE
  BY DEF Good, Bad, ReadiedBy
<1>1. PICK m \in Bad : \A x \in Bad : m <= x
  <2>1. Bad \in SUBSET Nat
    BY DEF Bad
  <2> HIDE DEF Bad
  <2> QED
    BY <2>1, LeastNatural
<1>2. CASE m = 0
  <2> DEFINE f == [i \in 0..0 |-> k]
  <2>1. Good(f, 0)
    OBVIOUS
  <2> QED
    BY <1>1, <1>2, <2>1
<1>3. CASE m # 0
  <2>1. m \in Nat /\ m - 1 \in 0..n /\ m - 1 \notin Bad /\ m \in 0..n
    BY <1>1, <1>3
  <2>2. PICK f : Good(f, m - 1)
    BY <2>1
  <2> DEFINE last == Readied(OffEvents(f[m - 1], list[m]), list[m])
             g == [i \in 0..m |-> IF i = m THEN last ELSE f[i]]
             h == [i \in 0..m |-> IF i = 0 THEN k ELSE Readied(OffEvents(g[i - 1], list[i]), list[i])]
  <2>3. ASSUME NEW i \in 0..m PROVE g[i] = h[i]
    <3>1. CASE i = 0
      BY <1>3, <2>1, <2>2, <3>1
    <3>2. CASE i # 0 /\ i # m
      <4>1. i \in 0..(m - 1) /\ i - 1 \in 0..m /\ i - 1 # m
        BY <2>1, <3>2
      <4>2. g[i] = f[i] /\ g[i - 1] = f[i - 1]
        BY <3>2, <4>1
      <4>3. f[i] = Readied(OffEvents(f[i - 1], list[i]), list[i])
        BY <2>2, <3>2, <4>1
      <4> QED
        BY <3>2, <4>2, <4>3
    <3>3. CASE i # 0 /\ i = m
      <4>1. i - 1 \in 0..m /\ i - 1 # m
        BY <2>1, <3>3
      <4>2. g[i - 1] = f[i - 1] /\ g[i] = last
        BY <3>3, <4>1
      <4> QED
        BY <3>3, <4>2
    <3> QED
      BY <3>1, <3>2, <3>3
  <2>4. Good(g, m)
    BY <2>3
  <2> QED
    BY <1>1, <2>4
<1> QED
  BY <1>2, <1>3

LEMMA ReadiedAllKernel ==
  ASSUME NEW k, Kern(k), NEW list \in Seq(Task), EndMark \notin Task
  PROVE  Woken(ReadiedAll(k, list), k, Members(list))
<1> DEFINE n == Len(list)
           step[i \in 0..n] == IF i = 0 THEN k ELSE Readied(OffEvents(step[i - 1], list[i]), list[i])
           One(f, i) == Readied(OffEvents(f[i - 1], list[i]), list[i])
           First(m) == {list[i] : i \in 1..m}
           Done(m) == Woken(step[m], k, First(m))
           Bad == {m \in 0..n : ~Done(m)}
<1>1. step = [i \in 0..n |-> IF i = 0 THEN k ELSE One(step, i)]
  <2>1. n \in Nat
    OBVIOUS
  <2>2. \E f : ReadiedBy(f, k, list, n)
    <3> HIDE DEF n
    <3> QED
      BY <2>1, ReadiedSteps, Zenon
  <2>3. \E f : f = [i \in 0..n |-> IF i = 0 THEN k ELSE Readied(OffEvents(f[i - 1], list[i]), list[i])]
    BY <2>2, Zenon DEF ReadiedBy
  <2> QED
    BY <2>3, Zenon
<1>2. ReadiedAll(k, list) = step[n]
  BY DEF ReadiedAll
<1>3. n \in Nat /\ \A i \in 1..n : list[i] \in Task
  OBVIOUS
<1>4. Members(list) = First(n)
  BY DEF Members
<1> HIDE DEF step, n, Done
<1>5. Bad = {}
  <2> SUFFICES ASSUME Bad # {} PROVE FALSE
    OBVIOUS
  <2>1. PICK m \in Bad : \A x \in Bad : m <= x
    <3>1. Bad \in SUBSET Nat
      BY <1>3
    <3> HIDE DEF Bad
    <3> QED
      BY <3>1, LeastNatural
  <2>2. CASE m = 0
    <3>1. step[0] = k /\ First(0) = {}
      BY <1>1, <1>3
    <3>2. Woken(k, k, {})
      BY RestSame, DozesSame DEF Woken, Keeps
    <3>3. Done(0)
      BY <3>1, <3>2 DEF Done
    <3> QED
      BY <2>1, <2>2, <3>3
  <2>3. CASE m # 0
    <3>1. m \in 1..n /\ m - 1 \in 0..n /\ m - 1 \notin Bad
      BY <1>3, <2>1, <2>3
    <3> DEFINE a == step[m - 1]
               t == list[m]
    <3>2. Woken(a, k, First(m - 1)) /\ t \in Task /\ Kern(a)
      <4>1. Done(m - 1)
        BY <3>1
      <4>2. Woken(a, k, First(m - 1))
        BY <4>1 DEF Done
      <4> QED
        BY <1>3, <3>1, <4>2 DEF Woken
    <3>3. step[m] = Readied(OffEvents(a, t), t)
      BY <1>1, <3>1
    <3>4. First(m) = First(m - 1) \cup {t}
      <4>1. 1..m = 1..(m - 1) \cup {m}
        BY <1>3, <3>1
      <4> QED
        BY <4>1
    <3> HIDE DEF a, t, First
    <3>5. Woken(step[m], a, {t})
      BY <3>2, <3>3, WokenOne, Zenon
    <3>6. Woken(step[m], k, First(m))
      <4>1. Woken(step[m], k, First(m - 1) \cup {t})
        BY <3>2, <3>5, WokenMore, Zenon
      <4> QED
        BY <3>4, <4>1
    <3>7. Done(m)
      BY <3>6 DEF Done, First
    <3> QED
      BY <2>1, <3>7
  <2> QED
    BY <2>2, <2>3
<1>6. Done(n)
  BY <1>3, <1>5
<1> QED
  BY <1>2, <1>4, <1>6 DEF Done

-----------------------------------------------------------------------------
(***************************************************************************)
(* Ticks.                                                                  *)
(***************************************************************************)
LEMMA ResetKernel ==
  ASSUME NEW k, Kern(k)
  PROVE  /\ Kern(prvResetNextTaskUnblockTime(k))
         /\ Keeps(prvResetNextTaskUnblockTime(k), k, {"nextUnblock"})
<1> DEFINE b == IF k.delayed = <<>> THEN MaxDelay ELSE k.wake[Head(k.delayed)]
           j == prvResetNextTaskUnblockTime(k)
<1>1. j = [k EXCEPT !.nextUnblock = b]
  BY DEF prvResetNextTaskUnblockTime
<1> HIDE DEF b, j
<1>2. Kern(j) /\ Keeps(j, k, {"nextUnblock"})
  BY <1>1 DEF Kern, Keeps, Fields
<1> QED
  BY <1>2 DEF j

LEMMA TickedKernel ==
  ASSUME NEW k, Kern(k)
  PROVE  /\ Kern(Ticked(k))
         /\ Keeps(Ticked(k), k, {"tick", "delayed", "overflow", "nextUnblock", "failed"})
<1> DEFINE t == [k EXCEPT !.tick = Later(@, 1)]
           u == configASSERT(t, t.delayed = <<>>)
           v == [u EXCEPT !.delayed = t.overflow, !.overflow = t.delayed]
           j == Ticked(k)
           F == {"tick", "delayed", "overflow", "nextUnblock", "failed"}
<1>1. Kern(t) /\ Keeps(t, k, {"tick"})
  BY DEF Kern, Keeps, Fields
<1>2. j = IF t.tick = 0 THEN prvResetNextTaskUnblockTime(v) ELSE t
  BY DEF Ticked, SwitchDelayedLists
<1> HIDE DEF t
<1>3. Kern(u) /\ Keeps(u, t, {"failed"})
  BY <1>1 DEF Kern, Keeps, Fields, configASSERT
<1> HIDE DEF u
<1>4. Kern(v) /\ Keeps(v, u, {"delayed", "overflow"})
  BY <1>1, <1>3 DEF Kern, Keeps, Fields
<1> HIDE DEF v
<1> DEFINE w == prvResetNextTaskUnblockTime(v)
<1>5. Kern(w) /\ Keeps(w, v, {"nextUnblock"})
  BY <1>4, ResetKernel
<1> HIDE DEF w, j
<1>6. CASE j = t
  BY <1>1, <1>6 DEF Keeps, Fields, j
<1>7. CASE j = w
  <2>1. Keeps(j, k, F)
    BY <1>1, <1>3, <1>4, <1>5, <1>7 DEF Keeps, Fields
  <2> QED
    BY <1>5, <1>7, <2>1 DEF j
<1> QED
  BY <1>2, <1>6, <1>7 DEF w

\* The tick count goes on, and nobody leaves the delayed lists yet.
LEMMA TickedClock ==
  ASSUME NEW k, Kern(k)
  PROVE  Ticked(k).tick = Later(k.tick, 1) /\ Delays(Ticked(k)) = Delays(k)
<1> DEFINE n == Later(k.tick, 1)
           t == [k EXCEPT !.tick = n]
           u == configASSERT(t, t.delayed = <<>>)
           v == [u EXCEPT !.delayed = t.overflow, !.overflow = t.delayed]
           w == prvResetNextTaskUnblockTime(v)
           j == Ticked(k)
<1>1. /\ Kern(t) /\ t.tick = n /\ t.delayed = k.delayed /\ t.overflow = k.overflow
  BY DEF Kern, Fields
<1>2. j = IF t.tick = 0 THEN w ELSE t
  BY DEF Ticked, SwitchDelayedLists
<1> HIDE DEF t, n
<1>3. Kern(u) /\ u.tick = n /\ u.delayed = k.delayed /\ u.overflow = k.overflow
  BY <1>1 DEF Kern, Fields, configASSERT
<1> HIDE DEF u
<1>4. Kern(v) /\ v.tick = n /\ v.delayed = k.overflow /\ v.overflow = k.delayed
  BY <1>1, <1>3 DEF Kern, Fields
<1> HIDE DEF v
<1>5. w.tick = n /\ w.delayed = k.overflow /\ w.overflow = k.delayed
  <2>1. Keeps(w, v, {"nextUnblock"})
    BY <1>4, ResetKernel
  <2> QED
    BY <1>4, <2>1 DEF Keeps, Fields
<1> HIDE DEF w, j
<1>6. j.tick = n /\ Delays(j) = Delays(k)
  BY <1>1, <1>2, <1>5 DEF Delays
<1> QED
  BY <1>6 DEF j, n

LEMMA ExpiredList ==
  ASSUME NEW k, Kern(k)
  PROVE  Expired(k) \in Seq(Task) /\ Members(Expired(k)) \subseteq Members(k.delayed)
<1> DEFINE n == Len(k.delayed)
           c == Cardinality(Due(k))
           s == SubSeq(k.delayed, 1, c)
<1>1. k.delayed \in Seq(Task) /\ n \in Nat /\ DOMAIN k.delayed = 1..n
  BY DEF Kern, Lists
<1>2. c \in Nat /\ c <= n
  <2> HIDE DEF n
  <2>1. Due(k) \in SUBSET (1..n)
    BY <1>1 DEF Due
  <2>2. IsFiniteSet(1..n) /\ Cardinality(1..n) = n
    <3> DEFINE d == Cardinality(1..n)
    <3>1. 1 \in Int /\ n \in Int
      BY <1>1
    <3>2. IsFiniteSet(1..n) /\ d = IF 1 > n THEN 0 ELSE n - 1 + 1
      BY <3>1, FS_Interval
    <3> HIDE DEF d
    <3>3. d = n
      BY <1>1, <3>2
    <3> QED
      BY <3>2, <3>3 DEF d
  <2>3. IsFiniteSet(Due(k)) /\ Cardinality(Due(k)) <= Cardinality(1..n)
    BY <2>1, <2>2, FS_Subset, Zenon
  <2>4. c \in Nat
    BY <2>3, FS_CardinalityType
  <2> QED
    BY <2>2, <2>3, <2>4
<1>3. Expired(k) = s \/ Expired(k) = <<>>
  BY DEF Expired
<1> HIDE DEF c
<1>4. s \in Seq(Task) /\ Len(s) = c - 1 + 1 /\ \A x \in 1..(c - 1 + 1) : s[x] = k.delayed[1 + x - 1]
  <2>1. 1 \in Int /\ c \in Int /\ 1 <= 1 /\ 1 <= c + 1 /\ c <= n
    BY <1>2
  <2> QED
    BY <1>1, <2>1, Part
<1>5. Members(s) \subseteq Members(k.delayed)
  <2> SUFFICES ASSUME NEW x \in Members(s) PROVE x \in Members(k.delayed)
    OBVIOUS
  <2>1. s \in Seq(Task) /\ Len(s) = c
    BY <1>2, <1>4
  <2>2. PICK i \in 1..c : x = s[i]
    <3> HIDE DEF s
    <3> QED
      BY <2>1 DEF Members
  <2>3. i \in 1..(c - 1 + 1) /\ 1 + i - 1 = i /\ i \in 1..n
    BY <1>1, <1>2, <2>2
  <2>4. x = k.delayed[i]
    <3> HIDE DEF s
    <3> QED
      BY <1>4, <2>2, <2>3
  <2> QED
    BY <1>1, <2>3, <2>4 DEF Members
<1> HIDE DEF s
<1>6. CASE Expired(k) = <<>>
  <2>1. <<>> \in Seq(Task) /\ Members(<<>>) = {}
    BY DEF Members
  <2> QED
    BY <1>6, <2>1
<1> QED
  BY <1>3, <1>4, <1>5, <1>6

LEMMA ResetOrdered ==
  ASSUME NEW k, Kern(k), Ordered(k)
  PROVE  LET j == prvResetNextTaskUnblockTime(k)
         IN  /\ Ordered(j)
             /\ \A t \in Members(j.delayed) : j.wake[t] >= j.nextUnblock
<1> DEFINE b == IF k.delayed = <<>> THEN MaxDelay ELSE k.wake[Head(k.delayed)]
           j == prvResetNextTaskUnblockTime(k)
<1>1. j = [k EXCEPT !.nextUnblock = b]
  BY DEF prvResetNextTaskUnblockTime
<1>2. k.delayed \in Seq(Task) /\ Members(k.delayed) \subseteq Task
  BY DEF Kern, Lists, Members
<1>3. b \in Span /\ \A t \in Members(k.delayed) : k.wake[t] >= b
  <2>1. CASE k.delayed = <<>>
    BY <2>1, SpanType DEF Members
  <2>2. CASE k.delayed # <<>>
    <3>1. Head(k.delayed) \in Members(k.delayed) /\ \A x \in Members(k.delayed) : k.wake[Head(k.delayed)] <= k.wake[x]
      BY <1>2, <2>2, HeadLeast DEF Ordered
    <3>2. b = k.wake[Head(k.delayed)]
      BY <2>2
    <3> HIDE DEF b
    <3>3. \A x \in Task : k.wake[x] \in Span /\ k.wake[x] \in Int
      BY SpanType DEF Ordered
    <3> QED
      BY <1>2, <3>1, <3>2, <3>3
  <2> QED
    BY <2>1, <2>2
<1> HIDE DEF b
<1>4. /\ j.nextUnblock = b /\ j.tick = k.tick /\ j.wake = k.wake
      /\ j.delayed = k.delayed /\ j.overflow = k.overflow
  BY <1>1 DEF Kern, Fields
<1> HIDE DEF j
<1>5. Ordered(j) /\ \A t \in Members(j.delayed) : j.wake[t] >= j.nextUnblock
  BY <1>3, <1>4 DEF Ordered
<1> QED
  BY <1>5 DEF j

\* The tick count goes on; when it comes round the first list is empty.
LEMMA TickedTimed ==
  ASSUME NEW k, Kern(k), Timed(k)
  PROVE  LET j == Ticked(k)
         IN  /\ Ordered(j) /\ j.failed = k.failed
             /\ \A t \in Members(j.delayed) : j.wake[t] >= j.nextUnblock
             /\ \A t \in Members(j.overflow) : j.wake[t] < j.tick
<1> DEFINE n == Later(k.tick, 1)
           t == [k EXCEPT !.tick = n]
           j == Ticked(k)
<1>1. j = IF t.tick = 0 THEN SwitchDelayedLists(t) ELSE t
  BY DEF Ticked
<1>2. k.tick \in Span /\ n = IF k.tick + 1 < Ticks THEN k.tick + 1 ELSE 0
  <2>1. k.tick \in Span /\ 1 \in Span /\ 0 \in Span
    BY SpanType DEF Timed, Ordered, Span
  <2>2. n = IF k.tick + 1 < Ticks THEN k.tick + 1 ELSE (k.tick + 1) - Ticks
    BY <2>1, LaterValue
  <2>3. k.tick \in Int /\ 0 <= k.tick /\ k.tick < Ticks
    BY <2>1, SpanMember, Zenon
  <2> HIDE DEF n
  <2> QED
    BY <2>1, <2>2, <2>3, SpanType
<1>3. n \in Span
  <2>1. k.tick \in Int
    BY <1>2, SpanMember
  <2> QED
    BY <2>1, LaterType
<1> HIDE DEF n
<1>4. /\ t.tick = n /\ t.nextUnblock = k.nextUnblock /\ t.wake = k.wake /\ t.delayed = k.delayed
      /\ t.overflow = k.overflow /\ t.failed = k.failed /\ Kern(t)
  BY DEF Kern, Fields
<1> HIDE DEF t
<1>5. Members(k.delayed) \subseteq Task /\ Members(k.overflow) \subseteq Task
  BY DEF Kern, Lists, Members
<1>6. \A x \in Task : k.wake[x] \in Span
  BY DEF Timed, Ordered
<1>7. CASE n # 0
  <2>1. j = t
    BY <1>1, <1>4, <1>7
  <2>2. Ordered(j)
    BY <1>3, <1>4, <2>1 DEF Timed, Ordered
  <2>3. \A x \in Members(k.overflow) : k.wake[x] < n
    <3>1. n = k.tick + 1 /\ k.tick \in Int
      BY <1>2, <1>7, SpanType
    <3>2. \A x \in Members(k.overflow) : k.wake[x] < k.tick /\ k.wake[x] \in Int
      BY <1>5, <1>6, SpanType DEF Timed
    <3> QED
      BY <3>1, <3>2
  <2> HIDE DEF j
  <2> QED
    BY <1>4, <2>1, <2>2, <2>3 DEF Timed, j
<1>8. CASE n = 0
  <2>1. k.delayed = <<>>
    <3>1. k.tick + 1 >= Ticks /\ k.tick \in Int /\ Ticks \in Int
      <4>1. k.tick \in Int /\ 0 <= k.tick /\ k.tick < Ticks
        BY <1>2, SpanMember, Zenon
      <4> QED
        BY <1>2, <1>8, <4>1, SpanType
    <3>2. ASSUME NEW x \in Members(k.delayed) PROVE FALSE
      <4>1. k.wake[x] > k.tick /\ k.wake[x] \in Span
        BY <1>5, <1>6 DEF Timed
      <4>2. k.wake[x] \in Int /\ k.wake[x] < Ticks
        BY <4>1, SpanMember
      <4> QED
        BY <3>1, <4>1, <4>2
    <3>3. Members(k.delayed) = {} /\ k.delayed \in Seq(Task)
      BY <3>2 DEF Kern, Lists
    <3> QED
      BY <3>3, NoMembers
  <2> DEFINE v == [t EXCEPT !.delayed = t.overflow, !.overflow = t.delayed]
  <2>2. j = prvResetNextTaskUnblockTime(v)
    BY <1>1, <1>4, <1>8, <2>1 DEF SwitchDelayedLists, configASSERT
  <2>3. /\ Kern(v) /\ v.tick = 0 /\ v.nextUnblock = k.nextUnblock /\ v.wake = k.wake
        /\ v.delayed = k.overflow /\ v.overflow = <<>> /\ v.failed = k.failed
    BY <1>4, <1>8, <2>1 DEF Kern, Fields
  <2> HIDE DEF v
  <2>4. Ordered(v)
    BY <2>1, <2>3, SpanType DEF Timed, Ordered
  <2> DEFINE w == prvResetNextTaskUnblockTime(v)
  <2>5. Ordered(w) /\ \A x \in Members(w.delayed) : w.wake[x] >= w.nextUnblock
    BY <2>3, <2>4, ResetOrdered
  <2>6. Kern(w) /\ Keeps(w, v, {"nextUnblock"})
    BY <2>3, ResetKernel
  <2> HIDE DEF w
  <2>7. w.overflow = <<>> /\ w.failed = k.failed
    BY <2>3, <2>6 DEF Keeps, Fields
  <2> QED
    BY <2>2, <2>5, <2>7 DEF w, Members
<1> QED
  BY <1>7, <1>8

\* Of a sorted list, the tasks whose time has come are those before the others.
LEMMA DueLater ==
  ASSUME NEW k, Kern(k), Ordered(k), k.tick >= k.nextUnblock,
         NEW x \in Members(k.delayed) \ Members(Expired(k))
  PROVE  k.wake[x] > k.tick
<1> DEFINE l == Len(k.delayed)
           n == Cardinality(Due(k))
           s == SubSeq(k.delayed, 1, n)
<1>1. k.delayed \in Seq(Task) /\ l \in Nat /\ DOMAIN k.delayed = 1..l
  BY DEF Kern, Lists
<1>2. n \in 0..l /\ Due(k) = 1..n
  <2>1. Due(k) \in SUBSET (1..l)
    BY <1>1 DEF Due
  <2>2. ASSUME NEW y \in Due(k), NEW z \in 1..l, z <= y PROVE z \in Due(k)
    <3>1. y \in 1..l /\ \A j \in 1..y : k.wake[k.delayed[j]] <= k.tick
      BY <1>1 DEF Due
    <3>2. \A j \in 1..z : j \in 1..y
      BY <1>1, <2>2, <3>1
    <3> QED
      BY <1>1, <3>1, <3>2 DEF Due
  <2> HIDE DEF l
  <2> QED
    BY <1>1, <2>1, <2>2, DownClosed
<1>3. Expired(k) = s
  BY DEF Expired
<1>c. Len(k.delayed) = l
  OBVIOUS
<1> HIDE DEF n, l
<1>4. s \in Seq(Task) /\ Len(s) = n /\ \A i \in 1..n : s[i] = k.delayed[i]
  <2>1. s \in Seq(Task) /\ Len(s) = n - 1 + 1 /\ \A i \in 1..(n - 1 + 1) : s[i] = k.delayed[1 + i - 1]
    <3>1. 1 \in Int /\ n \in Int /\ 1 <= 1 /\ 1 <= n + 1 /\ n <= Len(k.delayed)
      BY <1>1, <1>2, <1>c
    <3> QED
      BY <1>1, <3>1, Part
  <2> HIDE DEF s
  <2>2. n - 1 + 1 = n /\ \A i \in 1..n : 1 + i - 1 = i
    BY <1>2
  <2> QED
    BY <2>1, <2>2
<1> HIDE DEF s
<1>5. PICK i \in 1..l : x = k.delayed[i]
  BY <1>1 DEF Members
<1>6. i > n
  <2> SUFFICES ASSUME ~(i > n) PROVE FALSE
    OBVIOUS
  <2>1. i \in 1..n /\ DOMAIN s = 1..n
    BY <1>1, <1>2, <1>4
  <2>2. x \in Members(s)
    BY <1>4, <1>5, <2>1 DEF Members
  <2> QED
    BY <1>3, <2>2
<1>7. \A j \in 1..l : k.wake[k.delayed[j]] \in Int
  <2>1. \A j \in 1..l : k.wake[k.delayed[j]] \in Span
    BY <1>1 DEF Ordered
  <2> QED
    BY <2>1, SpanMember, Zenon
<1>8. k.tick \in Int
  BY SpanMember, Zenon DEF Ordered
<1>9. PICK j \in 1..i : ~(k.wake[k.delayed[j]] <= k.tick)
  <2>1. i \notin Due(k)
    BY <1>1, <1>2, <1>6
  <2> QED
    BY <1>1, <2>1 DEF Due
<1>10. j \in 1..l /\ j <= i
  BY <1>1, <1>9
<1>11. k.wake[k.delayed[j]] <= k.wake[k.delayed[i]]
  BY <1>1, <1>10 DEF Ordered, Sorted
<1> QED
  BY <1>5, <1>7, <1>8, <1>9, <1>10, <1>11

\* Time has passed: the tasks of a set have been made ready meanwhile.
TimeFields ==
  StateLists \cup {"waiting", "pending", "tick", "nextUnblock", "failed", "yieldPending",
                 "pendedTicks"}
Made(j, k, S) ==
  /\ Kern(j) /\ Keeps(j, k, TimeFields)
  /\ ReadyTasks(j) = ReadyTasks(k) \cup S
  /\ \A o \in Object : Members(j.waiting[o]) = Members(k.waiting[o]) \ S
  /\ Members(j.pending) = Members(k.pending) \ S
  /\ Placed(k) => Placed(j)
  /\ Timed(k) => Timed(j) /\ j.failed = k.failed /\ Nears(j, k)
  /\ Dozes(j, k)

LEMMA MadeSelf ==
  ASSUME NEW k, Kern(k)
  PROVE  Made(k, k, {})
<1>1. Dozes(k, k)
  BY DozesSame
<1>2. Timed(k) => Nears(k, k)
  BY <1>1, NearsSame
<1> QED
  BY <1>1, <1>2 DEF Made, Keeps

LEMMA MadeMore ==
  ASSUME NEW i, NEW j, NEW k, NEW S, NEW T, Kern(k), Made(j, k, S), Made(i, j, T)
  PROVE  Made(i, k, S \cup T)
<1>1. Keeps(i, k, TimeFields) /\ Dozes(i, k)
  BY DozesMore DEF Made, Keeps
<1>2. ASSUME Timed(k) PROVE Timed(i) /\ i.failed = k.failed /\ Nears(i, k)
  <2>1. /\ Timed(j) /\ j.failed = k.failed /\ Nears(j, k) /\ Dozes(j, k) /\ Kern(j)
        /\ Timed(i) /\ i.failed = j.failed /\ Nears(i, j) /\ Dozes(i, j) /\ Kern(i)
    BY <1>2 DEF Made
  <2> QED
    BY <1>2, <2>1, NearsMore
<1> QED
  BY <1>1, <1>2 DEF Made

\* After a tick all times lie ahead again.
LEMMA TickTimed ==
  ASSUME NEW k, Kern(k), k.suspended = 0, EndMark \notin Task, Timed(k)
  PROVE  Timed(xTaskIncrementTick(k)) /\ xTaskIncrementTick(k).failed = k.failed
<1> DEFINE t == Ticked(k)
           e == Expired(t)
           r == ReadiedAll(t, e)
           w == prvResetNextTaskUnblockTime(r)
           j == xTaskIncrementTick(k)
<1>1. Kern(t)
  BY TickedKernel
<1>2. /\ Ordered(t) /\ t.failed = k.failed
      /\ \A x \in Members(t.delayed) : t.wake[x] >= t.nextUnblock
      /\ \A x \in Members(t.overflow) : t.wake[x] < t.tick
  BY TickedTimed
<1>3. j = IF t.tick >= t.nextUnblock THEN w ELSE r
  <2>1. ~(k.suspended > 0)
    OBVIOUS
  <2> QED
    BY <2>1, Zenon DEF xTaskIncrementTick
<1> HIDE DEF t
<1>4. e \in Seq(Task)
  BY <1>1, ExpiredList
<1>5. \A x \in Members(t.delayed) \ Members(e) : t.tick >= t.nextUnblock => t.wake[x] > t.tick
  BY <1>1, <1>2, DueLater
<1> HIDE DEF e
<1>6. Woken(r, t, Members(e))
  BY <1>1, <1>4, ReadiedAllKernel
<1> HIDE DEF r
<1>7. /\ Kern(r) /\ Rest(r, t) /\ Members(r.delayed) = Members(t.delayed) \ Members(e)
      /\ r.tick = t.tick /\ r.nextUnblock = t.nextUnblock /\ r.failed = t.failed
  BY <1>6 DEF Woken, Keeps, Fields, StateLists
<1>8. /\ Ordered(r) /\ Members(r.overflow) \subseteq Members(t.overflow)
      /\ \A x \in Members(r.delayed) \cup Members(r.overflow) : r.wake[x] = t.wake[x]
  BY <1>2, <1>7, RestOrdered
<1>9. \A x \in Members(r.overflow) : r.wake[x] < r.tick
  BY <1>2, <1>7, <1>8
<1>10. CASE t.tick >= t.nextUnblock
  <2>1. \A x \in Members(r.delayed) : r.wake[x] > r.tick
    BY <1>5, <1>7, <1>8, <1>10
  <2>2. Ordered(w) /\ \A x \in Members(w.delayed) : w.wake[x] >= w.nextUnblock
    BY <1>7, <1>8, ResetOrdered
  <2>3. Keeps(w, r, {"nextUnblock"})
    BY <1>7, ResetKernel
  <2>4. j = w
    BY <1>3, <1>10
  <2> HIDE DEF w, j
  <2>5. /\ w.delayed = r.delayed /\ w.overflow = r.overflow /\ w.wake = r.wake /\ w.tick = r.tick
        /\ w.failed = r.failed
    BY <2>3 DEF Keeps, Fields
  <2>6. Timed(w) /\ w.failed = k.failed
    BY <1>2, <1>7, <1>9, <2>1, <2>2, <2>5 DEF Timed
  <2> QED
    BY <2>4, <2>6 DEF j
<1>11. CASE ~(t.tick >= t.nextUnblock)
  <2>1. j = r
    BY <1>3, <1>11
  <2>2. t.tick \in Int /\ t.nextUnblock \in Int
    BY <1>2, SpanMember, Zenon DEF Ordered
  <2>3. \A x \in Members(t.delayed) : t.wake[x] \in Int
    <3>1. Members(t.delayed) \subseteq Task
      BY <1>1 DEF Kern, Lists, Members
    <3>2. \A x \in Members(t.delayed) : t.wake[x] \in Span
      BY <1>2, <3>1 DEF Ordered
    <3> QED
      BY <3>2, SpanMember, Zenon
  <2>4. \A x \in Members(t.delayed) : t.wake[x] > t.tick
    BY <1>2, <1>11, <2>2, <2>3
  <2>5. \A x \in Members(r.delayed) : r.wake[x] > r.tick /\ r.wake[x] >= r.nextUnblock
    BY <1>2, <1>7, <1>8, <2>4
  <2> HIDE DEF j
  <2>6. Timed(r) /\ r.failed = k.failed
    BY <1>2, <1>7, <1>8, <1>9, <2>5 DEF Timed
  <2> QED
    BY <2>1, <2>6 DEF j
<1> QED
  BY <1>10, <1>11

\* A tick wakes the tasks whose time has come.  If none of them has at least the
\* priority of the running task, this one may go on.
LEMMA TickKernel ==
  ASSUME NEW k, Kern(k), k.suspended = 0, EndMark \notin Task
  PROVE  /\ Made(xTaskIncrementTick(k), k, Members(Expired(Ticked(k))))
         /\ Keeps(xTaskIncrementTick(k), k, TimeFields \ {"yieldPending", "pendedTicks"})
         /\ Members(Expired(Ticked(k))) \subseteq Task
         /\ Topped(k) /\ ~TickRequiresSwitch(k) => Topped(xTaskIncrementTick(k))
         /\ xTaskIncrementTick(k).tick = Later(k.tick, 1)
<1> DEFINE t == Ticked(k)
           e == Expired(t)
           r == ReadiedAll(t, e)
           w == prvResetNextTaskUnblockTime(r)
           j == xTaskIncrementTick(k)
           S == Members(e)
<1>1. Kern(t) /\ Keeps(t, k, {"tick", "delayed", "overflow", "nextUnblock", "failed"})
  BY TickedKernel
<1>2. j = IF t.tick >= t.nextUnblock THEN w ELSE r
  <2>1. ~(k.suspended > 0)
    OBVIOUS
  <2> QED
    BY <2>1, Zenon DEF xTaskIncrementTick
<1>3. e \in Seq(Task)
  <2> HIDE DEF t
  <2> QED
    BY <1>1, ExpiredList
<1>4. S \subseteq Task
  <2> HIDE DEF e
  <2> QED
    BY <1>3 DEF Members
<1>5. Woken(r, t, S)
  <2> HIDE DEF t, e
  <2> QED
    BY <1>1, <1>3, ReadiedAllKernel
<1>6. \A x \in S : k.suspended = 0 /\ k.prio[x] >= k.prio[k.pxCurrentTCB] => TickRequiresSwitch(k)
  BY Zenon DEF TickRequiresSwitch
<1>t. Timed(k) => Timed(j) /\ j.failed = k.failed
  BY TickTimed
<1>p. t.tick = Later(k.tick, 1)
  BY TickedClock
<1>q. Delays(t) = Delays(k)
  BY TickedClock
<1> HIDE DEF t, e, r, j, S
<1>7. Kern(w) /\ Keeps(w, r, {"nextUnblock"})
  BY <1>5, ResetKernel DEF Woken
<1> HIDE DEF w
<1>8. Kern(j) /\ Keeps(j, r, {"nextUnblock"})
  BY <1>2, <1>5, <1>7 DEF Woken, Keeps
<1>9. j.ready = r.ready /\ j.waiting = r.waiting /\ j.pending = r.pending /\ j.prio = r.prio
  BY <1>8 DEF Keeps, Fields
<1>10. /\ t.ready = k.ready /\ t.waiting = k.waiting /\ t.pending = k.pending /\ t.prio = k.prio
       /\ t.pxCurrentTCB = k.pxCurrentTCB
  BY <1>1 DEF Keeps, Fields
<1>11. Keeps(j, k, TimeFields \ {"yieldPending", "pendedTicks"})
  <2>1. Keeps(r, t, StateLists \cup {"waiting", "pending"})
    BY <1>5 DEF Woken
  <2> QED
    BY <1>1, <1>8, <2>1 DEF Keeps, TimeFields, StateLists, Fields
<1>12. ReadyTasks(j) = ReadyTasks(r) /\ ReadyTasks(t) = ReadyTasks(k)
  BY <1>9, <1>10 DEF ReadyTasks
<1>13. (Placed(k) => Placed(t)) /\ (Placed(r) => Placed(j))
  BY <1>9, <1>10 DEF Placed, ReadyAt
<1>d. Dozes(j, k)
  <2>1. /\ j.wake = r.wake /\ j.delayed = r.delayed /\ j.overflow = r.overflow
    BY <1>8 DEF Keeps, Fields
  <2>2. Dozes(j, r)
    BY <1>9, <2>1, DozesSame DEF Delays
  <2>3. t.wake = k.wake
    BY <1>1 DEF Keeps, Fields
  <2>4. Dozes(t, k)
    BY <1>10, <1>q, <2>3, DozesSame
  <2> QED
    BY <1>5, <2>2, <2>4, DozesMore DEF Woken
<1>c. j.tick = Later(k.tick, 1)
  <2>1. r.tick = t.tick
    BY <1>5 DEF Woken, Keeps, Fields, StateLists
  <2>2. j.tick = r.tick
    BY <1>8 DEF Keeps, Fields
  <2> QED
    BY <1>p, <2>1, <2>2
<1>n. Timed(k) => Nears(j, k)
  BY <1>c, <1>d, NearsTick
<1>14. Made(j, k, S)
  <2>1. Keeps(j, k, TimeFields)
    BY <1>11 DEF Keeps
  <2> QED
    BY <1>5, <1>8, <1>9, <1>10, <1>12, <1>13, <1>t, <1>n, <1>d, <2>1 DEF Woken, Made
<1>15. ASSUME Topped(k), ~TickRequiresSwitch(k) PROVE Topped(j)
  <2>1. j.prio = k.prio /\ j.pxCurrentTCB = k.pxCurrentTCB
    BY <1>11 DEF Keeps, Fields, TimeFields, StateLists
  <2>2. ASSUME NEW x \in ReadyTasks(j) PROVE k.prio[x] <= k.prio[k.pxCurrentTCB]
    <3>1. CASE x \in ReadyTasks(k)
      BY <1>15, <3>1 DEF Topped
    <3>2. CASE x \in S
      <4>1. ~(k.prio[x] >= k.prio[k.pxCurrentTCB])
        BY <1>6, <1>15, <3>2
      <4>2. k.prio[x] \in Nat /\ k.prio[k.pxCurrentTCB] \in Nat
        BY <1>4, <3>2, PriorityType DEF Kern
      <4> QED
        BY <4>1, <4>2
    <3> QED
      BY <1>14, <2>2, <3>1, <3>2 DEF Made
  <2> QED
    BY <2>1, <2>2 DEF Topped
<1> QED
  BY <1>4, <1>11, <1>14, <1>15, <1>c DEF j, S, e, t

\* One of the ticks that passed while the scheduler was suspended.
PendedTick(k) ==
  IF TickRequiresSwitch(k) THEN vTaskMissedYield(xTaskIncrementTick(k)) ELSE xTaskIncrementTick(k)

\* The running task may go on, or a yield is noted.
Level(k) == k.yieldPending \/ Topped(k)

LEMMA PendedTickKernel ==
  ASSUME NEW k, Kern(k), k.suspended = 0, EndMark \notin Task
  PROVE  /\ \E S \in SUBSET Task : Made(PendedTick(k), k, S)
         /\ PendedTick(k).suspended = 0
         /\ Level(k) => Level(PendedTick(k))
         /\ PendedTick(k).tick = Later(k.tick, 1)
<1> DEFINE i == xTaskIncrementTick(k)
           j == PendedTick(k)
           S == Members(Expired(Ticked(k)))
<1>1. /\ Made(i, k, S) /\ Keeps(i, k, TimeFields \ {"yieldPending", "pendedTicks"}) /\ S \subseteq Task
      /\ Topped(k) /\ ~TickRequiresSwitch(k) => Topped(i)
      /\ i.tick = Later(k.tick, 1)
  BY TickKernel
<1>2. j = IF TickRequiresSwitch(k) THEN [i EXCEPT !.yieldPending = TRUE] ELSE i
  BY DEF PendedTick, vTaskMissedYield
<1> HIDE DEF i, j, S
<1>3. i.yieldPending = k.yieldPending /\ Kern(i) /\ i.suspended = 0
  BY <1>1 DEF Made, Keeps, Fields, TimeFields, StateLists
<1>4. CASE TickRequiresSwitch(k)
  <2>1. j = [i EXCEPT !.yieldPending = TRUE]
    BY <1>2, <1>4
  <2>2. /\ Kern(j) /\ Keeps(j, i, {"yieldPending"}) /\ j.yieldPending = TRUE /\ j.suspended = 0
    BY <1>3, <2>1 DEF Kern, Keeps, Fields
  <2>3. j.ready = i.ready /\ j.waiting = i.waiting /\ j.pending = i.pending /\ j.prio = i.prio
    BY <2>2 DEF Keeps, Fields
  <2>4. ReadyTasks(j) = ReadyTasks(i) /\ (Placed(i) => Placed(j))
    BY <2>3 DEF ReadyTasks, Placed, ReadyAt
  <2>5. Keeps(j, k, TimeFields) /\ j.failed = i.failed
    BY <1>1, <2>2 DEF Made, Keeps, Fields, TimeFields
  <2>t. Timed(i) => Timed(j)
    <3>1. Keeps(j, i, Untimed)
      BY <2>2 DEF Keeps, Fields, Untimed
    <3> QED
      BY <3>1, KeepsTimed
  <2>d. Dozes(j, i) /\ j.tick = i.tick /\ (Nears(i, k) => Nears(j, k))
    <3>1. j.wake = i.wake /\ j.delayed = i.delayed /\ j.overflow = i.overflow /\ j.tick = i.tick
      BY <2>2 DEF Keeps, Fields
    <3>2. Nears(i, k) => Nears(j, k)
      BY <2>3, <3>1, NearsAs
    <3> QED
      BY <2>3, <3>1, <3>2, DozesSame DEF Delays
  <2>e. Dozes(j, k)
    BY <1>1, <2>d, DozesMore DEF Made
  <2>6. Made(j, k, S)
    BY <1>1, <2>2, <2>3, <2>4, <2>5, <2>t, <2>d, <2>e DEF Made
  <2> QED
    BY <1>1, <2>2, <2>6, <2>d DEF Level, j
<1>5. CASE ~TickRequiresSwitch(k)
  <2>1. j = i
    BY <1>2, <1>5
  <2> QED
    BY <1>1, <1>3, <1>5, <2>1 DEF Level, j
<1> QED
  BY <1>4, <1>5

\* What the loop of PendedTicksDone() has come to after each of n steps.
TickedBy(f, k, n) == f = [i \in 0..n |-> IF i = 0 THEN k ELSE PendedTick(f[i - 1])]

LEMMA TickSteps ==
  ASSUME NEW k, NEW n \in Nat
  PROVE  \E f : TickedBy(f, k, n)
<1> DEFINE Good(f, m) == f = [i \in 0..m |-> IF i = 0 THEN k ELSE PendedTick(f[i - 1])]
           Bad == {m \in 0..n : ~ \E f : Good(f, m)}
<1> SUFFICES ASSUME Bad # {} PROVE FALSE
  BY DEF Good, Bad, TickedBy
<1>1. PICK m \in Bad : \A x \in Bad : m <= x
  <2>1. Bad \in SUBSET Nat
    BY DEF Bad
  <2> HIDE DEF Bad
  <2> QED
    BY <2>1, LeastNatural
<1>2. CASE m = 0
  <2> DEFINE f == [i \in 0..0 |-> k]
  <2>1. Good(f, 0)
    OBVIOUS
  <2> QED
    BY <1>1, <1>2, <2>1
<1>3. CASE m # 0
  <2>1. m \in Nat /\ m - 1 \in 0..n /\ m - 1 \notin Bad /\ m \in 0..n
    BY <1>1, <1>3
  <2>2. PICK f : Good(f, m - 1)
    BY <2>1
  <2> DEFINE last == PendedTick(f[m - 1])
             g == [i \in 0..m |-> IF i = m THEN last ELSE f[i]]
             h == [i \in 0..m |-> IF i = 0 THEN k ELSE PendedTick(g[i - 1])]
  <2>3. ASSUME NEW i \in 0..m PROVE g[i] = h[i]
    <3>1. CASE i = 0
      BY <1>3, <2>1, <2>2, <3>1
    <3>2. CASE i # 0 /\ i # m
      <4>1. i \in 0..(m - 1) /\ i - 1 \in 0..m /\ i - 1 # m
        BY <2>1, <3>2
      <4>2. g[i] = f[i] /\ g[i - 1] = f[i - 1]
        BY <3>2, <4>1
      <4>3. f[i] = PendedTick(f[i - 1])
        BY <2>2, <3>2, <4>1
      <4> QED
        BY <3>2, <4>2, <4>3
    <3>3. CASE i # 0 /\ i = m
      <4>1. i - 1 \in 0..m /\ i - 1 # m
        BY <2>1, <3>3
      <4>2. g[i - 1] = f[i - 1] /\ g[i] = last
        BY <3>3, <4>1
      <4> QED
        BY <3>3, <4>2
    <3> QED
      BY <3>1, <3>2, <3>3
  <2>4. Good(g, m)
    BY <2>3
  <2> QED
    BY <1>1, <2>4
<1> QED
  BY <1>2, <1>3

\* One tick more.
LEMMA LaterNone ==
  ASSUME NEW x \in Span
  PROVE  Later(x, 0) = x
<1>1. x \in Int /\ 0 <= x /\ x < Ticks
  BY SpanMember
<1> QED
  BY <1>1, LaterValue, SpanType

LEMMA LaterOne ==
  ASSUME NEW x \in Span, NEW y \in Span, y + 1 \in Span
  PROVE  Later(Later(x, y), 1) = Later(x, y + 1)
<1> DEFINE a == Later(x, y)
<1>1. /\ x \in Int /\ 0 <= x /\ x < Ticks /\ y \in Int /\ 0 <= y /\ y + 1 < Ticks
      /\ Ticks \in Nat /\ 1 \in Span
  <2>1. y + 1 < Ticks
    BY SpanMember
  <2> QED
    BY <2>1, SpanMember, SpanType DEF Span
<1>2. a = IF x + y < Ticks THEN x + y ELSE (x + y) - Ticks
  BY LaterValue
<1>3. a \in Span
  BY <1>1, LaterType
<1> HIDE DEF a
<1>4. Later(a, 1) = IF a + 1 < Ticks THEN a + 1 ELSE (a + 1) - Ticks
  BY <1>1, <1>3, LaterValue
<1>5. Later(x, y + 1) = IF x + (y + 1) < Ticks THEN x + (y + 1) ELSE (x + (y + 1)) - Ticks
  BY LaterValue
<1>6. Later(a, 1) = Later(x, y + 1)
  BY <1>1, <1>2, <1>4, <1>5
<1> QED
  BY <1>6 DEF a

LEMMA PendedTicksKernel ==
  ASSUME NEW k, Kern(k), k.suspended = 0, k.pendedTicks \in Nat, EndMark \notin Task
  PROVE  LET j == PendedTicksDone(k)
         IN  /\ \E S \in SUBSET Task : Made(j, k, S)
             /\ j.suspended = 0 /\ j.pendedTicks = 0
             /\ Level(k) => Level(j)
             /\ k.tick \in Span /\ k.pendedTicks \in Span => j.tick = Later(k.tick, k.pendedTicks)
<1> DEFINE n == k.pendedTicks
           Clock == k.tick \in Span /\ n \in Span
           step[i \in 0..n] == IF i = 0 THEN k ELSE PendedTick(step[i - 1])
           Done(m) == \E S \in SUBSET Task : /\ Made(step[m], k, S) /\ step[m].suspended = 0
                                             /\ Level(k) => Level(step[m])
                                             /\ Clock => step[m].tick = Later(k.tick, m)
           Bad == {m \in 0..n : ~Done(m)}
<1>1. step = [i \in 0..n |-> IF i = 0 THEN k ELSE PendedTick(step[i - 1])]
  <2>1. \E f : TickedBy(f, k, n)
    <3>1. n \in Nat
      OBVIOUS
    <3> HIDE DEF n
    <3> QED
      BY <3>1, TickSteps, Zenon
  <2>2. \E f : f = [i \in 0..n |-> IF i = 0 THEN k ELSE PendedTick(f[i - 1])]
    BY <2>1, Zenon DEF TickedBy
  <2> QED
    BY <2>2, Zenon
<1>2. PendedTicksDone(k) = IF n = 0 THEN k ELSE [step[n] EXCEPT !.pendedTicks = 0]
  BY DEF PendedTicksDone, PendedTick
<1>3. n \in Nat
  OBVIOUS
<1>4. k.pendedTicks = n
  OBVIOUS
<1> HIDE DEF step, n, Done, Clock
<1>5. step[0] = k
  BY <1>1, <1>3
<1>6. Bad = {}
  <2> SUFFICES ASSUME Bad # {} PROVE FALSE
    OBVIOUS
  <2>1. PICK m \in Bad : \A x \in Bad : m <= x
    <3>1. Bad \in SUBSET Nat
      BY <1>3
    <3> HIDE DEF Bad
    <3> QED
      BY <3>1, LeastNatural
  <2>2. CASE m = 0
    <3>1. Made(k, k, {})
      BY MadeSelf
    <3>2. Clock => k.tick = Later(k.tick, 0)
      BY LaterNone DEF Clock
    <3>3. Done(0)
      BY <1>5, <3>1, <3>2 DEF Done
    <3> QED
      BY <2>1, <2>2, <3>3
  <2>3. CASE m # 0
    <3>1. m \in 1..n /\ m - 1 \in 0..n /\ m - 1 \notin Bad
      BY <1>3, <2>1, <2>3
    <3> DEFINE a == step[m - 1]
    <3>2. Done(m - 1)
      BY <3>1
    <3>3. PICK S \in SUBSET Task : /\ Made(a, k, S) /\ a.suspended = 0 /\ (Level(k) => Level(a))
                                   /\ Clock => a.tick = Later(k.tick, m - 1)
      BY <3>2 DEF Done
    <3>4. step[m] = PendedTick(a)
      BY <1>1, <3>1
    <3> HIDE DEF a
    <3>5. Kern(a)
      BY <3>3 DEF Made
    <3>6. PICK T \in SUBSET Task : Made(step[m], a, T)
      BY <3>3, <3>4, <3>5, PendedTickKernel, Zenon
    <3>7. step[m].suspended = 0 /\ (Level(a) => Level(step[m])) /\ step[m].tick = Later(a.tick, 1)
      BY <3>3, <3>4, <3>5, PendedTickKernel, Zenon
    <3>c. ASSUME Clock PROVE step[m].tick = Later(k.tick, m)
      <4>1. k.tick \in Span /\ m - 1 \in Span /\ m \in Span
        BY <1>3, <3>1, <3>c, SpanType DEF Clock, Span
      <4>3. (m - 1) + 1 = m
        BY <3>1
      <4>2. Later(Later(k.tick, m - 1), 1) = Later(k.tick, (m - 1) + 1)
        BY <4>1, <4>3, LaterOne
      <4> QED
        BY <3>3, <3>7, <3>c, <4>2, <4>3
    <3>8. Made(step[m], k, S \cup T) /\ S \cup T \in SUBSET Task
      BY <3>3, <3>6, MadeMore
    <3>9. Done(m)
      BY <3>3, <3>7, <3>8, <3>c DEF Done
    <3> QED
      BY <2>1, <3>9
  <2> QED
    BY <2>2, <2>3
<1>7. Done(n)
  BY <1>3, <1>6
<1> DEFINE a == step[n]
           j == PendedTicksDone(k)
<1>8. PICK S \in SUBSET Task : /\ Made(a, k, S) /\ a.suspended = 0 /\ (Level(k) => Level(a))
                               /\ Clock => a.tick = Later(k.tick, n)
  BY <1>7 DEF Done
<1>9. CASE n = 0
  BY <1>2, <1>4, <1>5, <1>8, <1>9 DEF Clock
<1>10. CASE n # 0
  <2>1. j = [a EXCEPT !.pendedTicks = 0]
    BY <1>2, <1>10
  <2> HIDE DEF a, j
  <2>2. Kern(j) /\ Keeps(j, a, {"pendedTicks"}) /\ j.pendedTicks = 0
    BY <1>8, <2>1 DEF Made, Kern, Keeps, Fields
  <2>3. /\ j.ready = a.ready /\ j.waiting = a.waiting /\ j.pending = a.pending /\ j.prio = a.prio
        /\ j.pxCurrentTCB = a.pxCurrentTCB /\ j.yieldPending = a.yieldPending /\ j.suspended = a.suspended
        /\ j.wake = a.wake /\ j.delayed = a.delayed /\ j.overflow = a.overflow /\ j.tick = a.tick
    BY <2>2 DEF Keeps, Fields
  <2>d. Dozes(j, a)
    BY <2>3, DozesSame DEF Delays
  <2>e. Dozes(j, k)
    BY <1>8, <2>d, DozesMore DEF Made
  <2>n. Nears(a, k) => Nears(j, k)
    BY <2>3, NearsAs
  <2>4. ReadyTasks(j) = ReadyTasks(a) /\ (Placed(a) => Placed(j)) /\ (Level(a) => Level(j))
    BY <2>3 DEF ReadyTasks, Placed, ReadyAt, Level, Topped
  <2>5. Keeps(j, k, TimeFields) /\ j.failed = a.failed
    BY <1>8, <2>2 DEF Made, Keeps, Fields, TimeFields
  <2>t. Timed(a) => Timed(j)
    <3>1. Keeps(j, a, Untimed)
      BY <2>2 DEF Keeps, Fields, Untimed
    <3> QED
      BY <3>1, KeepsTimed
  <2>6. Made(j, k, S)
    BY <1>8, <2>2, <2>3, <2>4, <2>5, <2>t, <2>e, <2>n DEF Made
  <2> QED
    BY <1>4, <1>8, <2>2, <2>3, <2>4, <2>6 DEF j, Clock
<1> QED
  BY <1>9, <1>10

\* The tasks that an interrupt made ready meanwhile.
LEMMA PendingKernel ==
  ASSUME NEW k, Kern(k), EndMark \notin Task
  PROVE  LET j == PendingReadied(k)
         IN  /\ Made(j, k, Members(k.pending))
             /\ Members(k.pending) \subseteq Task
             /\ j.pendedTicks = k.pendedTicks /\ j.tick = k.tick
             /\ Level(k) => Level(j)
<1> DEFINE S == Members(k.pending)
           r == ReadiedAll(k, k.pending)
           y == \E t \in S : k.prio[t] >= k.prio[k.pxCurrentTCB]
           q == r.yieldPending \/ y
           u == [r EXCEPT !.yieldPending = q]
           w == prvResetNextTaskUnblockTime(u)
           j == PendingReadied(k)
<1>1. k.pending \in Seq(Task) /\ S \subseteq Task
  BY DEF Kern, Lists, Members
<1>2. Woken(r, k, S)
  BY <1>1, ReadiedAllKernel
<1>3. j = IF k.pending = <<>> THEN k ELSE w
  BY DEF PendingReadied
<1>4. CASE k.pending = <<>>
  <2>1. S = {} /\ j = k
    BY <1>3, <1>4 DEF Members
  <2>2. Made(k, k, {})
    BY MadeSelf
  <2> QED
    BY <2>1, <2>2
<1>5. CASE k.pending # <<>>
  <2>1. j = w
    BY <1>3, <1>5
  <2> HIDE DEF r, j, S
  <2>2. Kern(r) /\ Keeps(r, k, StateLists \cup {"waiting", "pending"})
    BY <1>2 DEF Woken
  <2>3. r.yieldPending = k.yieldPending /\ r.prio = k.prio /\ r.pxCurrentTCB = k.pxCurrentTCB
    BY <2>2 DEF Keeps, Fields, StateLists
  <2> HIDE DEF y, q
  <2>4. Kern(u) /\ Keeps(u, r, {"yieldPending"}) /\ u.yieldPending = q
    BY <2>2 DEF Kern, Keeps, Fields
  <2> HIDE DEF u
  <2>5. Kern(w) /\ Keeps(w, u, {"nextUnblock"})
    BY <2>4, ResetKernel
  <2>t. ASSUME Timed(k) PROVE Timed(w) /\ w.failed = k.failed
    <3>1. r.tick = k.tick /\ r.nextUnblock = k.nextUnblock /\ r.failed = k.failed /\ Rest(r, k)
      BY <1>2, <2>2 DEF Woken, Keeps, Fields, StateLists
    <3>2. Timed(r)
      BY <2>2, <2>t, <3>1, RestTimed
    <3>3. Timed(u) /\ u.failed = r.failed
      <4>1. Keeps(u, r, Untimed) /\ u.failed = r.failed
        BY <2>4 DEF Keeps, Fields, Untimed
      <4> QED
        BY <3>2, <4>1, KeepsTimed
    <3>4. Ordered(w) /\ \A x \in Members(w.delayed) : w.wake[x] >= w.nextUnblock
      BY <2>4, <3>3, ResetOrdered DEF Timed
    <3> HIDE DEF w
    <3>5. /\ w.delayed = u.delayed /\ w.overflow = u.overflow /\ w.wake = u.wake /\ w.tick = u.tick
          /\ w.failed = u.failed
      BY <2>5 DEF Keeps, Fields
    <3> QED
      BY <3>1, <3>3, <3>4, <3>5 DEF Timed
  <2> HIDE DEF w
  <2>6. /\ w.ready = r.ready /\ w.waiting = r.waiting /\ w.pending = r.pending
        /\ w.prio = k.prio /\ w.pxCurrentTCB = k.pxCurrentTCB /\ w.yieldPending = q
        /\ w.wake = r.wake /\ w.delayed = r.delayed /\ w.overflow = r.overflow
    BY <2>3, <2>4, <2>5 DEF Keeps, Fields
  <2>d. Dozes(w, k)
    <3>1. Dozes(w, r)
      BY <2>6, DozesSame DEF Delays
    <3> QED
      BY <1>2, <3>1, DozesMore DEF Woken
  <2>7. Keeps(w, k, TimeFields) /\ w.pendedTicks = k.pendedTicks /\ w.tick = k.tick
    BY <2>2, <2>4, <2>5 DEF Keeps, Fields, TimeFields, StateLists
  <2>8. ReadyTasks(w) = ReadyTasks(r) /\ (Placed(r) => Placed(w))
    BY <2>3, <2>6 DEF ReadyTasks, Placed, ReadyAt
  <2>n. Timed(k) => Nears(w, k)
    BY <2>7, <2>d, NearsSame
  <2>9. Made(w, k, S)
    BY <1>2, <2>5, <2>6, <2>7, <2>8, <2>t, <2>d, <2>n DEF Woken, Made
  <2>10. ASSUME Level(k) PROVE Level(w)
    <3>1. CASE k.yieldPending
      BY <2>3, <2>6, <3>1 DEF Level, q
    <3>2. CASE y
      BY <2>6, <3>2 DEF Level, q
    <3>3. CASE ~y /\ Topped(k)
      <4>1. ASSUME NEW t \in S PROVE k.prio[t] <= k.prio[k.pxCurrentTCB]
        <5>1. k.prio[t] \in Nat /\ k.prio[k.pxCurrentTCB] \in Nat
          BY <1>1, PriorityType DEF Kern
        <5>2. ~(k.prio[t] >= k.prio[k.pxCurrentTCB])
          BY <3>3 DEF y
        <5> QED
          BY <5>1, <5>2
      <4>2. \A t \in ReadyTasks(w) : k.prio[t] <= k.prio[k.pxCurrentTCB]
        BY <2>9, <3>3, <4>1 DEF Made, Topped
      <4> QED
        BY <2>6, <4>2 DEF Level, Topped
    <3> QED
      BY <2>10, <3>1, <3>2, <3>3 DEF Level
  <2> QED
    BY <1>1, <2>1, <2>7, <2>9, <2>10 DEF j, S
<1> QED
  BY <1>4, <1>5

\* The scheduler is resumed: everything that was noted meanwhile is done, and the
\* running task goes on only if no ready one outranks it.
LEMMA ResumeAllKernel ==
  ASSUME NEW k, Kern(k), EndMark \notin Task, k.suspended = 1, k.pendedTicks \in Nat,
         k.pendSV \/ Level(k)
  PROVE  LET j == xTaskResumeAll(k)
         IN  /\ \E S \in SUBSET Task :
                  /\ ReadyTasks(j) = ReadyTasks(k) \cup S
                  /\ \A o \in Object : Members(j.waiting[o]) = Members(k.waiting[o]) \ S
                  /\ Members(k.pending) \subseteq S
             /\ Kern(j) /\ Keeps(j, k, TimeFields \cup {"suspended", "pendSV"})
             /\ j.suspended = 0 /\ j.pendedTicks = 0 /\ j.pending = <<>>
             /\ Placed(k) => Placed(j)
             /\ k.pendSV => j.pendSV
             /\ j.pendSV \/ Topped(j)
             /\ Timed(k) => Timed(j) /\ j.failed = k.failed /\ Nears(j, k)
             /\ Dozes(j, k)
             /\ k.tick \in Span /\ k.pendedTicks \in Span => j.tick = Later(k.tick, k.pendedTicks)
<1> DEFINE d == [configASSERT(k, k.suspended > 0) EXCEPT !.suspended = @ - 1]
           p == PendingReadied(d)
           r == PendedTicksDone(p)
           j == xTaskResumeAll(k)
<1>1. Kern(d) /\ Keeps(d, k, {"suspended"}) /\ d.suspended = 0
  <2>1. configASSERT(k, k.suspended > 0) = k
    BY DEF configASSERT
  <2>2. d = [k EXCEPT !.suspended = @ - 1]
    BY <2>1
  <2> HIDE DEF d
  <2> QED
    BY <2>2 DEF Kern, Keeps, Fields
<1>2. j = IF d.suspended > 0 THEN d ELSE IF r.yieldPending THEN portYIELD(r) ELSE r
  BY Zenon DEF xTaskResumeAll
<1> HIDE DEF d
<1>3. /\ d.ready = k.ready /\ d.waiting = k.waiting /\ d.pending = k.pending /\ d.prio = k.prio
      /\ d.pxCurrentTCB = k.pxCurrentTCB /\ d.yieldPending = k.yieldPending
      /\ d.pendedTicks = k.pendedTicks /\ d.pendSV = k.pendSV
      /\ d.wake = k.wake /\ d.delayed = k.delayed /\ d.overflow = k.overflow /\ d.tick = k.tick
  BY <1>1 DEF Keeps, Fields
<1>4. ReadyTasks(d) = ReadyTasks(k) /\ (Placed(k) => Placed(d)) /\ (Level(k) => Level(d))
  BY <1>3 DEF ReadyTasks, Placed, ReadyAt, Level, Topped
<1> DEFINE Q == Members(k.pending)
<1>5. /\ Made(p, d, Q) /\ Q \subseteq Task /\ p.pendedTicks = d.pendedTicks /\ (Level(d) => Level(p))
      /\ p.tick = d.tick
  BY <1>1, <1>3, PendingKernel
<1> HIDE DEF p
<1>6. Kern(p) /\ p.suspended = 0 /\ p.pendedTicks \in Nat
  BY <1>1, <1>3, <1>5 DEF Made, Keeps, Fields, TimeFields, StateLists
<1>7. /\ \E T \in SUBSET Task : Made(r, p, T)
      /\ r.suspended = 0 /\ r.pendedTicks = 0 /\ (Level(p) => Level(r))
      /\ p.tick \in Span /\ p.pendedTicks \in Span => r.tick = Later(p.tick, p.pendedTicks)
  BY <1>6, PendedTicksKernel
<1> HIDE DEF r
<1>8. PICK T \in SUBSET Task : Made(r, p, T)
  BY <1>7
<1> DEFINE S == Q \cup T
<1>9. Made(r, d, S)
  BY <1>1, <1>5, <1>8, MadeMore
<1>10. r.pending = <<>>
  <2>1. Members(r.pending) = {} /\ r.pending \in Seq(Task)
    BY <1>3, <1>9 DEF Made, Kern, Lists
  <2> QED
    BY <2>1, NoMembers
<1>11. Kern(r) /\ Keeps(r, k, TimeFields \cup {"suspended"})
  BY <1>1, <1>9 DEF Made, Keeps, Fields, TimeFields
<1>12. r.pendSV = k.pendSV
  BY <1>11 DEF Keeps, Fields, TimeFields, StateLists
<1>d. Dozes(r, k)
  <2>1. Dozes(d, k)
    BY <1>3, DozesSame DEF Delays
  <2> QED
    BY <1>9, <2>1, DozesMore DEF Made
<1>c. k.tick \in Span /\ k.pendedTicks \in Span => r.tick = Later(k.tick, k.pendedTicks)
  BY <1>3, <1>5, <1>7
<1>t. ASSUME Timed(k) PROVE Timed(r) /\ r.failed = k.failed /\ Nears(r, k)
  <2>1. Keeps(d, k, Untimed) /\ d.failed = k.failed
    BY <1>1 DEF Keeps, Fields, Untimed
  <2>2. Timed(d)
    BY <1>t, <2>1, KeepsTimed
  <2>3. Timed(r) /\ r.failed = d.failed /\ Nears(r, d)
    BY <1>9, <2>2 DEF Made
  <2>4. Nears(r, k)
    BY <1>3, <2>3, NearsAs DEF Delays
  <2> QED
    BY <2>1, <2>3, <2>4
<1>13. j = IF r.yieldPending THEN [r EXCEPT !.pendSV = TRUE] ELSE r
  BY <1>1, <1>2 DEF portYIELD
<1> HIDE DEF j
<1>14. CASE r.yieldPending
  <2>1. j = [r EXCEPT !.pendSV = TRUE]
    BY <1>13, <1>14
  <2>2. Kern(j) /\ Keeps(j, r, {"pendSV"}) /\ j.pendSV = TRUE
    BY <1>11, <2>1 DEF Kern, Keeps, Fields
  <2>3. /\ j.ready = r.ready /\ j.waiting = r.waiting /\ j.pending = r.pending /\ j.prio = r.prio
        /\ j.suspended = r.suspended /\ j.pendedTicks = r.pendedTicks
        /\ j.wake = r.wake /\ j.delayed = r.delayed /\ j.overflow = r.overflow /\ j.tick = r.tick
    BY <2>2 DEF Keeps, Fields
  <2>d. Dozes(j, k)
    <3>1. Dozes(j, r)
      BY <2>3, DozesSame DEF Delays
    <3> QED
      BY <1>d, <3>1, DozesMore
  <2>4. ReadyTasks(j) = ReadyTasks(r) /\ (Placed(r) => Placed(j))
    BY <2>3 DEF ReadyTasks, Placed, ReadyAt
  <2>5. Keeps(j, k, TimeFields \cup {"suspended", "pendSV"})
    BY <1>11, <2>2 DEF Keeps
  <2>6. S \in SUBSET Task /\ Q \subseteq S
    BY <1>5
  <2>7. /\ ReadyTasks(j) = ReadyTasks(k) \cup S
        /\ \A o \in Object : Members(j.waiting[o]) = Members(k.waiting[o]) \ S
    BY <1>3, <1>4, <1>9, <2>3, <2>4 DEF Made
  <2>8. Placed(k) => Placed(j)
    BY <1>4, <1>9, <2>4 DEF Made
  <2>t. Timed(k) => Timed(j) /\ j.failed = k.failed /\ Nears(j, k)
    <3>1. Keeps(j, r, Untimed) /\ j.failed = r.failed
      BY <2>2 DEF Keeps, Fields, Untimed
    <3>2. Nears(r, k) => Nears(j, k)
      BY <2>3, NearsAs
    <3> QED
      BY <1>t, <3>1, <3>2, KeepsTimed
  <2> HIDE DEF S
  <2> QED
    BY <1>7, <1>10, <1>c, <2>2, <2>3, <2>5, <2>6, <2>7, <2>8, <2>t, <2>d DEF j, Q
<1>15. CASE ~r.yieldPending
  <2>1. j = r
    BY <1>13, <1>15
  <2>2. Keeps(j, k, TimeFields \cup {"suspended", "pendSV"})
    BY <1>11, <2>1 DEF Keeps
  <2>3. S \in SUBSET Task /\ Q \subseteq S
    BY <1>5
  <2>4. /\ ReadyTasks(j) = ReadyTasks(k) \cup S
        /\ \A o \in Object : Members(j.waiting[o]) = Members(k.waiting[o]) \ S
    BY <1>3, <1>4, <1>9, <2>1 DEF Made
  <2>5. Placed(k) => Placed(j)
    BY <1>4, <1>9, <2>1 DEF Made
  <2>6. k.pendSV \/ Topped(j)
    BY <1>4, <1>5, <1>7, <1>15, <2>1 DEF Level
  <2> HIDE DEF S
  <2> QED
    BY <1>7, <1>10, <1>11, <1>12, <1>t, <1>c, <1>d, <2>1, <2>2, <2>3, <2>4, <2>5, <2>6 DEF j, Q
<1> QED
  BY <1>14, <1>15

-----------------------------------------------------------------------------
(***************************************************************************)
(* What becomes of the times when a task is delayed or made ready.         *)
(***************************************************************************)
LEMMA ReadiedTimed ==
  ASSUME NEW k, Kern(k), NEW t \in Task, EndMark \notin Task
  PROVE  /\ Readied(k, t).failed = k.failed
         /\ Timed(k) => Timed(Readied(k, t))
<1> DEFINE j == Readied(k, t)
<1>1. Kern(j) /\ Keeps(j, k, StateLists) /\ Rest(j, k)
  BY ReadiedKernel, ReadiedRest
<1> HIDE DEF j
<1>2. j.tick = k.tick /\ j.nextUnblock = k.nextUnblock /\ j.failed = k.failed
  BY <1>1 DEF Keeps, Fields, StateLists
<1>3. Timed(k) => Timed(j)
  BY <1>1, <1>2, RestTimed
<1> QED
  BY <1>2, <1>3 DEF j

LEMMA UnlistedTimed ==
  ASSUME NEW k, Kern(k), NEW t \in Task, EndMark \notin Task, Timed(k)
  PROVE  Timed(Unlisted(k, t))
<1> DEFINE j == Unlisted(k, t)
<1>1. Kern(j) /\ Keeps(j, k, StateLists) /\ Rest(j, k)
  BY UnlistedKernel, UnlistedRest
<1> HIDE DEF j
<1>2. j.tick = k.tick /\ j.nextUnblock = k.nextUnblock
  BY <1>1 DEF Keeps, Fields, StateLists
<1>3. Timed(j)
  BY <1>1, <1>2, RestTimed
<1> QED
  BY <1>3 DEF j

\* A delay that is not 0 ends in the time ahead, whether or not the tick count comes
\* round before.
LEMMA DelayTimed ==
  ASSUME NEW k, Kern(k), EndMark \notin Task, NEW x \in Span, x # 0
  PROVE  /\ prvAddCurrentTaskToDelayedList(k, x).failed = k.failed
         /\ Timed(k) => Timed(prvAddCurrentTaskToDelayedList(k, x))
<1> DEFINE t == k.pxCurrentTCB
           w == Later(k.tick, x)
           v == Unlisted(k, t)
           u == [v EXCEPT !.wake[t] = w]
           d == vListInsert(u.delayed, t, u.wake)
           o == vListInsert(u.overflow, t, u.wake)
           b == IF w < u.nextUnblock THEN w ELSE u.nextUnblock
           j == prvAddCurrentTaskToDelayedList(k, x)
<1>1. t \in Task
  BY DEF Kern
<1>2. /\ Kern(v) /\ Keeps(v, k, StateLists)
      /\ t \notin Members(v.delayed) /\ t \notin Members(v.overflow)
      /\ Timed(k) => Timed(v)
  <2> HIDE DEF t
  <2>1. Kern(v) /\ Keeps(v, k, StateLists)
    BY <1>1, UnlistedKernel
  <2>2. Members(v.delayed) = Members(k.delayed) \ {t} /\ Members(v.overflow) = Members(k.overflow) \ {t}
    BY <1>1, UnlistedKernel
  <2>3. Timed(k) => Timed(v)
    BY <1>1, UnlistedTimed
  <2> QED
    BY <2>1, <2>2, <2>3
<1>3. j = IF w < k.tick THEN [u EXCEPT !.overflow = o] ELSE [u EXCEPT !.delayed = d, !.nextUnblock = b]
  BY DEF prvAddCurrentTaskToDelayedList
<1> HIDE DEF t, v
<1>4. v.tick = k.tick /\ v.nextUnblock = k.nextUnblock /\ v.failed = k.failed
  BY <1>2 DEF Keeps, Fields, StateLists
<1>5. k.tick \in Span => w \in Span /\ (~(w < k.tick) => w > k.tick)
  <2> SUFFICES ASSUME k.tick \in Span PROVE w \in Span /\ (~(w < k.tick) => w > k.tick)
    OBVIOUS
  <2> DEFINE m == k.tick
  <2>1. m \in Int /\ 0 <= m /\ m < Ticks /\ x \in Int /\ 0 <= x /\ x < Ticks
    BY SpanMember, Zenon
  <2>2. w = IF m + x < Ticks THEN m + x ELSE (m + x) - Ticks
    BY LaterValue
  <2>3. w \in Span
    BY <2>1, LaterType
  <2> HIDE DEF w, m
  <2>4. ~(w < m) => w > m
    BY <2>1, <2>2, SpanType
  <2> QED
    BY <2>3, <2>4 DEF m
<1> HIDE DEF w
<1>6. /\ Kern(u) /\ u.wake = [v.wake EXCEPT ![t] = w] /\ u.tick = k.tick /\ u.nextUnblock = k.nextUnblock
      /\ u.delayed = v.delayed /\ u.overflow = v.overflow /\ u.failed = k.failed
  BY <1>1, <1>2, <1>4 DEF Kern, Keeps, Fields
<1> HIDE DEF u
<1>7. j.failed = k.failed
  <2> HIDE DEF d, o, b, j
  <2>1. CASE j = [u EXCEPT !.overflow = o]
    BY <1>6, <2>1 DEF Kern, Fields
  <2>2. CASE j = [u EXCEPT !.delayed = d, !.nextUnblock = b]
    BY <1>6, <2>2 DEF Kern, Fields
  <2> QED
    BY <1>3, <2>1, <2>2
<1>8. ASSUME Timed(k) PROVE Timed(j)
  <2>1. Timed(v) /\ w \in Span /\ (~(w < k.tick) => w > k.tick)
    BY <1>2, <1>5, <1>8 DEF Timed, Ordered
  <2>2. /\ u.wake \in [Task -> Span] /\ u.wake[t] = w
        /\ \A y \in Members(v.delayed) \cup Members(v.overflow) : u.wake[y] = v.wake[y]
    <3>1. v.wake \in [Task -> Span]
      BY <2>1 DEF Timed, Ordered
    <3>2. Members(v.delayed) \subseteq Task /\ Members(v.overflow) \subseteq Task
      BY <1>2 DEF Kern, Lists, Members
    <3> QED
      BY <1>1, <1>2, <1>6, <2>1, <3>1, <3>2
  <2>3. Sorted(u.delayed, u.wake) /\ Sorted(u.overflow, u.wake)
    <3>1. Sorted(v.delayed, v.wake) /\ Sorted(v.overflow, v.wake)
      BY <2>1 DEF Timed, Ordered
    <3>2. Sorted(v.delayed, u.wake)
      BY <2>2, <3>1, PartOfSame, PartOfSorted
    <3>3. Sorted(v.overflow, u.wake)
      BY <2>2, <3>1, PartOfSame, PartOfSorted
    <3> QED
      BY <1>6, <3>2, <3>3
  <2>4. \A y \in Task : u.wake[y] \in Int
    <3>1. \A y \in Task : u.wake[y] \in Span
      BY <2>2
    <3> QED
      BY <3>1, SpanMember, Zenon
  <2>5. /\ \A y \in Members(u.delayed) : u.wake[y] > u.tick /\ u.wake[y] >= u.nextUnblock
        /\ \A y \in Members(u.overflow) : u.wake[y] < u.tick
    BY <1>4, <1>6, <2>1, <2>2 DEF Timed
  <2>6. u.tick \in Span /\ u.nextUnblock \in Span
    BY <1>6, <1>8 DEF Timed, Ordered
  <2>7. /\ u.delayed \in Lists(Task) /\ u.overflow \in Lists(Task)
        /\ t \notin Members(u.delayed) /\ t \notin Members(u.overflow)
    BY <1>2, <1>6 DEF Kern
  <2>8. Sorted(d, u.wake) /\ Sorted(o, u.wake)
    <3>1. Sorted(d, u.wake)
      BY <1>1, <2>3, <2>4, <2>7, InsertKeepsSorted
    <3>2. Sorted(o, u.wake)
      BY <1>1, <2>3, <2>4, <2>7, InsertKeepsSorted
    <3> QED
      BY <3>1, <3>2
  <2>9. Members(d) = Members(u.delayed) \cup {t} /\ Members(o) = Members(u.overflow) \cup {t}
    BY <1>1, <2>7, InsertSorted
  <2> HIDE DEF d, o, j
  <2>10. CASE w < k.tick
    <3>1. j = [u EXCEPT !.overflow = o]
      BY <1>3, <2>10
    <3>2. /\ j.overflow = o /\ j.delayed = u.delayed /\ j.wake = u.wake /\ j.tick = u.tick
          /\ j.nextUnblock = u.nextUnblock
      BY <1>6, <3>1 DEF Kern, Fields
    <3>3. Ordered(j)
      BY <2>2, <2>3, <2>6, <2>8, <3>2 DEF Ordered
    <3>4. \A y \in Members(j.overflow) : j.wake[y] < j.tick
      BY <1>6, <2>2, <2>5, <2>9, <2>10, <3>2
    <3> QED
      BY <2>5, <3>2, <3>3, <3>4 DEF Timed
  <2>11. CASE ~(w < k.tick)
    <3>1. j = [u EXCEPT !.delayed = d, !.nextUnblock = b]
      BY <1>3, <2>11
    <3>2. b \in Span /\ b <= w /\ b <= u.nextUnblock
      <4>1. w \in Int /\ u.nextUnblock \in Int
        BY <2>1, <2>6, SpanMember, Zenon
      <4> QED
        BY <2>1, <2>6, <4>1
    <3> HIDE DEF b
    <3>3. /\ j.delayed = d /\ j.overflow = u.overflow /\ j.wake = u.wake /\ j.tick = u.tick
          /\ j.nextUnblock = b
      BY <1>6, <3>1 DEF Kern, Fields
    <3>4. Ordered(j)
      BY <2>2, <2>3, <2>6, <2>8, <3>2, <3>3 DEF Ordered
    <3>5. \A y \in Members(j.delayed) : j.wake[y] > j.tick /\ j.wake[y] >= j.nextUnblock
      <4>1. b \in Int /\ w \in Int /\ u.nextUnblock \in Int
        BY <2>1, <2>6, <3>2, SpanMember, Zenon
      <4>2. ASSUME NEW y \in Members(u.delayed) PROVE u.wake[y] > u.tick /\ u.wake[y] >= b
        <5>1. u.wake[y] \in Int
          BY <2>4, <2>7 DEF Lists, Members
        <5> QED
          BY <2>5, <3>2, <4>1, <5>1
      <4>3. u.wake[t] > u.tick /\ u.wake[t] >= b
        BY <1>6, <2>1, <2>2, <2>11, <3>2, <4>1
      <4> QED
        BY <2>9, <3>3, <4>2, <4>3
    <3> QED
      BY <2>5, <3>3, <3>4, <3>5 DEF Timed
  <2> QED
    BY <2>10, <2>11
<1> QED
  BY <1>7, <1>8 DEF j

=============================================================================
