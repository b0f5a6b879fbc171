-------------------------- MODULE Containers_proofs --------------------------
(***************************************************************************)
(* Theorems about the two containers written by hand: the circular array   *)
(* of BlockQueue, for any items, consumers and array size, and the linked  *)
(* list of TimerList, for any finite set of timers, lifetime and clock.    *)
(***************************************************************************)
EXTENDS BlockQueue, TimerList, FunctionTheorems, FiniteSetTheorems, SharedLemmas

-----------------------------------------------------------------------------
(* THE CIRCULAR ARRAY *)

-----------------------------------------------------------------------------
(* Indices *)

(* A remainder below three times the divisor.                              *)
LEMMA Round ==
  ASSUME NEW n \in Nat \ {0}, NEW x \in 0 .. 3 * n - 1
  PROVE  x % n = IF x < n THEN x ELSE IF x < 2 * n THEN x - n ELSE x - 2 * n
<1>1. CASE x < n
  BY <1>1, SMT
<1>2. CASE x >= n /\ x < 2 * n
  BY <1>2, SMT
<1>3. CASE x >= 2 * n
  BY <1>3, SMT
<1> QED
  BY <1>1, <1>2, <1>3

(* The cell i places after m_front.                                        *)
cell(front, i) == (front + i) % m_max_size

(* An index that has gone round at most twice, brought back.               *)
back(x) == IF x < m_max_size THEN x
           ELSE IF x < 2 * m_max_size THEN x - m_max_size
                ELSE x - 2 * m_max_size

LEMMA Back ==
  ASSUME NEW x \in 0 .. 3 * m_max_size - 1
  PROVE  x % m_max_size = back(x)
<1>1. m_max_size \in Nat \ {0}
  BY SizeAssumption
<1>2. x % m_max_size = IF x < m_max_size THEN x
                       ELSE IF x < 2 * m_max_size THEN x - m_max_size
                            ELSE x - 2 * m_max_size
  BY <1>1, Round
<1> QED
  BY <1>2, Zenon DEF back

LEMMA CellStep ==
  ASSUME NEW f \in -1 .. m_max_size - 1, NEW i \in 1 .. m_max_size
  PROVE  /\ cell(f, i) \in Index /\ after(f) \in Index
         /\ after(cell(f, i)) = cell(f, i + 1)
         /\ cell(after(f), i) = cell(f, i + 1)
<1>1. m_max_size \in Nat \ {0}
  BY SizeAssumption
<1>2. /\ f + i \in 0 .. 3 * m_max_size - 1
      /\ f + (i + 1) \in 0 .. 3 * m_max_size - 1
      /\ f + 1 \in 0 .. 3 * m_max_size - 1
  BY <1>1
<1>3. /\ cell(f, i) = back(f + i) /\ cell(f, i + 1) = back(f + (i + 1))
      /\ after(f) = back(f + 1)
  BY <1>2, Back, Zenon DEF cell, after
<1>4. cell(f, i) \in Index /\ after(f) \in Index
  BY <1>1, <1>3 DEF Index, back
<1>5. /\ cell(f, i) + 1 \in 0 .. 3 * m_max_size - 1
      /\ after(f) + i \in 0 .. 3 * m_max_size - 1
  BY <1>1, <1>4 DEF Index
<1>6. /\ after(cell(f, i)) = back(cell(f, i) + 1)
      /\ cell(after(f), i) = back(after(f) + i)
  BY <1>5, Back, Zenon DEF cell, after
<1>7. /\ back(back(f + i) + 1) = back(f + (i + 1))
      /\ back(back(f + 1) + i) = back(f + (i + 1))
  BY <1>1 DEF back
<1> QED
  BY <1>3, <1>4, <1>6, <1>7, Zenon

(* As many places as the array has cells are different cells.              *)
LEMMA CellsDiffer ==
  ASSUME NEW f \in -1 .. m_max_size - 1,
         NEW i \in 1 .. m_max_size, NEW j \in 1 .. m_max_size, i # j
  PROVE  cell(f, i) # cell(f, j)
<1>1. m_max_size \in Nat \ {0}
  BY SizeAssumption
<1>2. f + i \in 0 .. 3 * m_max_size - 1 /\ f + j \in 0 .. 3 * m_max_size - 1
  BY <1>1
<1>3. cell(f, i) = back(f + i) /\ cell(f, j) = back(f + j)
  BY <1>2, Back, Zenon DEF cell
<1> QED
  BY <1>1, <1>3 DEF back

-----------------------------------------------------------------------------
(* The inductive invariant *)

(* Types; the next cell to write is the one after the last item; and no    *)
(* cell between m_front and m_back is one never written.                   *)
TypeOK ==
    /\ m_array \in [Index -> Item \cup {Blank}]
    /\ m_size \in 0 .. m_max_size
    /\ m_front \in -1 .. m_max_size - 1 /\ m_back \in -1 .. m_max_size - 1
    /\ new \subseteq Item
    /\ cpc \in [Consumer -> {"pop", "asleep"}]

Joined == after(m_back) = cell(m_front, m_size + 1)

Stored == \A i \in 1 .. m_size : m_array[cell(m_front, i)] \in Item

QInv == TypeOK /\ Joined /\ Stored

LEMMA QInvInit == Init => QInv
<1> SUFFICES ASSUME Init PROVE QInv
  OBVIOUS
<1>1. TypeOK
  BY SizeAssumption DEF Init, TypeOK, Index
<1>2. Joined
  BY SizeAssumption DEF Init, Joined, after, cell
<1>3. Stored
  BY DEF Init, Stored
<1> QED
  BY <1>1, <1>2, <1>3 DEF QInv

(* What a push into a free place does to the cells that hold items.        *)
LEMMA PushCells ==
  ASSUME QInv, NEW x \in Item, Push(x), ~full
  PROVE  /\ QInv'
         /\ m_size' = m_size + 1 /\ m_front' = m_front
         /\ m_array'[cell(m_front, m_size + 1)] = x
         /\ \A i \in 1 .. m_size :
               m_array'[cell(m_front, i)] = m_array[cell(m_front, i)]
<1> DEFINE b == cell(m_front, m_size + 1)
<1>1. /\ m_size \in 0 .. m_max_size /\ m_size < m_max_size
      /\ m_front \in -1 .. m_max_size - 1 /\ m_max_size \in Nat \ {0}
      /\ m_array \in [Index -> Item \cup {Blank}]
      /\ m_size + 1 \in 1 .. m_max_size
  BY SizeAssumption DEF QInv, TypeOK, full
<1>2. b \in Index /\ after(m_back) = b
      /\ after(b) = cell(m_front, m_size + 1 + 1)
  BY <1>1, CellStep DEF QInv, Joined
<1> HIDE DEF b
<1>3. /\ m_back' = b /\ m_array' = [m_array EXCEPT ![b] = x]
      /\ m_size' = m_size + 1 /\ m_front' = m_front
      /\ new' = new \ {x} /\ cpc' = [c \in Consumer |-> "pop"]
  BY <1>2 DEF Push, full, broadcast
<1>4. m_array'[b] = x
  BY <1>1, <1>2, <1>3
<1>5. ASSUME NEW i \in 1 .. m_size
      PROVE  m_array'[cell(m_front, i)] = m_array[cell(m_front, i)]
  <2>1. i \in 1 .. m_max_size /\ i # m_size + 1
    BY <1>1
  <2>2. cell(m_front, i) \in Index /\ cell(m_front, i) # b
    BY <1>1, <2>1, CellStep, CellsDiffer DEF b
  <2> QED
    BY <1>1, <1>2, <1>3, <2>2
<1>6. TypeOK'
  BY <1>1, <1>2, <1>3 DEF QInv, TypeOK, Index
<1>7. Joined'
  BY <1>2, <1>3 DEF Joined, after, cell
<1>8. Stored'
  <2> SUFFICES ASSUME NEW i \in 1 .. m_size + 1
               PROVE  m_array'[cell(m_front, i)] \in Item
    BY <1>3 DEF Stored, cell
  <2>1. CASE i = m_size + 1
    BY <2>1, <1>4 DEF b
  <2>2. CASE i \in 1 .. m_size
    BY <2>2, <1>5 DEF QInv, Stored
  <2> QED
    BY <2>1, <2>2, <1>1
<1> QED
  BY <1>3, <1>4, <1>5, <1>6, <1>7, <1>8 DEF QInv, b

(* What a pop does to them.                                                *)
LEMMA PopCells ==
  ASSUME QInv, NEW c \in Consumer, Pop(c)
  PROVE  /\ QInv'
         /\ m_size' = m_size - 1 /\ m_size > 0 /\ m_array' = m_array
         /\ \A i \in 1 .. m_size - 1 :
               cell(m_front', i) = cell(m_front, i + 1)
<1>1. /\ m_size \in 1 .. m_max_size
      /\ m_front \in -1 .. m_max_size - 1 /\ m_max_size \in Nat \ {0}
  BY SizeAssumption DEF QInv, TypeOK, Pop
<1>2. /\ m_front' = after(m_front) /\ m_size' = m_size - 1
      /\ UNCHANGED <<m_array, m_back, new, cpc>>
  BY DEF Pop
<1>3. \A i \in 1 .. m_size : cell(m_front', i) = cell(m_front, i + 1)
  BY <1>1, <1>2, CellStep
<1>4. after(m_front) \in Index
  BY <1>1, CellStep
<1>5. TypeOK'
  BY <1>1, <1>2, <1>4 DEF QInv, TypeOK, Index
<1>6. Joined'
  <2>1. cell(m_front', m_size) = cell(m_front, m_size + 1)
    BY <1>1, <1>3
  <2>2. m_size - 1 + 1 = m_size
    BY <1>1
  <2> QED
    BY <1>2, <2>1, <2>2 DEF QInv, Joined, after, cell
<1>7. Stored'
  <2> SUFFICES ASSUME NEW i \in 1 .. m_size - 1
               PROVE  m_array[cell(m_front', i)] \in Item
    BY <1>2 DEF Stored, cell
  <2>1. i \in 1 .. m_size /\ i + 1 \in 1 .. m_size
    BY <1>1
  <2> QED
    BY <1>3, <2>1 DEF QInv, Stored
<1>8. \A i \in 1 .. m_size - 1 : cell(m_front', i) = cell(m_front, i + 1)
  BY <1>1, <1>3
<1> QED
  BY <1>1, <1>2, <1>5, <1>6, <1>7, <1>8 DEF QInv

(* Everything else: a push that is refused, sleeping and waking up.        *)
QueueKept == UNCHANGED <<m_array, m_size, m_front>>

LEMMA KeptCells ==
  ASSUME QInv, \/ \E x \in Item : Push(x) /\ full
               \/ \E c \in Consumer : Sleep(c) \/ WakeUp(c)
               \/ UNCHANGED vars
  PROVE  QInv' /\ QueueKept
<1>1. /\ UNCHANGED <<m_array, m_size, m_front, m_back>>
      /\ new' \subseteq new /\ cpc' \in [Consumer -> {"pop", "asleep"}]
  BY DEF QInv, TypeOK, Push, broadcast, Sleep, WakeUp, vars
<1> QED
  BY <1>1 DEF QInv, TypeOK, Joined, Stored, QueueKept, after, cell

LEMMA ClearCells == QInv /\ Clear => QInv'
<1> SUFFICES ASSUME QInv, Clear PROVE QInv'
  OBVIOUS
<1>1. TypeOK'
  BY SizeAssumption DEF Clear, QInv, TypeOK
<1>2. Joined'
  BY SizeAssumption DEF Clear, Joined, after, cell
<1>3. Stored'
  BY DEF Clear, Stored
<1> QED
  BY <1>1, <1>2, <1>3 DEF QInv

LEMMA QInvStep == QInv /\ [Next]_vars => QInv'
<1> SUFFICES ASSUME QInv, [Next]_vars PROVE QInv'
  OBVIOUS
<1>1. ASSUME NEW x \in Item, Push(x) PROVE QInv'
  BY <1>1, PushCells, KeptCells
<1>2. ASSUME NEW c \in Consumer, Pop(c) PROVE QInv'
  BY <1>2, PopCells
<1>3. ASSUME NEW c \in Consumer, Sleep(c) \/ WakeUp(c) PROVE QInv'
  BY <1>3, KeptCells
<1> QED
  BY <1>1, <1>2, <1>3, ClearCells, KeptCells DEF Next

-----------------------------------------------------------------------------
(* Theorems *)

(* No lost wake-up: pop() sleeps only on an empty queue, and the push()    *)
(* that makes it hold something wakes every sleeper (block_queue.h).       *)
THEOREM NoSleeperHolds == Spec => []NoSleeper
<1>1. Init => QInv /\ NoSleeper
  BY QInvInit DEF Init, NoSleeper
<1>2. QInv /\ NoSleeper /\ [Next]_vars => NoSleeper'
  <2> SUFFICES ASSUME QInv, NoSleeper, [Next]_vars PROVE NoSleeper'
    OBVIOUS
  <2>1. m_size \in Nat
    BY SizeAssumption DEF QInv, TypeOK
  <2>2. ASSUME NEW x \in Item, Push(x) PROVE NoSleeper'
    BY <2>2 DEF Push, broadcast, NoSleeper
  <2>3. ASSUME NEW c \in Consumer, Pop(c) PROVE NoSleeper'
    BY <2>1, <2>3 DEF Pop, NoSleeper
  <2>4. ASSUME NEW c \in Consumer, Sleep(c) PROVE NoSleeper'
    BY <2>1, <2>4 DEF Sleep, NoSleeper
  <2>5. ASSUME NEW c \in Consumer, WakeUp(c) PROVE NoSleeper'
    BY <2>1, <2>5 DEF WakeUp, NoSleeper, QInv, TypeOK
  <2>6. CASE Clear
    BY <2>6 DEF Clear, NoSleeper
  <2>7. CASE UNCHANGED vars
    BY <2>7 DEF vars, NoSleeper
  <2> QED
    BY <2>2, <2>3, <2>4, <2>5, <2>6, <2>7 DEF Next
<1> QED
  BY <1>1, <1>2, QInvStep, PTL DEF Spec

(* The first n cells after front, as a sequence.                           *)
Ring(a, front, n) == [i \in 1 .. n |-> a[(front + i) % m_max_size]]

LEMMA RingSeq ==
  ASSUME NEW a, NEW front, NEW n \in Nat,
         \A i \in 1 .. n : a[cell(front, i)] \in Item
  PROVE  /\ Ring(a, front, n) \in Seq(Item) /\ Len(Ring(a, front, n)) = n
         /\ \A i \in 1 .. n : Ring(a, front, n)[i] = a[cell(front, i)]
<1>1. \A i \in 1 .. n : a[(front + i) % m_max_size] \in Item
  BY DEF cell
<1>2. Ring(a, front, n) \in Seq(Item)
  BY <1>1, IsASeq DEF Ring
<1>3. Len(Ring(a, front, n)) = n
  BY <1>2, LenProperties DEF Ring
<1> QED
  BY <1>2, <1>3 DEF Ring, cell

(* The array and its indices, wherever they wrap or restart, are a         *)
(* first-in first-out queue of m_max_size places.                          *)
THEOREM ArrayIsQueue == Spec => QueueSpec
<1>1. Init => Queue!Init
  <2> SUFFICES ASSUME Init PROVE items = <<>>
    BY DEF Queue!Init
  <2>1. QInv /\ m_size = 0
    BY QInvInit DEF Init
  <2> QED
    BY <2>1, EmptySeq DEF items
<1>2. QInv /\ QInv' /\ [Next]_vars => [Queue!Next]_items
  <2> SUFFICES ASSUME QInv, QInv', [Next]_vars PROVE [Queue!Next]_items
    OBVIOUS
  <2>1. /\ items \in Seq(Item) /\ Len(items) = m_size /\ m_size \in Nat
        /\ \A i \in 1 .. m_size : items[i] = m_array[cell(m_front, i)]
    <3>1. m_size \in Nat /\ items = Ring(m_array, m_front, m_size)
      BY SizeAssumption DEF QInv, TypeOK, items, Ring
    <3> QED
      BY <3>1, RingSeq DEF QInv, Stored
  <2>2. /\ items' \in Seq(Item) /\ Len(items') = m_size' /\ m_size' \in Nat
        /\ \A i \in 1 .. m_size' : items'[i] = m_array'[cell(m_front', i)]
    <3>1. m_size' \in Nat /\ items' = Ring(m_array', m_front', m_size')
      BY SizeAssumption DEF QInv, TypeOK, items, Ring
    <3>2. \A i \in 1 .. m_size' : m_array'[cell(m_front', i)] \in Item
      BY DEF QInv, Stored, cell
    <3> QED
      BY <3>1, <3>2, RingSeq
  <2>3. ASSUME NEW x \in Item, Push(x), ~full PROVE Queue!Push(x)
    <3> DEFINE q == Append(items, x)
    <3>1. /\ m_size' = m_size + 1 /\ m_front' = m_front
          /\ m_array'[cell(m_front, m_size + 1)] = x
          /\ \A i \in 1 .. m_size :
                m_array'[cell(m_front, i)] = m_array[cell(m_front, i)]
      BY <2>3, PushCells
    <3>2. /\ q \in Seq(Item) /\ Len(q) = m_size + 1 /\ q[m_size + 1] = x
          /\ \A i \in 1 .. m_size : q[i] = items[i]
      BY <2>1, AppendProperties
    <3> HIDE DEF q
    <3>3. \A i \in 1 .. Len(q) : items'[i] = q[i]
      BY <2>1, <2>2, <3>1, <3>2
    <3>4. items' = q
      BY <2>1, <2>2, <3>1, <3>2, <3>3, SeqEqual
    <3>5. Len(items) < m_max_size
      BY <2>1, <2>3, SizeAssumption DEF full
    <3> QED
      BY <3>4, <3>5 DEF Queue!Push, q
  <2>4. ASSUME NEW c \in Consumer, Pop(c) PROVE Queue!Pop
    <3> DEFINE q == Tail(items)
    <3>1. /\ m_size' = m_size - 1 /\ m_size > 0 /\ m_array' = m_array
          /\ \A i \in 1 .. m_size - 1 :
                cell(m_front', i) = cell(m_front, i + 1)
      BY <2>4, PopCells
    <3>2. items # <<>>
      BY <2>1, <3>1, EmptySeq
    <3>3. /\ q \in Seq(Item) /\ Len(q) = m_size - 1
          /\ \A i \in 1 .. m_size - 1 : q[i] = items[i + 1]
      BY <2>1, <3>2, HeadTailProperties
    <3> HIDE DEF q
    <3>4. ASSUME NEW i \in 1 .. m_size - 1 PROVE items'[i] = q[i]
      <4>1. i \in 1 .. m_size' /\ i + 1 \in 1 .. m_size
        BY <2>1, <3>1
      <4> QED
        BY <2>1, <2>2, <3>1, <3>3, <4>1
    <3>5. items' = q
      BY <2>1, <2>2, <3>1, <3>3, <3>4, SeqEqual
    <3> QED
      BY <3>2, <3>5 DEF Queue!Pop, q
  <2>5. ASSUME Clear PROVE Queue!Clear
    <3>1. items' = <<>>
      BY <2>2, <2>5, EmptySeq DEF Clear
    <3> QED
      BY <3>1 DEF Queue!Clear
  <2>6. CASE QueueKept
    BY <2>6 DEF QueueKept, items
  <2>7. CASE (\E x \in Item : Push(x)) \/ Clear \/ (\E c \in Consumer : Pop(c))
    BY <2>3, <2>4, <2>5, <2>6, <2>7, KeptCells DEF Queue!Next
  <2> QED
    BY <2>6, <2>7, KeptCells DEF Next
<1> QED
  BY <1>1, <1>2, QInvInit, QInvStep, PTL DEF Spec, QueueSpec, Queue!Spec

-----------------------------------------------------------------------------
(* THE TIMER LIST *)

(* What follows a pointer: the walk stops at NULL.                         *)
Follow(L, p) == IF p = NULL THEN NULL ELSE L.next[p]

(* The recursion that defines Walk has a solution.                         *)
LEMMA WalkDef ==
  ASSUME NEW L \in List, NEW n \in Pointer
  PROVE  /\ Walk(L, n) \in [0 .. Size -> Pointer]
         /\ Walk(L, n)[0] = n
         /\ \A i \in 1 .. Size : Walk(L, n)[i] = Follow(L, Walk(L, n)[i - 1])
<1> DEFINE Is(g, k) == /\ g \in [0 .. k -> Pointer] /\ g[0] = n
                       /\ \A i \in 1 .. k : g[i] = Follow(L, g[i - 1])
           S == {k \in Nat : \E g : Is(g, k)}
           E(g) == [i \in 0 .. Size |->
                      IF i = 0 THEN n
                      ELSE IF g[i - 1] = NULL THEN NULL ELSE L.next[g[i - 1]]]
<1>1. Size \in Nat
  BY TimerAssumption, FS_CardinalityType DEF Size
<1>2. \A p \in Pointer : Follow(L, p) \in Pointer
  BY DEF Follow, List, Pointer
<1>3. 0 \in S
  <2>1. Is([i \in 0 .. 0 |-> n], 0)
    OBVIOUS
  <2> QED
    BY <2>1
<1>4. ASSUME NEW k \in Nat, k \in S
      PROVE  k + 1 \in S
  <2>1. PICK g : Is(g, k)
    BY <1>4
  <2> DEFINE h == [i \in 0 .. k + 1 |-> IF i = k + 1 THEN Follow(L, g[k]) ELSE g[i]]
  <2>2. Is(h, k + 1)
    <3>1. h \in [0 .. k + 1 -> Pointer] /\ h[0] = n
      BY <1>2, <2>1
    <3>2. ASSUME NEW i \in 1 .. k + 1
          PROVE  h[i] = Follow(L, h[i - 1])
      <4>1. i - 1 \in 0 .. k /\ h[i - 1] = g[i - 1]
        OBVIOUS
      <4>2. CASE i = k + 1
        BY <4>1, <4>2
      <4>3. CASE i \in 1 .. k
        <5>1. h[i] = g[i]
          BY <4>3
        <5> QED
          BY <2>1, <4>1, <4>3, <5>1
      <4> QED
        BY <4>2, <4>3
    <3> QED
      BY <3>1, <3>2
  <2> HIDE DEF h, Is
  <2> QED
    BY <2>2
<1>5. Size \in S
  <2> HIDE DEF S
  <2> QED
    BY <1>1, <1>3, <1>4, AllOf
<1>6. PICK g : Is(g, Size)
  BY <1>5
<1>7. g = E(g)
  BY <1>6, <1>1 DEF Follow
<1>8. Walk(L, n) = CHOOSE f : f = E(f)
  BY DEF Walk
<1>9. Walk(L, n) = E(Walk(L, n))
  <2> HIDE DEF E
  <2> QED
    BY <1>7, <1>8
<1> DEFINE w == Walk(L, n)
<1> HIDE DEF w
<1>10. w = E(w)
  BY <1>9 DEF w
<1>11. DOMAIN w = 0 .. Size /\ w[0] = n
  BY <1>10, <1>1
<1>12. \A i \in 1 .. Size : w[i] = Follow(L, w[i - 1])
  BY <1>10, <1>1 DEF Follow
<1>13. w \in [0 .. Size -> Pointer]
  <2>1. \A i \in 0 .. Size : i \in {j \in 0 .. Size : w[j] \in Pointer}
    <3> DEFINE Q == {j \in 0 .. Size : w[j] \in Pointer}
    <3>1. 0 \in Q
      BY <1>1, <1>11
    <3>2. ASSUME NEW k \in 0 .. Size - 1, k \in Q
          PROVE  k + 1 \in Q
      <4>1. k + 1 \in 1 .. Size /\ w[k + 1] = Follow(L, w[k])
        BY <1>1, <1>12
      <4> QED
        BY <3>2, <4>1, <1>2
    <3> HIDE DEF Q
    <3>3. \A i \in 0 .. Size : i \in Q
      BY <1>1, <3>1, <3>2, AllOf
    <3> QED
      BY <3>3 DEF Q
  <2> QED
    BY <1>10, <1>11, <2>1
<1> QED
  BY <1>11, <1>12, <1>13 DEF w

-----------------------------------------------------------------------------
(* A list of timers, in order.                                             *)
Order(n, s) == /\ n \in Nat /\ s \in [1 .. n -> Timer]
               /\ \A i, j \in 1 .. n : s[i] = s[j] => i = j
Members(n, s) == {s[i] : i \in 1 .. n}
Sorted(exp, n, s) == \A i, j \in 1 .. n : i <= j => exp[s[i]] <= exp[s[j]]

(* The pointers of L are those of the list.                                *)
Links(L, n, s) ==
    /\ L.head = IF n = 0 THEN NULL ELSE s[1]
    /\ n > 0 => /\ L.tail = s[n] /\ L.next[s[n]] = NULL
                /\ L.prev[s[1]] = NULL
    /\ \A i \in 1 .. n - 1 : L.next[s[i]] = s[i + 1] /\ L.prev[s[i + 1]] = s[i]

\* Nothing else points anywhere.
Loose(L, T) == \A u \in Timer \ T : L.next[u] = NULL /\ L.prev[u] = NULL

(* It has no more nodes than there are timers.                             *)
LEMMA Bounded ==
  ASSUME NEW n, NEW s, Order(n, s)
  PROVE  /\ Size \in Nat /\ n <= Size
         /\ \A t \in Timer \ Members(n, s) : n + 1 <= Size
<1>1. Size \in Nat
  BY TimerAssumption, FS_CardinalityType DEF Size
<1>2. n \in Nat /\ Cardinality(1 .. n) = n
  BY FS_Interval DEF Order
<1>3. n <= Size
  <2>1. s \in Injection(1 .. n, Timer)
    BY Fun_IsInj DEF Order
  <2> QED
    BY <1>2, <2>1, TimerAssumption, FS_Injection DEF Size
<1>4. ASSUME NEW t \in Timer \ Members(n, s)
      PROVE  n + 1 <= Size
  <2> DEFINE T == Timer \ {t}
  <2>1. IsFiniteSet(T) /\ Cardinality(T) = Size - 1
    BY TimerAssumption, FS_RemoveElement DEF Size
  <2>2. s \in [1 .. n -> T]
    BY <1>4 DEF Order, Members
  <2> HIDE DEF T
  <2>3. s \in Injection(1 .. n, T)
    BY <2>2, Fun_IsInj DEF Order
  <2>4. n <= Size - 1
    BY <1>2, <2>1, <2>3, FS_Injection
  <2> QED
    BY <1>1, <1>2, <2>4
<1> QED
  BY <1>1, <1>3, <1>4

(* The traversals visit the list in order.                                 *)
LEMMA Walked ==
  ASSUME NEW L \in List, NEW n, NEW s, Order(n, s), Links(L, n, s),
         NEW k \in 1 .. n
  PROVE  \A j \in 0 .. Size :
            Walk(L, s[k])[j] = IF k + j <= n THEN s[k + j] ELSE NULL
<1> DEFINE w == Walk(L, s[k])
           Q == {j \in 0 .. Size : w[j] = IF k + j <= n THEN s[k + j] ELSE NULL}
<1>1. n \in Nat /\ s \in [1 .. n -> Timer] /\ s[k] \in Pointer /\ Size \in Nat
  BY Bounded DEF Order, Pointer
<1>2. /\ w[0] = s[k]
      /\ \A i \in 1 .. Size : w[i] = Follow(L, w[i - 1])
  BY <1>1, WalkDef
<1> HIDE DEF w
<1>3. 0 \in Q
  BY <1>1, <1>2
<1>4. ASSUME NEW j \in 0 .. Size - 1, j \in Q
      PROVE  j + 1 \in Q
  <2>1. w[j + 1] = Follow(L, w[j]) /\ j + 1 \in 0 .. Size /\ j \in Nat
    BY <1>1, <1>2
  <2>2. CASE k + j > n
    <3>1. w[j] = NULL /\ ~(k + (j + 1) <= n)
      BY <1>1, <1>4, <2>1, <2>2
    <3> QED
      BY <2>1, <3>1 DEF Follow
  <2>3. CASE k + j = n
    <3>1. w[j] = s[n] /\ s[n] # NULL /\ ~(k + (j + 1) <= n) /\ n > 0 /\ n \in 1 .. n
      BY <1>1, <1>4, <2>1, <2>3, NullAssumption
    <3>2. L.next[s[n]] = NULL
      BY <3>1 DEF Links
    <3> QED
      BY <2>1, <3>1, <3>2 DEF Follow
  <2>4. CASE k + j < n
    <3>1. k + j \in 1 .. n - 1 /\ k + (j + 1) <= n
      BY <1>1, <2>1, <2>4
    <3>2. w[j] = s[k + j] /\ s[k + j] # NULL
      BY <1>1, <1>4, <3>1, NullAssumption
    <3>3. L.next[s[k + j]] = s[(k + j) + 1] /\ (k + j) + 1 = k + (j + 1)
      BY <1>1, <2>1, <3>1 DEF Links
    <3> QED
      BY <2>1, <3>1, <3>2, <3>3 DEF Follow
  <2> QED
    BY <1>1, <2>1, <2>2, <2>3, <2>4
<1> HIDE DEF Q
<1>5. \A j \in 0 .. Size : j \in Q
  BY <1>1, <1>3, <1>4, AllOf
<1> QED
  BY <1>5 DEF Q, w

LEMMA WalkedAll ==
  ASSUME NEW L \in List, NEW n, NEW s, Order(n, s), Links(L, n, s)
  PROVE  \A j \in 0 .. Size :
            Walk(L, L.head)[j] = IF j < n THEN s[j + 1] ELSE NULL
<1>1. n \in Nat /\ Size \in Nat
  BY Bounded DEF Order
<1>2. CASE n > 0
  <2>1. L.head = s[1] /\ 1 \in 1 .. n
    BY <1>1, <1>2 DEF Links
  <2>2. \A j \in 0 .. Size :
           Walk(L, L.head)[j] = IF 1 + j <= n THEN s[1 + j] ELSE NULL
    BY <2>1, Walked
  <2> QED
    BY <1>1, <2>2
<1>3. CASE n = 0
  <2> DEFINE w == Walk(L, L.head)
             Q == {j \in 0 .. Size : w[j] = NULL}
  <2>1. L.head = NULL /\ NULL \in Pointer
    BY <1>3 DEF Links, Pointer
  <2>2. w[0] = NULL /\ \A i \in 1 .. Size : w[i] = Follow(L, w[i - 1])
    BY <2>1, WalkDef
  <2> HIDE DEF w
  <2>3. 0 \in Q
    BY <1>1, <2>2
  <2>4. ASSUME NEW j \in 0 .. Size - 1, j \in Q
        PROVE  j + 1 \in Q
    BY <1>1, <2>2, <2>4 DEF Follow
  <2> HIDE DEF Q
  <2>5. \A j \in 0 .. Size : j \in Q
    BY <1>1, <2>3, <2>4, AllOf
  <2> QED
    BY <1>1, <1>3, <2>5 DEF Q, w
<1> QED
  BY <1>1, <1>2, <1>3

-----------------------------------------------------------------------------
(* A timer put in after place k, and the one at place k taken out.         *)
Put(n, s, k, t) == [i \in 1 .. n + 1 |-> IF i <= k THEN s[i]
                                         ELSE IF i = k + 1 THEN t ELSE s[i - 1]]
Without(n, s, k) == [i \in 1 .. n - 1 |-> IF i < k THEN s[i] ELSE s[i + 1]]

LEMMA PutOrder ==
  ASSUME NEW n, NEW s, Order(n, s), NEW k \in 0 .. n,
         NEW t \in Timer \ Members(n, s)
  PROVE  /\ Order(n + 1, Put(n, s, k, t))
         /\ Members(n + 1, Put(n, s, k, t)) = Members(n, s) \cup {t}
<1> DEFINE r == Put(n, s, k, t)
<1>1. n \in Nat /\ s \in [1 .. n -> Timer] /\ \A i \in 1 .. n : s[i] # t
  BY DEF Order, Members
<1>2. \A i \in 1 .. n + 1 : \/ i \in 1 .. n /\ i <= k /\ r[i] = s[i]
                            \/ i = k + 1 /\ r[i] = t
                            \/ i - 1 \in 1 .. n /\ i - 1 > k /\ r[i] = s[i - 1]
  BY <1>1 DEF Put
<1>3. r = [i \in 1 .. n + 1 |-> r[i]]
  BY DEF Put
<1> HIDE DEF r
<1>4. r \in [1 .. n + 1 -> Timer]
  BY <1>1, <1>2, <1>3
<1>5. ASSUME NEW i \in 1 .. n + 1, NEW j \in 1 .. n + 1, r[i] = r[j]
      PROVE  i = j
  BY <1>1, <1>2, <1>5 DEF Order
<1>6. Members(n + 1, r) = Members(n, s) \cup {t}
  <2>1. ASSUME NEW i \in 1 .. n + 1
        PROVE  r[i] \in Members(n, s) \cup {t}
    BY <1>2 DEF Members
  <2>2. t \in Members(n + 1, r)
    <3>1. k + 1 \in 1 .. n + 1 /\ r[k + 1] = t
      BY <1>1, <1>2
    <3> QED
      BY <3>1 DEF Members
  <2>3. ASSUME NEW i \in 1 .. n
        PROVE  s[i] \in Members(n + 1, r)
    <3>1. CASE i <= k
      <4>1. i \in 1 .. n + 1 /\ r[i] = s[i]
        BY <1>1, <1>2, <3>1
      <4> QED
        BY <4>1 DEF Members
    <3>2. CASE i > k
      <4>1. i + 1 \in 1 .. n + 1 /\ r[i + 1] = s[i]
        BY <1>1, <1>2, <3>2
      <4> QED
        BY <4>1 DEF Members
    <3> QED
      BY <1>1, <3>1, <3>2
  <2> QED
    BY <2>1, <2>2, <2>3 DEF Members
<1> QED
  BY <1>1, <1>4, <1>5, <1>6 DEF Order, r

LEMMA PutSorted ==
  ASSUME NEW n, NEW s, Order(n, s), NEW k \in 0 .. n, NEW t \in Timer,
         NEW exp \in [Timer -> Int], Sorted(exp, n, s),
         k > 0 => exp[s[k]] <= exp[t], k < n => exp[t] <= exp[s[k + 1]]
  PROVE  Sorted(exp, n + 1, Put(n, s, k, t))
<1> DEFINE r == Put(n, s, k, t)
           x(i) == exp[s[i]]
<1>1. n \in Nat /\ s \in [1 .. n -> Timer] /\ exp[t] \in Int
  BY DEF Order
<1>2. \A i \in 1 .. n + 1 : \/ i \in 1 .. n /\ i <= k /\ r[i] = s[i]
                            \/ i = k + 1 /\ r[i] = t
                            \/ i - 1 \in 1 .. n /\ i - 1 > k /\ r[i] = s[i - 1]
  BY <1>1 DEF Put
<1>3. \A i, j \in 1 .. n : x(i) \in Int /\ (i <= j => x(i) <= x(j))
  BY <1>1 DEF Sorted
<1>4. \A i \in 1 .. n : /\ i <= k => x(i) <= exp[t]
                        /\ i > k => exp[t] <= x(i)
  <2> TAKE i \in 1 .. n
  <2>1. ASSUME i <= k PROVE x(i) <= exp[t]
    <3>1. k \in 1 .. n /\ x(i) <= x(k) /\ x(k) <= exp[t] /\ x(k) \in Int
      BY <1>1, <1>3, <2>1
    <3> QED
      BY <1>1, <1>3, <3>1
  <2>2. ASSUME i > k PROVE exp[t] <= x(i)
    <3>1. k + 1 \in 1 .. n /\ x(k + 1) <= x(i) /\ exp[t] <= x(k + 1)
      BY <1>1, <1>3, <2>2
    <3> QED
      BY <1>1, <1>3, <3>1
  <2> QED
    BY <2>1, <2>2
<1> HIDE DEF r
<1>5. ASSUME NEW i \in 1 .. n + 1, NEW j \in 1 .. n + 1, i <= j
      PROVE  exp[r[i]] <= exp[r[j]]
  <2>1. CASE i \in 1 .. n /\ i <= k /\ r[i] = s[i]
    <3>1. CASE j \in 1 .. n /\ j <= k /\ r[j] = s[j]
      BY <1>3, <1>5, <2>1, <3>1
    <3>2. CASE j = k + 1 /\ r[j] = t
      BY <1>4, <2>1, <3>2
    <3>3. CASE j - 1 \in 1 .. n /\ j - 1 > k /\ r[j] = s[j - 1]
      BY <1>3, <2>1, <3>3
    <3> QED
      BY <1>2, <3>1, <3>2, <3>3
  <2>2. CASE i = k + 1 /\ r[i] = t
    <3>1. CASE j = k + 1 /\ r[j] = t
      BY <1>1, <2>2, <3>1
    <3>2. CASE j - 1 \in 1 .. n /\ j - 1 > k /\ r[j] = s[j - 1]
      BY <1>4, <2>2, <3>2
    <3> QED
      BY <1>1, <1>2, <1>5, <2>2, <3>1, <3>2
  <2>3. CASE i - 1 \in 1 .. n /\ i - 1 > k /\ r[i] = s[i - 1]
    <3>1. j - 1 \in 1 .. n /\ j - 1 > k /\ r[j] = s[j - 1]
      BY <1>1, <1>2, <1>5, <2>3
    <3> QED
      BY <1>3, <1>5, <2>3, <3>1
  <2> QED
    BY <1>2, <2>1, <2>2, <2>3
<1> QED
  BY <1>5 DEF Sorted, r

LEMMA WithoutOrder ==
  ASSUME NEW n, NEW s, Order(n, s), NEW k \in 1 .. n
  PROVE  /\ Order(n - 1, Without(n, s, k))
         /\ Members(n - 1, Without(n, s, k)) = Members(n, s) \ {s[k]}
         /\ \A exp \in [Timer -> Int] :
               Sorted(exp, n, s) => Sorted(exp, n - 1, Without(n, s, k))
<1> DEFINE r == Without(n, s, k)
<1>1. n \in Nat /\ n - 1 \in Nat /\ s \in [1 .. n -> Timer]
  BY DEF Order
<1>2. \A i \in 1 .. n - 1 : \/ i \in 1 .. n /\ i < k /\ r[i] = s[i]
                            \/ i + 1 \in 1 .. n /\ i >= k /\ r[i] = s[i + 1]
  BY <1>1 DEF Without
<1>3. r = [i \in 1 .. n - 1 |-> r[i]]
  BY DEF Without
<1> HIDE DEF r
<1>4. r \in [1 .. n - 1 -> Timer]
  BY <1>1, <1>2, <1>3
<1>5. ASSUME NEW i \in 1 .. n - 1, NEW j \in 1 .. n - 1, r[i] = r[j]
      PROVE  i = j
  BY <1>1, <1>2, <1>5 DEF Order
<1>6. Members(n - 1, r) = Members(n, s) \ {s[k]}
  <2>1. ASSUME NEW i \in 1 .. n - 1
        PROVE  r[i] \in Members(n, s) \ {s[k]}
    BY <1>1, <1>2 DEF Members, Order
  <2>2. ASSUME NEW i \in 1 .. n, s[i] # s[k]
        PROVE  s[i] \in Members(n - 1, r)
    <3>1. CASE i < k
      <4>1. i \in 1 .. n - 1 /\ r[i] = s[i]
        BY <1>1, <1>2, <3>1
      <4> QED
        BY <4>1 DEF Members
    <3>2. CASE i > k
      <4>1. i - 1 \in 1 .. n - 1 /\ r[i - 1] = s[i]
        BY <1>1, <1>2, <3>2
      <4> QED
        BY <4>1 DEF Members
    <3> QED
      BY <1>1, <2>2, <3>1, <3>2
  <2> QED
    BY <2>1, <2>2 DEF Members
<1>7. ASSUME NEW exp \in [Timer -> Int], Sorted(exp, n, s)
      PROVE  Sorted(exp, n - 1, r)
  <2> SUFFICES ASSUME NEW i \in 1 .. n - 1, NEW j \in 1 .. n - 1, i <= j
               PROVE  exp[r[i]] <= exp[r[j]]
    BY DEF Sorted
  <2>1. \A a, b \in 1 .. n : a <= b => exp[s[a]] <= exp[s[b]]
    BY <1>7 DEF Sorted
  <2> QED
    BY <1>1, <1>2, <2>1
<1> QED
  BY <1>1, <1>4, <1>5, <1>6, <1>7 DEF Order, r

-----------------------------------------------------------------------------
(* add_timer(timer, lst_head): wherever the search starts, and whatever    *)
(* the timer's expire, it ends at the right place.                         *)
LEMMA Inserted ==
  ASSUME NEW L \in List, NEW n, NEW s, Order(n, s), Links(L, n, s),
         NEW exp \in [Timer -> Int], Sorted(exp, n, s),
         NEW t \in Timer \ Members(n, s), NEW b \in 1 .. n, exp[s[b]] <= exp[t]
  PROVE  \E k \in 1 .. n :
            /\ InsertAfter(L, exp, t, s[b]) \in List
            /\ Links(InsertAfter(L, exp, t, s[b]), n + 1, Put(n, s, k, t))
            /\ Sorted(exp, n + 1, Put(n, s, k, t))
            /\ Loose(L, Members(n, s) \cup {t}) =>
                 Loose(InsertAfter(L, exp, t, s[b]), Members(n, s) \cup {t})
<1> DEFINE w == Walk(L, s[b])
           Later(u) == u = NULL \/ exp[t] < exp[u]
           First(i) == Later(w[i]) /\ \A j \in 1 .. i - 1 : ~Later(w[j])
           i0 == CHOOSE i \in 1 .. Size : First(i)
           prev_node == w[i0 - 1]
           tmp == w[i0]
           R == [L EXCEPT !.next = [@ EXCEPT ![prev_node] = t, ![t] = tmp],
                          !.prev = [u \in Timer |-> IF u = t THEN prev_node
                                                    ELSE IF u = tmp THEN t ELSE @[u]],
                          !.tail = IF tmp = NULL THEN t ELSE @]
<1>1. InsertAfter(L, exp, t, s[b]) = R
  BY DEF InsertAfter, Steps
<1>2. /\ n \in Nat /\ Size \in Nat /\ n + 1 <= Size
      /\ s \in [1 .. n -> Timer] /\ NULL \notin Timer
      /\ \A i, j \in 1 .. n : s[i] = s[j] => i = j
      /\ \A i \in 1 .. n : s[i] # t
  BY Bounded, NullAssumption DEF Order, Members
<1>3. \A j \in 0 .. Size : w[j] = IF b + j <= n THEN s[b + j] ELSE NULL
  BY Walked
<1> HIDE DEF w
<1>4. i0 \in 1 .. Size /\ First(i0)
  <2> DEFINE S == {i \in 1 .. Size : Later(w[i])}
  <2>1. n - b + 1 \in S
    BY <1>2, <1>3
  <2>2. PICK i \in S : \A j \in S : i <= j
    <3>1. S \subseteq Nat
      OBVIOUS
    <3> HIDE DEF S
    <3> QED
      BY <2>1, <3>1, LeastNat
  <2>3. i \in 1 .. Size /\ First(i)
    BY <1>2, <2>2
  <2> HIDE DEF First
  <2> QED
    BY <2>3
<1> HIDE DEF i0
<1> DEFINE k == b + i0 - 1
<1>5. k \in 1 .. n /\ prev_node = s[k]
  <2>1. i0 - 1 \in 0 .. Size /\ b + (i0 - 1) = k /\ k >= 1
    BY <1>2, <1>4
  <2>2. CASE k > n
    <3>1. i0 - 1 \in 1 .. i0 - 1 /\ w[i0 - 1] = NULL
      BY <1>2, <1>3, <1>4, <2>1, <2>2
    <3> QED
      BY <1>4, <3>1
  <2> QED
    BY <1>2, <1>3, <2>1, <2>2
<1>6. tmp = IF k < n THEN s[k + 1] ELSE NULL
  BY <1>2, <1>3, <1>4
<1>7. exp[s[k]] <= exp[t] /\ (k < n => exp[t] <= exp[s[k + 1]])
  <2>1. exp[t] \in Int /\ \A u \in Timer : exp[u] \in Int
    OBVIOUS
  <2>2. exp[s[k]] <= exp[t]
    <3>1. CASE i0 = 1
      BY <1>2, <3>1
    <3>2. CASE i0 > 1
      <4>1. ~Later(prev_node)
        BY <1>2, <1>4, <3>2
      <4> QED
        BY <1>2, <1>5, <2>1, <4>1
    <3> QED
      BY <1>2, <1>4, <3>1, <3>2
  <2>3. ASSUME k < n
        PROVE  exp[t] <= exp[s[k + 1]]
    <3>1. tmp = s[k + 1] /\ s[k + 1] \in Timer
      BY <1>2, <1>5, <1>6, <2>3
    <3> QED
      BY <1>2, <1>4, <2>1, <3>1
  <2> QED
    BY <2>2, <2>3
<1> HIDE DEF k, tmp, prev_node
<1>8. Sorted(exp, n + 1, Put(n, s, k, t))
  BY <1>2, <1>5, <1>7, PutSorted
<1> DEFINE r == Put(n, s, k, t)
<1>9. /\ L.next \in [Timer -> Pointer] /\ L.prev \in [Timer -> Pointer]
      /\ L.head \in Pointer /\ L.tail \in Pointer /\ s[k] \in Timer
      /\ tmp \in Pointer /\ t \in Pointer /\ s[k] \in Pointer /\ s[k] # t
  BY <1>2, <1>5, <1>6 DEF List, Pointer
<1>10. /\ R.head = L.head
       /\ R.tail = IF tmp = NULL THEN t ELSE L.tail
       /\ \A u \in Timer :
            R.next[u] = IF u = t THEN tmp ELSE IF u = s[k] THEN t ELSE L.next[u]
       /\ \A u \in Timer :
            R.prev[u] = IF u = t THEN s[k] ELSE IF u = tmp THEN t ELSE L.prev[u]
  BY <1>5, <1>9 DEF List
<1>11. R \in List
  BY <1>5, <1>9 DEF List
<1> HIDE DEF R
<1>12. \A i \in 1 .. n + 1 : r[i] = IF i <= k THEN s[i]
                                    ELSE IF i = k + 1 THEN t ELSE s[i - 1]
  BY <1>2 DEF Put
<1> HIDE DEF r
<1>13. Links(R, n + 1, r)
  <2>1. R.head = r[1] /\ R.prev[r[1]] = NULL
    <3>1. r[1] = s[1] /\ L.head = s[1] /\ L.prev[s[1]] = NULL /\ s[1] # t
          /\ 1 \in 1 .. n
      BY <1>2, <1>5, <1>12 DEF Links
    <3>2. s[1] # tmp
      BY <1>2, <1>5, <1>6, <3>1
    <3> QED
      BY <1>2, <1>10, <3>1, <3>2
  <2>2. R.tail = r[n + 1] /\ R.next[r[n + 1]] = NULL
    <3>1. CASE k = n
      <4>1. r[n + 1] = t /\ tmp = NULL
        BY <1>2, <1>6, <1>12, <3>1
      <4> QED
        BY <1>10, <4>1
    <3>2. CASE k < n
      <4>1. r[n + 1] = s[n] /\ tmp \in Timer /\ n \in 1 .. n /\ s[n] # s[k]
        BY <1>2, <1>5, <1>6, <1>12, <3>2
      <4>2. L.tail = s[n] /\ L.next[s[n]] = NULL
        BY <1>2, <1>5 DEF Links
      <4> QED
        BY <1>2, <1>10, <4>1, <4>2
    <3> QED
      BY <1>2, <1>5, <3>1, <3>2
  <2>3. ASSUME NEW i \in 1 .. n
        PROVE  R.next[r[i]] = r[i + 1] /\ R.prev[r[i + 1]] = r[i]
    <3>1. CASE i < k
      <4>1. /\ r[i] = s[i] /\ r[i + 1] = s[i + 1] /\ i \in 1 .. n - 1
            /\ i + 1 \in 1 .. n /\ s[i] # s[k] /\ s[i] # t /\ s[i + 1] # t
        BY <1>2, <1>5, <1>12, <3>1
      <4>2. s[i + 1] # tmp
        BY <1>2, <1>5, <1>6, <3>1, <4>1
      <4>3. L.next[s[i]] = s[i + 1] /\ L.prev[s[i + 1]] = s[i]
        BY <4>1 DEF Links
      <4> QED
        BY <1>2, <1>10, <4>1, <4>2, <4>3
    <3>2. CASE i = k
      BY <1>2, <1>5, <1>9, <1>10, <1>12, <3>2
    <3>3. CASE i = k + 1
      <4>1. r[i] = t /\ r[i + 1] = s[i] /\ tmp = s[i] /\ s[i] \in Timer /\ s[i] # t
        BY <1>2, <1>5, <1>6, <1>12, <3>3
      <4> QED
        BY <1>10, <4>1
    <3>4. CASE i > k + 1
      <4>1. /\ r[i] = s[i - 1] /\ r[i + 1] = s[i] /\ i - 1 \in 1 .. n - 1
            /\ s[i - 1] # s[k] /\ s[i - 1] # t /\ s[i] # t
        BY <1>2, <1>5, <1>12, <3>4
      <4>2. s[i] # tmp
        BY <1>2, <1>5, <1>6, <3>4
      <4>3. L.next[s[i - 1]] = s[(i - 1) + 1] /\ L.prev[s[(i - 1) + 1]] = s[i - 1]
            /\ (i - 1) + 1 = i
        BY <4>1 DEF Links
      <4> QED
        BY <1>2, <1>10, <4>1, <4>2, <4>3
    <3> QED
      BY <1>2, <1>5, <3>1, <3>2, <3>3, <3>4
  <2> QED
    BY <1>2, <2>1, <2>2, <2>3 DEF Links
<1>14. ASSUME Loose(L, Members(n, s) \cup {t})
       PROVE  Loose(R, Members(n, s) \cup {t})
  <2> SUFFICES ASSUME NEW u \in Timer, u # t, u \notin Members(n, s)
               PROVE  R.next[u] = NULL /\ R.prev[u] = NULL
    BY DEF Loose
  <2>1. L.next[u] = NULL /\ L.prev[u] = NULL
    BY <1>14 DEF Loose
  <2>2. u # s[k] /\ u # tmp
    BY <1>2, <1>5, <1>6 DEF Members
  <2> QED
    BY <1>10, <2>1, <2>2
<1> QED
  BY <1>1, <1>5, <1>8, <1>11, <1>13, <1>14 DEF r

(* What stands next to place k.                                            *)
LEMMA Neighbours ==
  ASSUME NEW L \in List, NEW n, NEW s, Order(n, s), Links(L, n, s), NEW k \in 1 .. n
  PROVE  /\ L.next[s[k]] = IF k < n THEN s[k + 1] ELSE NULL
         /\ L.prev[s[k]] = IF k > 1 THEN s[k - 1] ELSE NULL
<1>1. n \in Nat /\ n > 0
  BY DEF Order
<1>2. L.next[s[k]] = IF k < n THEN s[k + 1] ELSE NULL
  <2>1. CASE k = n
    BY <1>1, <2>1 DEF Links
  <2>2. CASE k < n
    BY <1>1, <2>2 DEF Links
  <2> QED
    BY <1>1, <2>1, <2>2
<1>3. L.prev[s[k]] = IF k > 1 THEN s[k - 1] ELSE NULL
  <2>1. CASE k = 1
    BY <1>1, <2>1 DEF Links
  <2>2. CASE k > 1
    <3>1. k - 1 \in 1 .. n - 1 /\ (k - 1) + 1 = k
      BY <1>1, <2>2
    <3>2. L.prev[s[(k - 1) + 1]] = s[k - 1]
      BY <3>1 DEF Links
    <3> QED
      BY <2>2, <3>1, <3>2
  <2> QED
    BY <1>1, <2>1, <2>2
<1> QED
  BY <1>2, <1>3

(* The node at place k is taken out: its neighbours are linked.            *)
LEMMA Unlinked ==
  ASSUME NEW L \in List, NEW n, NEW s, Order(n, s), Links(L, n, s), NEW k \in 1 .. n,
         NEW M \in List,
         M.head = IF k = 1 THEN L.next[s[k]] ELSE L.head,
         n > 1 => M.tail = IF k = n THEN L.prev[s[k]] ELSE L.tail,
         \A u \in Timer \ {s[k]} :
            M.next[u] = IF u = L.prev[s[k]] THEN L.next[s[k]] ELSE L.next[u],
         \A u \in Timer \ {s[k]} :
            M.prev[u] = IF u = L.next[s[k]] THEN L.prev[s[k]] ELSE L.prev[u]
  PROVE  Links(M, n - 1, Without(n, s, k))
<1> DEFINE r == Without(n, s, k)
           nxt == L.next[s[k]]
           prv == L.prev[s[k]]
<1>1. /\ n \in Nat /\ s \in [1 .. n -> Timer] /\ NULL \notin Timer
      /\ \A i, j \in 1 .. n : s[i] = s[j] => i = j
  BY NullAssumption DEF Order
<1>2. /\ nxt = IF k < n THEN s[k + 1] ELSE NULL
      /\ prv = IF k > 1 THEN s[k - 1] ELSE NULL
  BY Neighbours
<1>3. \A i \in 1 .. n - 1 : r[i] = IF i < k THEN s[i] ELSE s[i + 1]
  BY <1>1 DEF Without
<1> HIDE DEF r, nxt, prv
<1>4. M.head = IF n - 1 = 0 THEN NULL ELSE r[1]
  BY <1>1, <1>2, <1>3 DEF Links, nxt
<1>5. ASSUME n - 1 > 0
      PROVE  M.tail = r[n - 1] /\ M.next[r[n - 1]] = NULL /\ M.prev[r[1]] = NULL
  <2>1. M.tail = r[n - 1]
    <3>1. M.tail = IF k = n THEN prv ELSE s[n]
      BY <1>1, <1>5 DEF Links, prv
    <3> QED
      BY <1>1, <1>2, <1>3, <1>5, <3>1
  <2>2. M.next[r[n - 1]] = NULL
    <3>1. CASE k = n
      <4>1. r[n - 1] = s[n - 1] /\ prv = s[n - 1] /\ nxt = NULL /\ s[n - 1] # s[n]
            /\ s[n - 1] \in Timer
        BY <1>1, <1>2, <1>3, <1>5, <3>1
      <4> QED
        BY <3>1, <4>1 DEF prv, nxt
    <3>2. CASE k < n
      <4>1. r[n - 1] = s[n] /\ s[n] # s[k] /\ s[n] \in Timer /\ prv # s[n]
        BY <1>1, <1>2, <1>3, <1>5, <3>2
      <4>2. L.next[s[n]] = NULL
        BY <1>1, <1>5 DEF Links
      <4> QED
        BY <4>1, <4>2 DEF prv
    <3> QED
      BY <1>1, <3>1, <3>2
  <2>3. M.prev[r[1]] = NULL
    <3>1. CASE k = 1
      <4>1. r[1] = s[2] /\ nxt = s[2] /\ prv = NULL /\ s[2] # s[1] /\ s[2] \in Timer
        BY <1>1, <1>2, <1>3, <1>5, <3>1
      <4> QED
        BY <3>1, <4>1 DEF prv, nxt
    <3>2. CASE k > 1
      <4>1. r[1] = s[1] /\ s[1] # s[k] /\ s[1] \in Timer /\ nxt # s[1]
        BY <1>1, <1>2, <1>3, <1>5, <3>2
      <4>2. L.prev[s[1]] = NULL
        BY <1>1, <1>5 DEF Links
      <4> QED
        BY <4>1, <4>2 DEF nxt
    <3> QED
      BY <1>1, <3>1, <3>2
  <2> QED
    BY <2>1, <2>2, <2>3
<1>6. ASSUME NEW i \in 1 .. n - 1 - 1
      PROVE  M.next[r[i]] = r[i + 1] /\ M.prev[r[i + 1]] = r[i]
  <2>1. CASE i + 1 < k
    <3>1. /\ r[i] = s[i] /\ r[i + 1] = s[i + 1] /\ i \in 1 .. n - 1
          /\ s[i] # s[k] /\ s[i + 1] # s[k] /\ s[i] # prv /\ s[i + 1] # nxt
          /\ s[i] \in Timer /\ s[i + 1] \in Timer
      BY <1>1, <1>2, <1>3, <2>1
    <3>2. L.next[s[i]] = s[i + 1] /\ L.prev[s[i + 1]] = s[i]
      BY <3>1 DEF Links
    <3> QED
      BY <3>1, <3>2 DEF prv, nxt
  <2>2. CASE i + 1 = k
    <3>1. /\ r[i] = s[i] /\ r[i + 1] = s[k + 1] /\ prv = s[i] /\ nxt = s[k + 1]
          /\ s[i] # s[k] /\ s[k + 1] # s[k] /\ s[i] \in Timer /\ s[k + 1] \in Timer
      BY <1>1, <1>2, <1>3, <2>2
    <3> QED
      BY <3>1 DEF prv, nxt
  <2>3. CASE i + 1 > k
    <3>1. /\ r[i] = s[i + 1] /\ r[i + 1] = s[i + 2] /\ i + 1 \in 1 .. n - 1
          /\ s[i + 1] # s[k] /\ s[i + 2] # s[k] /\ s[i + 1] # prv /\ s[i + 2] # nxt
          /\ s[i + 1] \in Timer /\ s[i + 2] \in Timer /\ (i + 1) + 1 = i + 2
      BY <1>1, <1>2, <1>3, <2>3
    <3>2. L.next[s[i + 1]] = s[i + 2] /\ L.prev[s[i + 2]] = s[i + 1]
      BY <3>1 DEF Links
    <3> QED
      BY <3>1, <3>2 DEF prv, nxt
  <2> QED
    BY <1>1, <2>1, <2>2, <2>3
<1> QED
  BY <1>4, <1>5, <1>6 DEF Links, r

-----------------------------------------------------------------------------
(* L holds the timers of H, sorted, and nothing else points anywhere.      *)
Lists(L, exp, H, n, s) ==
    Order(n, s) /\ Links(L, n, s) /\ Sorted(exp, n, s) /\ Members(n, s) = H

Holds(L, exp, H) == /\ L \in List /\ Loose(L, H)
                    /\ \E n, s : Lists(L, exp, H, n, s)

(* A timer outside the list may be given any expire.                       *)
LEMMA HoldsSame ==
  ASSUME NEW L, NEW H, NEW old, NEW exp, Holds(L, old, H),
         \A u \in H : exp[u] = old[u]
  PROVE  Holds(L, exp, H)
<1>1. PICK n, s : Lists(L, old, H, n, s)
  BY DEF Holds
<1>2. Lists(L, exp, H, n, s)
  BY <1>1 DEF Lists, Sorted, Members
<1> QED
  BY <1>2 DEF Holds

(* add_timer(timer), whatever the timer's expire.                          *)
LEMMA Added ==
  ASSUME NEW L, NEW H, NEW exp \in [Timer -> Int], Holds(L, exp, H),
         NEW t \in Timer \ H
  PROVE  Holds(AddTimer(L, exp, t), exp, H \cup {t})
<1> DEFINE M == AddTimer(L, exp, t)
<1>1. L \in List /\ Loose(L, H)
  BY DEF Holds
<1>2. PICK n, s : Lists(L, exp, H, n, s)
  BY DEF Holds
<1>3. /\ Order(n, s) /\ Links(L, n, s) /\ Sorted(exp, n, s) /\ Members(n, s) = H
      /\ n \in Nat /\ s \in [1 .. n -> Timer] /\ t \in Timer \ Members(n, s)
      /\ NULL \notin Timer
  BY <1>2, NullAssumption DEF Lists, Order
<1>4. L.next[t] = NULL /\ L.prev[t] = NULL
  BY <1>1 DEF Loose
<1>5. SUFFICES \E k \in 0 .. n : /\ M \in List /\ Links(M, n + 1, Put(n, s, k, t))
                               /\ Sorted(exp, n + 1, Put(n, s, k, t))
                               /\ Loose(M, H \cup {t})
  <2> HIDE DEF M
  <2> SUFFICES ASSUME NEW k \in 0 .. n,
                      M \in List, Links(M, n + 1, Put(n, s, k, t)),
                      Sorted(exp, n + 1, Put(n, s, k, t)), Loose(M, H \cup {t})
               PROVE  Holds(M, exp, H \cup {t})
    BY DEF M
  <2>1. Lists(M, exp, H \cup {t}, n + 1, Put(n, s, k, t))
    BY <1>3, PutOrder DEF Lists
  <2> QED
    BY <2>1 DEF Holds
<1>6. CASE L.head = NULL
  <2>1. n = 0
    BY <1>3, <1>6 DEF Links
  <2>2. M = [L EXCEPT !.head = t, !.tail = t]
    BY <1>6 DEF AddTimer
  <2>3. /\ M \in List /\ M.head = t /\ M.tail = t
        /\ M.next = L.next /\ M.prev = L.prev
    BY <1>1, <2>2 DEF List, Pointer
  <2>4. Put(n, s, 0, t)[1] = t
    BY <2>1 DEF Put
  <2> HIDE DEF M
  <2>5. Links(M, n + 1, Put(n, s, 0, t))
    BY <1>4, <2>1, <2>3, <2>4 DEF Links
  <2>6. Sorted(exp, n + 1, Put(n, s, 0, t))
    BY <1>3, <2>1, PutSorted
  <2>7. Loose(M, H \cup {t})
    BY <1>1, <2>3 DEF Loose
  <2> QED
    BY <1>3, <2>3, <2>5, <2>6, <2>7
<1>7. CASE L.head # NULL /\ exp[t] < exp[L.head]
  <2>1. n > 0 /\ L.head = s[1] /\ s[1] \in Timer /\ s[1] # t
    BY <1>3, <1>7 DEF Links, Members
  <2>2. M = [L EXCEPT !.next[t] = L.head, !.prev[L.head] = t, !.head = t]
    BY <1>7 DEF AddTimer
  <2>3. /\ M \in List /\ M.head = t /\ M.tail = L.tail
        /\ \A u \in Timer : M.next[u] = IF u = t THEN s[1] ELSE L.next[u]
        /\ \A u \in Timer : M.prev[u] = IF u = s[1] THEN t ELSE L.prev[u]
    <3>1. L = [head |-> L.head, tail |-> L.tail, next |-> L.next, prev |-> L.prev]
      BY <1>1 DEF List
    <3>2. M = [head |-> t, tail |-> L.tail, next |-> [L.next EXCEPT ![t] = s[1]],
               prev |-> [L.prev EXCEPT ![s[1]] = t]]
      BY <2>1, <2>2, <3>1
    <3> QED
      BY <1>1, <2>1, <3>2 DEF List, Pointer
  <2> DEFINE r == Put(n, s, 0, t)
  <2>4. \A i \in 1 .. n + 1 : r[i] = IF i = 1 THEN t ELSE s[i - 1]
    BY <1>3 DEF Put
  <2> HIDE DEF M, r
  <2>5. /\ \A i \in 1 .. n : s[i] # t /\ s[i] \in Timer
        /\ \A i, j \in 1 .. n : s[i] = s[j] => i = j
    BY <1>3 DEF Members, Order
  <2>6. Links(M, n + 1, r)
    <3>1. M.tail = r[n + 1] /\ M.next[r[n + 1]] = NULL /\ M.prev[r[1]] = NULL
      <4>1. L.tail = s[n] /\ L.next[s[n]] = NULL /\ r[n + 1] = s[n] /\ r[1] = t
        <5>1. 1 \in 1 .. n + 1 /\ n + 1 \in 1 .. n + 1 /\ n + 1 # 1 /\ (n + 1) - 1 = n
          BY <1>3, <2>1
        <5> QED
          BY <1>3, <2>1, <2>4, <5>1 DEF Links
      <4> QED
        BY <1>3, <1>4, <2>1, <2>3, <2>5, <4>1
    <3>2. ASSUME NEW i \in 1 .. n
          PROVE  M.next[r[i]] = r[i + 1] /\ M.prev[r[i + 1]] = r[i]
      <4>1. CASE i = 1
        BY <1>3, <2>1, <2>3, <2>4, <4>1
      <4>2. CASE i > 1
        <5>1. i - 1 \in 1 .. n - 1 /\ (i - 1) + 1 = i /\ r[i] = s[i - 1] /\ r[i + 1] = s[i]
              /\ s[i] # s[1] /\ s[i - 1] # t /\ s[i] # t
              /\ s[i - 1] \in Timer /\ s[i] \in Timer
          BY <1>3, <2>4, <2>5, <4>2
        <5>2. L.next[s[i - 1]] = s[(i - 1) + 1] /\ L.prev[s[(i - 1) + 1]] = s[i - 1]
          BY <1>3, <5>1 DEF Links
        <5> QED
          BY <2>3, <2>5, <5>1, <5>2
      <4> QED
        BY <4>1, <4>2
    <3>3. M.head = r[1]
      BY <1>3, <2>3, <2>4
    <3> QED
      BY <1>3, <3>1, <3>2, <3>3 DEF Links
  <2>7. Sorted(exp, n + 1, r)
    BY <1>3, <1>7, <2>1, PutSorted DEF r
  <2>8. Loose(M, H \cup {t})
    <3>1. s[1] \in H
      BY <1>3, <2>1 DEF Members
    <3> QED
      BY <1>1, <2>3, <3>1 DEF Loose
  <2> QED
    BY <1>3, <2>3, <2>6, <2>7, <2>8 DEF r
<1>8. CASE L.head # NULL /\ ~(exp[t] < exp[L.head])
  <2>1. L.head = s[1] /\ 1 \in 1 .. n /\ exp[s[1]] <= exp[t]
    <3>1. L.head = s[1] /\ 1 \in 1 .. n /\ s[1] \in Timer
      BY <1>3, <1>8 DEF Links
    <3> QED
      BY <1>8, <3>1
  <2>2. M = InsertAfter(L, exp, t, s[1])
    BY <1>8, <2>1 DEF AddTimer
  <2>3. Loose(L, H \cup {t})
    BY <1>1 DEF Loose
  <2> HIDE DEF M
  <2>4. PICK k \in 1 .. n : /\ M \in List /\ Links(M, n + 1, Put(n, s, k, t))
                           /\ Sorted(exp, n + 1, Put(n, s, k, t))
                           /\ Loose(M, H \cup {t})
    BY <1>1, <1>3, <2>1, <2>2, <2>3, Inserted
  <2> QED
    BY <2>4
<1> QED
  BY <1>6, <1>7, <1>8

(* adjust_timer(timer), for any later expire.                              *)
LEMMA Adjusted ==
  ASSUME NEW L, NEW H, NEW old \in [Timer -> Int], Holds(L, old, H),
         NEW t \in H, NEW exp \in [Timer -> Int],
         \A u \in Timer \ {t} : exp[u] = old[u], old[t] <= exp[t]
  PROVE  Holds(AdjustTimer(L, exp, t), exp, H)
<1> DEFINE tmp == L.next[t]
           p == L.prev[t]
           A == AdjustTimer(L, exp, t)
<1>1. L \in List /\ Loose(L, H)
  BY DEF Holds
<1>2. PICK n, s : Lists(L, old, H, n, s)
  BY DEF Holds
<1>3. /\ Order(n, s) /\ Links(L, n, s) /\ Sorted(old, n, s) /\ Members(n, s) = H
      /\ n \in Nat /\ s \in [1 .. n -> Timer] /\ NULL \notin Timer
      /\ \A i, j \in 1 .. n : s[i] = s[j] => i = j
  BY <1>2, NullAssumption DEF Lists, Order
<1>4. PICK k \in 1 .. n : t = s[k]
  BY <1>3 DEF Members
<1>5. /\ t \in Timer /\ L.next \in [Timer -> Pointer] /\ L.prev \in [Timer -> Pointer]
      /\ L.head = s[1] /\ s[1] \in Timer
      /\ tmp = IF k < n THEN s[k + 1] ELSE NULL
      /\ p = IF k > 1 THEN s[k - 1] ELSE NULL
  BY <1>1, <1>3, <1>4, Neighbours DEF List, Links
<1>6. \A i, j \in 1 .. n : i <= j => old[s[i]] <= old[s[j]]
  BY <1>3 DEF Sorted
<1>7. \A i \in 1 .. n : i # k => exp[s[i]] = old[s[i]] /\ s[i] # t
  BY <1>3, <1>4
<1>8. CASE tmp = NULL \/ (k < n /\ exp[t] < exp[tmp])
  <2>1. A = L
    BY <1>8 DEF AdjustTimer
  <2>2. Sorted(exp, n, s)
    <3> SUFFICES ASSUME NEW i \in 1 .. n, NEW j \in 1 .. n, i <= j
                 PROVE  exp[s[i]] <= exp[s[j]]
      BY DEF Sorted
    <3>1. CASE i # k /\ j # k
      BY <1>6, <1>7, <3>1
    <3>2. CASE i = k /\ j = k
      BY <1>5, <1>4, <3>2
    <3>3. CASE j = k /\ i # k
      <4>1. exp[s[i]] = old[s[i]] /\ old[s[i]] <= old[t] /\ s[i] \in Timer
        BY <1>3, <1>4, <1>6, <1>7, <3>3
      <4> QED
        BY <1>4, <1>5, <3>3, <4>1
    <3>4. CASE i = k /\ j # k
      <4>1. k < n /\ tmp = s[k + 1] /\ k + 1 \in 1 .. n /\ k + 1 <= j
        BY <1>3, <1>5, <3>4
      <4>2. exp[t] < exp[tmp]
        BY <1>3, <1>8, <4>1
      <4>3. exp[tmp] = old[tmp] /\ exp[s[j]] = old[s[j]] /\ old[tmp] <= old[s[j]]
            /\ tmp \in Timer /\ s[j] \in Timer
        BY <1>3, <1>6, <1>7, <3>4, <4>1
      <4> QED
        BY <1>4, <1>5, <3>4, <4>2, <4>3
    <3> QED
      BY <3>1, <3>2, <3>3, <3>4
  <2>3. Lists(L, exp, H, n, s)
    BY <1>3, <2>2 DEF Lists
  <2> QED
    BY <1>1, <2>1, <2>3 DEF Holds
<1>9. CASE tmp # NULL /\ ~(exp[t] < exp[tmp])
  <2> DEFINE M == IF t = L.head
                  THEN [L EXCEPT !.head = tmp, !.prev[tmp] = NULL, !.next[t] = NULL]
                  ELSE [L EXCEPT !.next[p] = tmp, !.prev[tmp] = p]
             r == Without(n, s, k)
  <2>1. k < n /\ tmp = s[k + 1] /\ tmp \in Timer /\ tmp # t /\ exp[tmp] <= exp[t]
        /\ n > 1 /\ k + 1 \in 1 .. n
    BY <1>3, <1>4, <1>5, <1>9
  <2>2. A = InsertAfter(M, exp, t, tmp)
    BY <1>9 DEF AdjustTimer
  <2>3. t = L.head <=> k = 1
    BY <1>3, <1>4, <1>5
  <2>4. /\ M \in List /\ M.tail = L.tail
        /\ M.head = IF k = 1 THEN tmp ELSE L.head
        /\ \A u \in Timer \ {t} : M.next[u] = IF u = p THEN tmp ELSE L.next[u]
        /\ \A u \in Timer \ {t} : M.prev[u] = IF u = tmp THEN p ELSE L.prev[u]
    <3>1. L = [head |-> L.head, tail |-> L.tail, next |-> L.next, prev |-> L.prev]
      BY <1>1 DEF List
    <3>2. CASE k = 1
      <4>1. M = [head |-> tmp, tail |-> L.tail, next |-> [L.next EXCEPT ![t] = NULL],
                 prev |-> [L.prev EXCEPT ![tmp] = NULL]]
        BY <2>3, <3>1, <3>2
      <4> HIDE DEF M
      <4> QED
        BY <1>1, <1>3, <1>5, <2>1, <3>2, <4>1 DEF List, Pointer
    <3>3. CASE k > 1
      <4>1. M = [head |-> L.head, tail |-> L.tail, next |-> [L.next EXCEPT ![p] = tmp],
                 prev |-> [L.prev EXCEPT ![tmp] = p]]
        <5>1. M = [L EXCEPT !.next[p] = tmp, !.prev[tmp] = p]
          BY <1>3, <2>3, <3>3
        <5> HIDE DEF M, p, tmp
        <5> QED
          BY <1>1, <5>1 DEF List
      <4>2. p \in Timer
        BY <1>3, <1>5, <3>3
      <4> HIDE DEF M
      <4> QED
        BY <1>1, <1>3, <1>5, <2>1, <3>3, <4>1, <4>2 DEF List, Pointer
    <3> QED
      BY <1>3, <3>2, <3>3
  <2> HIDE DEF M, r
  <2>5. Order(n - 1, r) /\ Members(n - 1, r) = H \ {t} /\ Sorted(old, n - 1, r)
    BY <1>3, <1>4, WithoutOrder DEF r
  <2>6. Links(M, n - 1, r)
    <3>1. /\ M.head = IF k = 1 THEN L.next[s[k]] ELSE L.head
          /\ n > 1 => M.tail = IF k = n THEN L.prev[s[k]] ELSE L.tail
          /\ \A u \in Timer \ {s[k]} :
               M.next[u] = IF u = L.prev[s[k]] THEN L.next[s[k]] ELSE L.next[u]
          /\ \A u \in Timer \ {s[k]} :
               M.prev[u] = IF u = L.next[s[k]] THEN L.prev[s[k]] ELSE L.prev[u]
      BY <1>4, <2>1, <2>4
    <3> QED
      BY <1>1, <1>3, <2>4, <3>1, Unlinked DEF r
  <2>7. Sorted(exp, n - 1, r)
    <3>1. \A i \in 1 .. n - 1 : r[i] \in Timer \ {t}
      BY <2>5 DEF Members, Order
    <3> QED
      BY <2>5, <3>1 DEF Sorted
  <2>8. k \in 1 .. n - 1 /\ r[k] = tmp
    BY <1>3, <2>1 DEF Without, r
  <2>9. Loose(M, (H \ {t}) \cup {t})
    <3> SUFFICES ASSUME NEW u \in Timer \ H
                 PROVE  M.next[u] = NULL /\ M.prev[u] = NULL
      BY DEF Loose
    <3>1. u # t /\ u # tmp /\ u # p /\ L.next[u] = NULL /\ L.prev[u] = NULL
      BY <1>1, <1>3, <1>5, <2>1 DEF Loose, Members
    <3> QED
      BY <2>4, <3>1
  <2>10. t \in Timer \ Members(n - 1, r) /\ Members(n - 1, r) \cup {t} = H
         /\ (H \ {t}) \cup {t} = H
    BY <1>5, <2>5
  <2>11. PICK m \in 1 .. n - 1 :
            /\ InsertAfter(M, exp, t, r[k]) \in List
            /\ Links(InsertAfter(M, exp, t, r[k]), (n - 1) + 1, Put(n - 1, r, m, t))
            /\ Sorted(exp, (n - 1) + 1, Put(n - 1, r, m, t))
            /\ Loose(M, Members(n - 1, r) \cup {t}) =>
                 Loose(InsertAfter(M, exp, t, r[k]), Members(n - 1, r) \cup {t})
    BY <2>1, <2>4, <2>5, <2>6, <2>7, <2>8, <2>10, Inserted
  <2> HIDE DEF A
  <2>12. /\ A \in List /\ Links(A, (n - 1) + 1, Put(n - 1, r, m, t))
         /\ Sorted(exp, (n - 1) + 1, Put(n - 1, r, m, t)) /\ Loose(A, H)
    BY <2>2, <2>8, <2>9, <2>10, <2>11
  <2>13. /\ Order((n - 1) + 1, Put(n - 1, r, m, t))
         /\ Members((n - 1) + 1, Put(n - 1, r, m, t)) = H
    <3>1. m \in 0 .. n - 1
      OBVIOUS
    <3> QED
      BY <2>5, <2>10, <3>1, PutOrder
  <2>14. Lists(A, exp, H, (n - 1) + 1, Put(n - 1, r, m, t))
    BY <2>12, <2>13 DEF Lists
  <2>15. Holds(A, exp, H)
    BY <2>12, <2>14 DEF Holds
  <2> QED
    BY <2>15 DEF A
<1> QED
  BY <1>3, <1>5, <1>8, <1>9

(* del_timer(timer)                                                        *)
LEMMA Deleted ==
  ASSUME NEW L, NEW H, NEW old \in [Timer -> Int], Holds(L, old, H),
         NEW t \in H, NEW exp \in [Timer -> Int],
         \A u \in Timer \ {t} : exp[u] = old[u]
  PROVE  Holds(DelTimer(L, t), exp, H \ {t})
<1> DEFINE nxt == L.next[t]
           p == L.prev[t]
           M == IF t = L.head /\ t = L.tail
                THEN [L EXCEPT !.head = NULL, !.tail = NULL]
                ELSE IF t = L.head THEN [L EXCEPT !.head = nxt, !.prev[nxt] = NULL]
                ELSE IF t = L.tail THEN [L EXCEPT !.tail = p, !.next[p] = NULL]
                ELSE [L EXCEPT !.next[p] = nxt, !.prev[nxt] = p]
           F == Freed(M, {t})
<1>1. L \in List /\ Loose(L, H)
  BY DEF Holds
<1>2. PICK n, s : Lists(L, old, H, n, s)
  BY DEF Holds
<1>3. /\ Order(n, s) /\ Links(L, n, s) /\ Sorted(old, n, s) /\ Members(n, s) = H
      /\ n \in Nat /\ s \in [1 .. n -> Timer] /\ NULL \notin Timer
      /\ \A i, j \in 1 .. n : s[i] = s[j] => i = j
  BY <1>2, NullAssumption DEF Lists, Order
<1>4. PICK k \in 1 .. n : t = s[k]
  BY <1>3 DEF Members
<1>5. /\ t \in Timer /\ L.next \in [Timer -> Pointer] /\ L.prev \in [Timer -> Pointer]
      /\ L.head = s[1] /\ L.tail = s[n] /\ s[1] \in Timer /\ s[n] \in Timer
      /\ nxt = IF k < n THEN s[k + 1] ELSE NULL
      /\ p = IF k > 1 THEN s[k - 1] ELSE NULL
      /\ (t = L.head <=> k = 1) /\ (t = L.tail <=> k = n)
  BY <1>1, <1>3, <1>4, Neighbours DEF List, Links
<1>6. DelTimer(L, t) = F
  BY DEF DelTimer
<1>7. L = [head |-> L.head, tail |-> L.tail, next |-> L.next, prev |-> L.prev]
  BY <1>1 DEF List
<1>8. /\ M \in List
      /\ M.head = IF k = 1 THEN nxt ELSE L.head
      /\ n > 1 => M.tail = IF k = n THEN p ELSE L.tail
      /\ \A u \in Timer \ {t} : M.next[u] = IF u = p THEN nxt ELSE L.next[u]
      /\ \A u \in Timer \ {t} : M.prev[u] = IF u = nxt THEN p ELSE L.prev[u]
  <2>1. CASE k = 1 /\ k = n
    <3>1. M = [head |-> NULL, tail |-> NULL, next |-> L.next, prev |-> L.prev]
      BY <1>5, <1>7, <2>1
    <3> HIDE DEF M
    <3> QED
      BY <1>3, <1>5, <2>1, <3>1 DEF List, Pointer
  <2>2. CASE k = 1 /\ k < n
    <3>1. M = [head |-> nxt, tail |-> L.tail, next |-> L.next,
               prev |-> [L.prev EXCEPT ![nxt] = NULL]]
      <4>1. M = [L EXCEPT !.head = nxt, !.prev[nxt] = NULL]
        BY <1>3, <1>5, <2>2
      <4> HIDE DEF M, p, nxt
      <4> QED
        BY <1>1, <4>1 DEF List
    <3>2. nxt \in Timer
      BY <1>3, <1>5, <2>2
    <3> HIDE DEF M
    <3> QED
      BY <1>1, <1>3, <1>5, <2>2, <3>1, <3>2 DEF List, Pointer
  <2>3. CASE k > 1 /\ k = n
    <3>1. M = [head |-> L.head, tail |-> p, next |-> [L.next EXCEPT ![p] = NULL],
               prev |-> L.prev]
      <4>1. M = [L EXCEPT !.tail = p, !.next[p] = NULL]
        BY <1>3, <1>5, <2>3
      <4> HIDE DEF M, p, nxt
      <4> QED
        BY <1>1, <4>1 DEF List
    <3>2. p \in Timer
      BY <1>3, <1>5, <2>3
    <3> HIDE DEF M
    <3> QED
      BY <1>1, <1>3, <1>5, <2>3, <3>1, <3>2 DEF List, Pointer
  <2>4. CASE k > 1 /\ k < n
    <3>1. M = [head |-> L.head, tail |-> L.tail, next |-> [L.next EXCEPT ![p] = nxt],
               prev |-> [L.prev EXCEPT ![nxt] = p]]
      <4>1. M = [L EXCEPT !.next[p] = nxt, !.prev[nxt] = p]
        BY <1>3, <1>5, <2>4
      <4> HIDE DEF M, p, nxt
      <4> QED
        BY <1>1, <4>1 DEF List
    <3>2. p \in Timer /\ nxt \in Timer
      BY <1>3, <1>5, <2>4
    <3> HIDE DEF M
    <3> QED
      BY <1>1, <1>3, <1>5, <2>4, <3>1, <3>2 DEF List, Pointer
  <2> QED
    BY <1>3, <2>1, <2>2, <2>3, <2>4
<1> HIDE DEF M
<1>9. /\ F \in List /\ F.head = M.head /\ F.tail = M.tail
      /\ \A u \in Timer : F.next[u] = IF u = t THEN NULL ELSE M.next[u]
      /\ \A u \in Timer : F.prev[u] = IF u = t THEN NULL ELSE M.prev[u]
  BY <1>8 DEF Freed, List, Pointer
<1> HIDE DEF F
<1> DEFINE r == Without(n, s, k)
<1>10. Order(n - 1, r) /\ Members(n - 1, r) = H \ {t} /\ Sorted(old, n - 1, r)
  BY <1>3, <1>4, WithoutOrder
<1>11. Links(F, n - 1, r)
  <2>1. /\ F.head = IF k = 1 THEN L.next[s[k]] ELSE L.head
        /\ n > 1 => F.tail = IF k = n THEN L.prev[s[k]] ELSE L.tail
        /\ \A u \in Timer \ {s[k]} :
             F.next[u] = IF u = L.prev[s[k]] THEN L.next[s[k]] ELSE L.next[u]
        /\ \A u \in Timer \ {s[k]} :
             F.prev[u] = IF u = L.next[s[k]] THEN L.prev[s[k]] ELSE L.prev[u]
    BY <1>4, <1>8, <1>9
  <2> QED
    BY <1>1, <1>3, <1>9, <2>1, Unlinked
<1> HIDE DEF r
<1>12. Sorted(exp, n - 1, r)
  <2>1. \A i \in 1 .. n - 1 : r[i] \in Timer \ {t}
    BY <1>10 DEF Members, Order
  <2> QED
    BY <1>10, <2>1 DEF Sorted
<1>13. Loose(F, H \ {t})
  <2> SUFFICES ASSUME NEW u \in Timer, u \notin H \ {t}
               PROVE  F.next[u] = NULL /\ F.prev[u] = NULL
    BY DEF Loose
  <2>1. CASE u = t
    BY <1>9, <2>1
  <2>2. CASE u # t
    <3>1. u # nxt /\ u # p /\ L.next[u] = NULL /\ L.prev[u] = NULL
      BY <1>1, <1>3, <1>5, <2>2 DEF Loose, Members
    <3> QED
      BY <1>8, <1>9, <2>2, <3>1
  <2> QED
    BY <2>1, <2>2
<1>14. Lists(F, exp, H \ {t}, n - 1, r)
  BY <1>10, <1>11, <1>12 DEF Lists
<1> QED
  BY <1>6, <1>9, <1>13, <1>14 DEF Holds

(* tick(): what expires is what is due, and the rest stays in order.       *)
LEMMA Ticked ==
  ASSUME NEW L, NEW H, NEW old \in [Timer -> Int], Holds(L, old, H),
         NEW time \in Int, NEW exp \in [Timer -> Int],
         \A u \in Timer \ Expired(L, old, time) : exp[u] = old[u]
  PROVE  /\ \A u : u \in Expired(L, old, time) <=> u \in H /\ old[u] <= time
         /\ Holds(TickList(L, old, time), exp, H \ Expired(L, old, time))
<1> DEFINE w == Walk(L, L.head)
           Stop(u) == u = NULL \/ time < old[u]
           First(i) == Stop(w[i]) /\ \A j \in 0 .. i - 1 : ~Stop(w[j])
           m == CHOOSE i \in 0 .. Size : First(i)
           gone == {w[j] : j \in 0 .. m - 1}
           rest == Freed(L, gone)
           M == IF L.head = NULL \/ w[m] = L.head THEN L
                ELSE IF w[m] = NULL THEN [rest EXCEPT !.head = NULL]
                ELSE [rest EXCEPT !.head = w[m], !.prev[w[m]] = NULL]
<1>1. Expired(L, old, time) = gone /\ TickList(L, old, time) = M
  BY DEF Expired, TickList, Steps
<1>2. L \in List /\ Loose(L, H)
  BY DEF Holds
<1>3. PICK n, s : Lists(L, old, H, n, s)
  BY DEF Holds
<1>4. /\ Order(n, s) /\ Links(L, n, s) /\ Sorted(old, n, s) /\ Members(n, s) = H
      /\ n \in Nat /\ s \in [1 .. n -> Timer] /\ NULL \notin Timer
      /\ \A i, j \in 1 .. n : s[i] = s[j] => i = j
      /\ Size \in Nat /\ n <= Size
  BY <1>3, NullAssumption, Bounded DEF Lists, Order
<1>5. \A j \in 0 .. Size : w[j] = IF j < n THEN s[j + 1] ELSE NULL
  BY <1>2, <1>4, WalkedAll
<1> HIDE DEF w
<1>6. m \in 0 .. Size /\ First(m)
  <2> DEFINE S == {i \in 0 .. Size : Stop(w[i])}
  <2>1. n \in S
    BY <1>4, <1>5
  <2>2. PICK i \in S : \A j \in S : i <= j
    <3>1. S \subseteq Nat
      OBVIOUS
    <3> HIDE DEF S
    <3> QED
      BY <2>1, <3>1, LeastNat
  <2>3. i \in 0 .. Size /\ First(i)
    BY <1>4, <2>2
  <2> HIDE DEF First
  <2> QED
    BY <2>3
<1> HIDE DEF m
<1>7. m \in 0 .. n
  <2>1. ASSUME m > n PROVE FALSE
    BY <1>4, <1>5, <1>6, <2>1
  <2> QED
    BY <1>4, <1>6, <2>1
<1>8. w[m] = IF m < n THEN s[m + 1] ELSE NULL
  BY <1>4, <1>5, <1>7
<1>9. /\ \A i \in 1 .. m : old[s[i]] <= time
      /\ m < n => time < old[s[m + 1]]
  <2>1. ASSUME NEW i \in 1 .. m
        PROVE  old[s[i]] <= time
    <3>1. i - 1 \in 0 .. m - 1 /\ i - 1 \in 0 .. Size /\ i - 1 < n /\ (i - 1) + 1 = i
          /\ s[i] \in Timer
      BY <1>4, <1>7
    <3>2. w[i - 1] = s[i] /\ ~Stop(w[i - 1])
      BY <1>5, <1>6, <3>1
    <3> QED
      BY <3>1, <3>2
  <2>2. ASSUME m < n PROVE time < old[s[m + 1]]
    BY <1>4, <1>6, <1>7, <1>8, <2>2
  <2> QED
    BY <2>1, <2>2
<1>10. gone = {s[i] : i \in 1 .. m}
  <2>1. ASSUME NEW i \in 1 .. m
        PROVE  s[i] \in gone
    <3>1. i - 1 \in 0 .. m - 1 /\ w[i - 1] = s[i]
      BY <1>4, <1>5, <1>7
    <3> QED
      BY <3>1
  <2>2. ASSUME NEW j \in 0 .. m - 1
        PROVE  w[j] \in {s[i] : i \in 1 .. m}
    <3>1. j + 1 \in 1 .. m /\ w[j] = s[j + 1]
      BY <1>4, <1>5, <1>7
    <3> QED
      BY <3>1
  <2> QED
    BY <2>1, <2>2
<1> HIDE DEF gone
<1>11. \A i, j \in 1 .. n : i <= j => old[s[i]] <= old[s[j]]
  BY <1>4 DEF Sorted
<1>12. \A i \in 1 .. n : s[i] \in gone <=> i <= m
  BY <1>4, <1>7, <1>10
<1>13. \A i \in 1 .. n : old[s[i]] <= time <=> i <= m
  <2> TAKE i \in 1 .. n
  <2>1. ASSUME m < i PROVE ~(old[s[i]] <= time)
    <3>1. m + 1 \in 1 .. n /\ old[s[m + 1]] <= old[s[i]] /\ time < old[s[m + 1]]
          /\ s[m + 1] \in Timer /\ s[i] \in Timer
      BY <1>4, <1>7, <1>9, <1>11, <2>1
    <3> QED
      BY <3>1
  <2> QED
    BY <1>7, <1>9, <2>1
<1>14. \A u : u \in gone <=> u \in H /\ old[u] <= time
  <2>1. ASSUME NEW u \in gone PROVE u \in H /\ old[u] <= time
    BY <1>4, <1>7, <1>9, <1>10 DEF Members
  <2>2. ASSUME NEW u \in H, old[u] <= time PROVE u \in gone
    BY <1>4, <1>12, <1>13, <2>2 DEF Members
  <2> QED
    BY <2>1, <2>2
<1>15. /\ rest \in List /\ rest.head = L.head /\ rest.tail = L.tail
       /\ \A u \in Timer : rest.next[u] = IF u \in gone THEN NULL ELSE L.next[u]
       /\ \A u \in Timer : rest.prev[u] = IF u \in gone THEN NULL ELSE L.prev[u]
  BY <1>2 DEF Freed, List, Pointer
<1>16. \A u \in Timer \ gone : exp[u] = old[u]
  BY <1>1
<1> HIDE DEF rest
<1>17. CASE m = 0
  <2>1. gone = {} /\ H \ gone = H
    BY <1>10, <1>17
  <2>2. M = L
    BY <1>4, <1>8, <1>17 DEF Links
  <2>3. Sorted(exp, n, s)
    BY <1>4, <1>16, <2>1 DEF Sorted
  <2>4. Lists(L, exp, H, n, s)
    BY <1>4, <2>3 DEF Lists
  <2> QED
    BY <1>1, <1>2, <1>14, <2>1, <2>2, <2>4 DEF Holds
<1>18. CASE m > 0
  <2> DEFINE r == [i \in 1 .. n - m |-> s[i + m]]
             q == n - m
  <2>1. /\ q \in Nat /\ \A i \in 1 .. q : r[i] = s[i + m] /\ i + m \in 1 .. n
        /\ r \in [1 .. q -> Timer]
    BY <1>4, <1>7
  <2> HIDE DEF r
  <2>2. Order(q, r)
    BY <1>4, <1>7, <2>1 DEF Order
  <2>3. Members(q, r) = H \ gone
    <3>1. ASSUME NEW i \in 1 .. q PROVE r[i] \in H \ gone
      <4>1. i + m \in 1 .. n /\ ~(i + m <= m)
        <5>1. i + m \in 1 .. n
          BY <2>1
        <5>2. m \in Int /\ i \in Int /\ 1 <= i
          BY <1>7
        <5> QED
          BY <5>1, <5>2
      <4>2. r[i] = s[i + m] /\ s[i + m] \in H
        BY <1>4, <2>1, <4>1 DEF Members
      <4>3. s[i + m] \notin gone
        BY <1>12, <4>1
      <4> QED
        BY <4>2, <4>3
    <3>2. ASSUME NEW u \in H \ gone PROVE u \in Members(q, r)
      <4>1. PICK j \in 1 .. n : u = s[j]
        BY <1>4 DEF Members
      <4>2. j - m \in 1 .. q /\ (j - m) + m = j
        BY <1>4, <1>7, <1>12, <3>2, <4>1
      <4>3. r[j - m] = u
        BY <2>1, <4>1, <4>2
      <4> QED
        BY <4>2, <4>3 DEF Members
    <3> QED
      BY <3>1, <3>2 DEF Members
  <2>4. Sorted(exp, q, r)
    <3> SUFFICES ASSUME NEW i \in 1 .. q, NEW j \in 1 .. q, i <= j
                 PROVE  exp[r[i]] <= exp[r[j]]
      BY DEF Sorted
    <3>1. exp[r[i]] = old[r[i]] /\ exp[r[j]] = old[r[j]]
      BY <1>4, <1>16, <2>1, <2>3 DEF Members
    <3>2. old[s[i + m]] <= old[s[j + m]]
      BY <1>7, <1>11, <2>1
    <3> QED
      BY <2>1, <3>1, <3>2
  <2>5. n > 0 /\ L.head = s[1] /\ s[1] \in Timer /\ 1 \in 1 .. n /\ w[m] # L.head
        /\ L.tail = s[n] /\ L.next[s[n]] = NULL
    BY <1>4, <1>7, <1>8, <1>18 DEF Links
  <2>6. /\ M \in List /\ M.head = w[m] /\ M.tail = L.tail
        /\ \A u \in Timer : M.next[u] = rest.next[u]
        /\ \A u \in Timer : M.prev[u] = IF u = w[m] THEN NULL ELSE rest.prev[u]
    <3>1. CASE m = n
      <4>1. M = [rest EXCEPT !.head = NULL] /\ w[m] = NULL
        BY <1>4, <1>8, <2>5, <3>1
      <4> HIDE DEF M
      <4> QED
        BY <1>4, <1>15, <4>1 DEF List, Pointer
    <3>2. CASE m < n
      <4>1. w[m] \in Timer /\ M = [rest EXCEPT !.head = w[m], !.prev[w[m]] = NULL]
        BY <1>4, <1>7, <1>8, <2>5, <3>2
      <4> HIDE DEF M
      <4>2. M = [head |-> w[m], tail |-> rest.tail, next |-> rest.next,
                 prev |-> [rest.prev EXCEPT ![w[m]] = NULL]]
        BY <1>15, <4>1 DEF List
      <4>3. rest.prev \in [Timer -> Pointer] /\ rest.next \in [Timer -> Pointer]
            /\ rest.tail \in Pointer /\ w[m] \in Pointer /\ NULL \in Pointer
        BY <1>15, <4>1 DEF List, Pointer
      <4>4. /\ M.head = w[m] /\ M.tail = rest.tail /\ M.next = rest.next
            /\ M.prev = [rest.prev EXCEPT ![w[m]] = NULL]
        BY <4>2
      <4>5. M \in List
        BY <4>2, <4>3 DEF List
      <4> QED
        BY <1>15, <4>1, <4>3, <4>4, <4>5
    <3> QED
      BY <1>7, <1>4, <3>1, <3>2
  <2> HIDE DEF M
  <2>7. Links(M, q, r)
    <3>1. M.head = IF q = 0 THEN NULL ELSE r[1]
      BY <1>4, <1>7, <1>8, <2>1, <2>6
    <3>2. ASSUME q > 0
          PROVE  M.tail = r[q] /\ M.next[r[q]] = NULL /\ M.prev[r[1]] = NULL
      <4>1. m < n /\ r[q] = s[n] /\ r[1] = w[m] /\ s[n] \in Timer /\ w[m] \in Timer
            /\ s[n] \notin gone
        BY <1>4, <1>7, <1>8, <1>12, <2>1, <3>2
      <4> QED
        BY <1>15, <2>5, <2>6, <4>1
    <3>3. ASSUME NEW i \in 1 .. q - 1
          PROVE  M.next[r[i]] = r[i + 1] /\ M.prev[r[i + 1]] = r[i]
      <4>1. /\ r[i] = s[i + m] /\ r[i + 1] = s[(i + m) + 1] /\ i + m \in 1 .. n - 1
            /\ m < n /\ m + 1 \in 1 .. n /\ (i + m) + 1 \in 1 .. n
        BY <1>4, <1>7, <2>1
      <4>2. s[i + m] \notin gone /\ s[(i + m) + 1] \notin gone
            /\ s[i + m] \in Timer /\ s[(i + m) + 1] \in Timer /\ s[(i + m) + 1] # s[m + 1]
        BY <1>4, <1>7, <1>12, <4>1
      <4>3. L.next[s[i + m]] = s[(i + m) + 1] /\ L.prev[s[(i + m) + 1]] = s[i + m]
        BY <1>4, <4>1 DEF Links
      <4> QED
        BY <1>8, <1>15, <2>6, <4>1, <4>2, <4>3
    <3> QED
      BY <2>1, <3>1, <3>2, <3>3 DEF Links
  <2>8. Loose(M, H \ gone)
    <3> SUFFICES ASSUME NEW u \in Timer, u \notin H \ gone
                 PROVE  M.next[u] = NULL /\ M.prev[u] = NULL
      BY DEF Loose
    <3>1. rest.next[u] = NULL /\ rest.prev[u] = NULL
      BY <1>2, <1>15 DEF Loose
    <3> QED
      BY <2>6, <3>1
  <2>9. Lists(M, exp, H \ gone, q, r)
    BY <2>2, <2>3, <2>4, <2>7 DEF Lists
  <2>10. Holds(M, exp, H \ gone)
    BY <2>6, <2>8, <2>9 DEF Holds
  <2> QED
    BY <1>1, <1>14, <2>10
<1> QED
  BY <1>7, <1>17, <1>18

-----------------------------------------------------------------------------
(* The list holds the allocated timers, and none of them expires later     *)
(* than one added now would.                                               *)
TimerInv ==
    /\ now \in Nat /\ heap \subseteq Timer
    /\ expire \in [Timer -> Nat] /\ \A t \in Timer : expire[t] <= Deadline
    /\ Holds(lst, expire, heap)

LEMMA TimerInvInit == TimerInit => TimerInv
<1> SUFFICES ASSUME TimerInit
             PROVE  TimerInv
  OBVIOUS
<1> USE DEF TimerInit
<1>1. /\ now \in Nat /\ heap \subseteq Timer /\ expire \in [Timer -> Nat]
      /\ \A t \in Timer : expire[t] <= Deadline
  BY TimeAssumption DEF Deadline
<1>2. lst \in List /\ lst.head = NULL /\ Loose(lst, heap)
  BY DEF List, Pointer, Loose
<1>3. Lists(lst, expire, heap, 0, [i \in 1 .. 0 |-> NULL])
  BY <1>2 DEF Lists, Order, Links, Sorted, Members
<1> QED
  BY <1>1, <1>2, <1>3 DEF TimerInv, Holds

LEMMA TimerInvStep == TimerInv /\ [TimerNext]_timerVars => TimerInv'
<1> SUFFICES ASSUME TimerInv, [TimerNext]_timerVars
             PROVE  TimerInv'
  OBVIOUS
<1>1. /\ now \in Nat /\ heap \subseteq Timer /\ Deadline \in Nat
      /\ expire \in [Timer -> Nat] /\ expire \in [Timer -> Int]
      /\ \A t \in Timer : expire[t] <= Deadline
      /\ Holds(lst, expire, heap)
  BY TimeAssumption DEF TimerInv, Deadline
<1>2. ASSUME NEW t \in Timer, Add(t)
      PROVE  TimerInv'
  <2>1. /\ now' = now /\ heap' = heap \cup {t} /\ t \in Timer \ heap
        /\ expire' = [expire EXCEPT ![t] = Deadline]
        /\ lst' = AddTimer(lst, expire', t)
    BY <1>2 DEF Add
  <2>2. /\ expire' \in [Timer -> Nat] /\ expire' \in [Timer -> Int] /\ Deadline' = Deadline
        /\ \A u \in Timer : expire'[u] <= Deadline
        /\ \A u \in heap : expire'[u] = expire[u]
    BY <1>1, <2>1 DEF Deadline
  <2>3. Holds(lst, expire', heap)
    BY <1>1, <2>2, HoldsSame
  <2>4. Holds(lst', expire', heap')
    BY <2>1, <2>2, <2>3, Added
  <2> QED
    BY <1>1, <2>1, <2>2, <2>4 DEF TimerInv
<1>3. ASSUME NEW t \in Timer, Adjust(t)
      PROVE  TimerInv'
  <2>1. /\ now' = now /\ heap' = heap /\ t \in heap
        /\ expire' = [expire EXCEPT ![t] = Deadline]
        /\ lst' = AdjustTimer(lst, expire', t)
    BY <1>3 DEF Adjust
  <2>2. /\ expire' \in [Timer -> Nat] /\ expire' \in [Timer -> Int] /\ Deadline' = Deadline
        /\ \A u \in Timer : expire'[u] <= Deadline
        /\ \A u \in Timer \ {t} : expire'[u] = expire[u]
        /\ expire[t] <= expire'[t]
    BY <1>1, <2>1 DEF Deadline
  <2>3. Holds(lst', expire', heap')
    BY <1>1, <2>1, <2>2, Adjusted
  <2> QED
    BY <1>1, <2>1, <2>2, <2>3 DEF TimerInv
<1>4. ASSUME NEW t \in Timer, Del(t)
      PROVE  TimerInv'
  <2>1. /\ now' = now /\ heap' = heap \ {t} /\ t \in heap
        /\ expire' = [expire EXCEPT ![t] = 0] /\ lst' = DelTimer(lst, t)
    BY <1>4 DEF Del
  <2>2. /\ expire' \in [Timer -> Nat] /\ expire' \in [Timer -> Int] /\ Deadline' = Deadline
        /\ \A u \in Timer : expire'[u] <= Deadline
        /\ \A u \in Timer \ {t} : expire'[u] = expire[u]
    BY <1>1, <2>1 DEF Deadline
  <2>3. Holds(lst', expire', heap')
    BY <1>1, <2>1, <2>2, Deleted
  <2> QED
    BY <1>1, <2>1, <2>2, <2>3 DEF TimerInv
<1>5. ASSUME Tick
      PROVE  TimerInv'
  <2> DEFINE gone == Expired(lst, expire, now)
  <2>1. /\ now' = now /\ heap' = heap \ gone
        /\ expire' = [t \in Timer |-> IF t \in gone THEN 0 ELSE expire[t]]
        /\ lst' = TickList(lst, expire, now)
    BY <1>5 DEF Tick
  <2> HIDE DEF gone
  <2>2. /\ expire' \in [Timer -> Nat] /\ expire' \in [Timer -> Int] /\ Deadline' = Deadline
        /\ \A u \in Timer : expire'[u] <= Deadline
        /\ \A u \in Timer \ gone : expire'[u] = expire[u]
    BY <1>1, <2>1 DEF Deadline
  <2>3. Holds(lst', expire', heap')
    <3>1. /\ expire \in [Timer -> Int] /\ expire' \in [Timer -> Int] /\ now \in Int
          /\ \A u \in Timer \ Expired(lst, expire, now) : expire'[u] = expire[u]
      BY <1>1, <2>2 DEF gone
    <3>2. Holds(TickList(lst, expire, now), expire', heap \ Expired(lst, expire, now))
      BY <1>1, <3>1, Ticked
    <3> QED
      BY <2>1, <3>2 DEF gone
  <2> QED
    BY <1>1, <2>1, <2>2, <2>3 DEF TimerInv
<1>6. ASSUME Clock
      PROVE  TimerInv'
  <2>1. now' = now + 1 /\ heap' = heap /\ expire' = expire /\ lst' = lst
    BY <1>6 DEF Clock
  <2>2. \A t \in Timer : expire[t] <= Deadline'
    BY <1>1, <2>1, TimeAssumption DEF Deadline
  <2> QED
    BY <1>1, <2>1, <2>2 DEF TimerInv
<1>7. CASE UNCHANGED timerVars
  <2>1. now' = now /\ heap' = heap /\ expire' = expire /\ lst' = lst
    BY <1>7 DEF timerVars
  <2>2. Deadline' = Deadline
    BY <2>1 DEF Deadline
  <2> QED
    BY <1>1, <2>1, <2>2 DEF TimerInv
<1> QED
  BY <1>2, <1>3, <1>4, <1>5, <1>6, <1>7 DEF TimerNext

(* The list stays well linked whatever the loop calls and however often:   *)
(* no freed node is reached, no allocated one is lost, there is no cycle,  *)
(* and tail is right when it is read, although tick() leaves it alone      *)
(* (lst_timer.cpp).                                                        *)
THEOREM WellLinkedHolds == TimerSpec => []WellLinked
<1>1. TimerInv => WellLinked
  <2> SUFFICES ASSUME TimerInv
               PROVE  WellLinked
    OBVIOUS
  <2>1. lst \in List /\ Holds(lst, expire, heap)
    BY DEF TimerInv, Holds
  <2>2. PICK n, s : Lists(lst, expire, heap, n, s)
    BY <2>1 DEF Holds
  <2>3. /\ Order(n, s) /\ Links(lst, n, s) /\ Members(n, s) = heap
        /\ n \in Nat /\ s \in [1 .. n -> Timer] /\ NULL \notin Timer
        /\ \A i, j \in 1 .. n : s[i] = s[j] => i = j
        /\ Size \in Nat /\ n <= Size
    BY <2>2, NullAssumption, Bounded DEF Lists, Order
  <2> DEFINE w == Walk(lst, lst.head)
  <2>4. \A j \in 0 .. Size : w[j] = IF j < n THEN s[j + 1] ELSE NULL
    BY <2>1, <2>3, WalkedAll
  <2>5. Nodes = {w[i] : i \in 0 .. Size} \ {NULL}
    BY DEF Nodes
  <2> HIDE DEF w
  <2>6. Nodes = heap
    <3>1. ASSUME NEW u \in Nodes PROVE u \in heap
      BY <2>3, <2>4, <2>5 DEF Members
    <3>2. ASSUME NEW k \in 1 .. n PROVE s[k] \in Nodes
      <4>1. k - 1 \in 0 .. Size /\ w[k - 1] = s[k] /\ s[k] # NULL
        BY <2>3, <2>4
      <4> QED
        BY <2>5, <4>1
    <3> QED
      BY <2>3, <3>1, <3>2 DEF Members
  <2>7. w[Size] = NULL
    BY <2>3, <2>4
  <2>8. ASSUME heap # {}
        PROVE  /\ lst.prev[lst.head] = NULL
               /\ lst.tail \in heap /\ lst.next[lst.tail] = NULL
    <3>1. n > 0 /\ n \in 1 .. n
      BY <2>3, <2>8 DEF Members
    <3>2. lst.head = s[1] /\ lst.tail = s[n] /\ lst.next[s[n]] = NULL
          /\ lst.prev[s[1]] = NULL
      BY <2>3, <3>1 DEF Links
    <3> QED
      BY <2>3, <3>1, <3>2 DEF Members
  <2>9. ASSUME NEW t \in heap, lst.next[t] # NULL
        PROVE  lst.prev[lst.next[t]] = t
    <3>1. PICK k \in 1 .. n : t = s[k]
      BY <2>3 DEF Members
    <3>2. k < n /\ lst.next[t] = s[k + 1] /\ k + 1 \in 1 .. n /\ (k + 1) - 1 = k
      BY <2>1, <2>3, <2>9, <3>1, Neighbours
    <3>3. lst.prev[s[k + 1]] = IF k + 1 > 1 THEN s[(k + 1) - 1] ELSE NULL
      BY <2>1, <2>3, <3>2, Neighbours
    <3> QED
      BY <3>1, <3>2, <3>3
  <2> QED
    BY <2>6, <2>7, <2>8, <2>9 DEF WellLinked, w
<1> QED
  BY <1>1, TimerInvInit, TimerInvStep, PTL DEF TimerSpec

(* The list implements the set of timers: every call changes the set as    *)
(* TimerSet says, and a tick expires all the timers that are due and no    *)
(* other, wherever they stand (sort_timer_list::tick).                     *)
THEOREM ListIsSet == TimerSpec => SetSpec
<1>1. TimerInit => Set!Init
  BY DEF TimerInit, Set!Init
<1>2. ASSUME TimerInv, [TimerNext]_timerVars
      PROVE  [Set!Next]_<<now, heap, expire>>
  <2>1. ASSUME NEW t \in Timer, Add(t)
        PROVE  Set!Next
    BY <2>1 DEF Add, Deadline, Set!Next, Set!Add, Set!Put
  <2>2. ASSUME NEW t \in Timer, Adjust(t)
        PROVE  Set!Next
    BY <2>2 DEF Adjust, Deadline, Set!Next, Set!Adjust, Set!Put
  <2>3. ASSUME NEW t \in Timer, Del(t)
        PROVE  Set!Next
    <3>1. /\ now' = now /\ heap' = heap \ {t} /\ t \in heap
          /\ expire' = [expire EXCEPT ![t] = 0]
      BY <2>3 DEF Del
    <3>2. expire' = [u \in Timer |-> IF u \in {t} THEN 0 ELSE expire[u]]
      BY <1>2, <3>1 DEF TimerInv
    <3>3. Set!Del(t)
      BY <3>1, <3>2 DEF Set!Del, Set!Drop
    <3> QED
      BY <3>3 DEF Set!Next
  <2>4. ASSUME Tick
        PROVE  Set!Next
    <3> DEFINE gone == Expired(lst, expire, now)
    <3>1. /\ now' = now /\ heap' = heap \ gone
          /\ expire' = [t \in Timer |-> IF t \in gone THEN 0 ELSE expire[t]]
      BY <2>4 DEF Tick
    <3> HIDE DEF gone
    <3>2. /\ expire \in [Timer -> Nat] /\ expire \in [Timer -> Int]
          /\ now \in Int /\ Holds(lst, expire, heap)
      BY <1>2 DEF TimerInv
    <3>3. gone = {t \in heap : expire[t] <= now}
      <4>1. \A u \in Timer \ Expired(lst, expire, now) : expire[u] = expire[u]
        OBVIOUS
      <4>2. \A u : u \in Expired(lst, expire, now) <=> u \in heap /\ expire[u] <= now
        BY <3>2, <4>1, Ticked
      <4> QED
        BY <4>2 DEF gone
    <3>4. Set!Tick
      BY <3>1, <3>3 DEF Set!Tick, Set!Drop
    <3> QED
      BY <3>4 DEF Set!Next
  <2>5. ASSUME Clock
        PROVE  Set!Next
    BY <1>2, <2>5 DEF Clock, TimerInv, Set!Next, Set!Clock
  <2>6. CASE UNCHANGED timerVars
    BY <2>6 DEF timerVars
  <2> QED
    BY <1>2, <2>1, <2>2, <2>3, <2>4, <2>5, <2>6 DEF TimerNext
<1> QED
  BY <1>1, <1>2, TimerInvInit, TimerInvStep, PTL DEF TimerSpec, SetSpec, Set!Spec

=============================================================================
