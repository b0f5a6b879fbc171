------------------------ MODULE ConnectionPool_proofs ------------------------
(***************************************************************************)
(* Theorems about ConnectionPool, for any connections and threads and any  *)
(* number of interrupted waits.                                            *)
(***************************************************************************)
EXTENDS ConnectionPool, SharedLemmas, FiniteSetTheorems

-----------------------------------------------------------------------------
(* Types *)

Places == {"idle", "wait", "pop", "use", "post", "undefined"}

(* The variables keep their types.                                         *)
TypeOK ==
    /\ connlist \in Seq(Conn) /\ reserve \in Nat
    /\ pc \in [Thread -> Places]
    /\ con \in [Thread -> Conn \cup {NULL}]
    /\ closed \subseteq Conn /\ interrupts \in Nat

LEMMA TypeInit == Init => TypeOK
<1> SUFFICES ASSUME Init PROVE TypeOK
  OBVIOUS
<1>1. Cardinality(Conn) \in Nat
  BY ConnAssumption, FS_CardinalityType
<1>2. connlist \in Seq(Conn)
  BY <1>1 DEF Init
<1> QED
  BY <1>1, <1>2 DEF Init, TypeOK, Places

LEMMA TypeStep == TypeOK /\ [Next]_vars => TypeOK'
<1> SUFFICES ASSUME TypeOK, [Next]_vars PROVE TypeOK'
  OBVIOUS
<1> USE DEF TypeOK, Go, Places
<1>1. ASSUME NEW t \in Thread, Look(t) PROVE TypeOK'
  BY <1>1 DEF Look
<1>2. ASSUME NEW t \in Thread, Wait(t) PROVE TypeOK'
  BY <1>2 DEF Wait
<1>8. ASSUME NEW t \in Thread, Interrupt(t) PROVE TypeOK'
  BY <1>8 DEF Interrupt
<1>3. ASSUME NEW t \in Thread, Pop(t) PROVE TypeOK'
  <2>1. connlist # <<>> =>
          Tail(connlist) \in Seq(Conn) /\ Head(connlist) \in Conn
    BY TailElements
  <2> QED
    BY <1>3, <2>1 DEF Pop, pop_front
<1>4. ASSUME NEW t \in Thread, Release(t) PROVE TypeOK'
  <2>1. con[t] # NULL => Append(connlist, con[t]) \in Seq(Conn)
    BY AppendElements
  <2> QED
    BY <1>4, <2>1 DEF Release, push_back
<1>5. ASSUME NEW t \in Thread, Post(t) PROVE TypeOK'
  BY <1>5 DEF Post
<1>6. CASE DestroyPool
  <2>1. Listed \subseteq Conn
    BY DEF Listed
  <2> QED
    BY <1>6, <2>1, EmptySeq DEF DestroyPool
<1>7. CASE UNCHANGED vars
  BY <1>7 DEF vars
<1> QED
  BY <1>1, <1>2, <1>3, <1>4, <1>5, <1>6, <1>7, <1>8 DEF Next, Step

-----------------------------------------------------------------------------
(* Exclusive *)

Held == Elements(connlist)

LEMMA ListedHeld == Listed = Held
  BY DEF Listed, Held, Elements

(* What is in the list is not closed, besides what Exclusive says.         *)
Owned ==
    /\ Distinct(connlist)
    /\ Held \cap closed = {}
    /\ \A t \in Thread : con[t] # NULL => con[t] \notin Held \cup closed
    /\ \A t, u \in Thread : (con[t] # NULL /\ con[u] = con[t]) => u = t

LEMMA OwnedExclusive == Owned => Exclusive
  BY ListedHeld DEF Owned, Exclusive, Distinct

(* init() fills the list with the connections, each once.                  *)
LEMMA InitDistinct ==
  ASSUME Init
  PROVE  Distinct(connlist) /\ Len(connlist) = Cardinality(Conn)
<1> DEFINE n == Cardinality(Conn)
<1>1. n \in Nat /\ IsFiniteSet(1 .. n) /\ Cardinality(1 .. n) = n
  BY ConnAssumption, FS_CardinalityType, FS_Interval
<1>2. connlist \in [1 .. n -> Conn] /\ Len(connlist) = n
  BY <1>1 DEF Init
<1>3. connlist \in Surjection(1 .. n, Conn)
  BY <1>2 DEF Init, Listed, Surjection
<1>4. connlist \in Injection(1 .. n, Conn)
  BY <1>1, <1>3, FS_Surjection
<1> QED
  BY <1>2, <1>4 DEF Distinct, Injection, IsInjective

LEMMA OwnedInit == Init => Owned
  BY InitDistinct DEF Init, Owned

LEMMA OwnedStep == TypeOK /\ Owned /\ [Next]_vars => Owned'
<1> SUFFICES ASSUME TypeOK, Owned, [Next]_vars PROVE Owned'
  OBVIOUS
<1>0. /\ connlist \in Seq(Conn) /\ con \in [Thread -> Conn \cup {NULL}]
      /\ NULL \notin Conn
  BY NullAssumption DEF TypeOK
<1>1. ASSUME NEW t \in Thread,
             Look(t) \/ Wait(t) \/ Interrupt(t) \/ Post(t)
      PROVE  Owned'
  BY <1>1 DEF Look, Wait, Interrupt, Post, Owned, Held
<1>2. ASSUME NEW t \in Thread, Pop(t) PROVE Owned'
  <2>1. CASE connlist = <<>>
    BY <1>2, <2>1 DEF Pop, Owned, Held
  <2>2. CASE connlist # <<>>
    <3> DEFINE h == Head(connlist)
    <3>1. /\ connlist' = Tail(connlist) /\ con' = [con EXCEPT ![t] = h]
          /\ closed' = closed /\ Distinct(connlist)
      BY <1>2, <2>2 DEF Pop, pop_front, Owned
    <3>2. /\ Held = Elements(connlist') \cup {h}
          /\ h \notin Elements(connlist') /\ Distinct(connlist') /\ h \in Conn
      BY <1>0, <2>2, <3>1, TailElements DEF Held
    <3> HIDE DEF h
    <3>3. Held' \cap closed' = {}
      BY <3>1, <3>2 DEF Owned, Held
    <3>4. ASSUME NEW u \in Thread, con'[u] # NULL
          PROVE  con'[u] \notin Held' \cup closed'
      BY <1>0, <3>1, <3>2, <3>4 DEF Owned, Held
    <3>5. ASSUME NEW u \in Thread, NEW v \in Thread,
                 con'[u] # NULL, con'[v] = con'[u]
          PROVE  v = u
      BY <1>0, <3>1, <3>2, <3>5 DEF Owned, Held
    <3> QED
      BY <3>2, <3>3, <3>4, <3>5 DEF Owned
  <2> QED
    BY <2>1, <2>2
<1>3. ASSUME NEW t \in Thread, Release(t) PROVE Owned'
  <2>1. CASE con[t] = NULL
    BY <1>3, <2>1 DEF Release, Owned, Held
  <2>2. CASE con[t] # NULL
    <3>1. /\ connlist' = Append(connlist, con[t])
          /\ con' = [con EXCEPT ![t] = NULL] /\ closed' = closed
          /\ con[t] \notin Held \cup closed /\ con[t] \in Conn
      BY <1>0, <1>3, <2>2 DEF Release, push_back, Owned
    <3>2. /\ Elements(connlist') = Held \cup {con[t]} /\ Distinct(connlist')
      BY <1>0, <3>1, AppendElements DEF Held, Owned
    <3>3. Held' \cap closed' = {}
      BY <3>1, <3>2 DEF Owned, Held
    <3>4. ASSUME NEW u \in Thread, con'[u] # NULL
          PROVE  con'[u] \notin Held' \cup closed'
      BY <1>0, <2>2, <3>1, <3>2, <3>4 DEF Owned, Held
    <3>5. ASSUME NEW u \in Thread, NEW v \in Thread,
                 con'[u] # NULL, con'[v] = con'[u]
          PROVE  v = u
      BY <1>0, <3>1, <3>5 DEF Owned
    <3> QED
      BY <3>2, <3>3, <3>4, <3>5 DEF Owned
  <2> QED
    BY <2>1, <2>2
<1>4. CASE DestroyPool
  BY <1>4, EmptyElements, ListedHeld DEF DestroyPool, Owned, Held
<1>5. CASE UNCHANGED vars
  BY <1>5 DEF vars, Owned, Held
<1> QED
  BY <1>1, <1>2, <1>3, <1>4, <1>5 DEF Next, Step

(* A MySQL connection is used by one thread at a time, is not in the list  *)
(* while it is used, and is not closed by DestroyPool() under its user.    *)
THEOREM ExclusiveHolds == Spec => []Exclusive
<1>1. Init => TypeOK /\ Owned
  BY TypeInit, OwnedInit
<1>2. (TypeOK /\ Owned) /\ [Next]_vars => (TypeOK /\ Owned)'
  BY TypeStep, OwnedStep
<1> QED
  BY <1>1, <1>2, OwnedExclusive, PTL DEF Spec

-----------------------------------------------------------------------------
(* Covered and OnlyInterrupted *)

(* A thread that goes from one place to another leaves the other counts    *)
(* alone.                                                                  *)
LEMMA AtMoves ==
  ASSUME TypeOK, NEW t \in Thread, NEW place \in Places, Go(t, place),
         pc[t] # place, NEW p \in Places
  PROVE  /\ Cardinality(At(p)) \in Nat /\ Cardinality(At(p)') \in Nat
         /\ p = place => Cardinality(At(p)') = Cardinality(At(p)) + 1
         /\ p = pc[t] => Cardinality(At(p)') = Cardinality(At(p)) - 1
         /\ (p # place /\ p # pc[t]) => At(p)' = At(p)
<1>1. pc' = [pc EXCEPT ![t] = place] /\ pc \in [Thread -> Places]
  BY DEF TypeOK, Go
<1>2. IsFiniteSet(At(p)) /\ IsFiniteSet(At(p)')
  BY ConnAssumption, FS_Subset DEF At
<1>3. Cardinality(At(p)) \in Nat /\ Cardinality(At(p)') \in Nat
  BY <1>2, FS_CardinalityType
<1>4. ASSUME p = place
      PROVE  Cardinality(At(p)') = Cardinality(At(p)) + 1
  <2>1. At(p)' = At(p) \cup {t} /\ t \notin At(p)
    BY <1>1, <1>4 DEF At
  <2> QED
    BY <1>2, <2>1, FS_AddElement
<1>5. ASSUME p = pc[t]
      PROVE  Cardinality(At(p)') = Cardinality(At(p)) - 1
  <2>1. At(p)' = At(p) \ {t} /\ t \in At(p)
    BY <1>1, <1>5 DEF At
  <2> QED
    BY <1>2, <2>1, FS_RemoveElement
<1>6. (p # place /\ p # pc[t]) => At(p)' = At(p)
  BY <1>1 DEF At
<1> QED
  BY <1>3, <1>4, <1>5, <1>6

LEMMA CoveredInit == Init => Covered /\ OnlyInterrupted
<1> SUFFICES ASSUME Init PROVE Covered /\ OnlyInterrupted
  OBVIOUS
<1>1. \A p \in {"pop", "post", "undefined"} : Cardinality(At(p)) = 0
  <2>1. \A p \in {"pop", "post", "undefined"} : At(p) = {}
    BY DEF Init, At
  <2> QED
    BY <2>1, FS_EmptySet
<1>2. Cardinality(Conn) \in Nat
  BY ConnAssumption, FS_CardinalityType
<1> QED
  BY <1>1, <1>2, InitDistinct DEF Init, Covered, OnlyInterrupted

(* The books balance after every step if they did before.  A thread comes  *)
(* to "undefined" only when the list is empty, and then Covered says that  *)
(* an interrupt accounts for it.                                           *)
LEMMA CoveredStep ==
  TypeOK /\ Covered /\ OnlyInterrupted /\ [Next]_vars
    => (Covered /\ OnlyInterrupted)'
<1> SUFFICES ASSUME TypeOK, Covered, OnlyInterrupted, [Next]_vars
             PROVE  (Covered /\ OnlyInterrupted)'
  OBVIOUS
<1> DEFINE Popping == Cardinality(At("pop"))
           Posting == Cardinality(At("post"))
           Undefined == Cardinality(At("undefined"))
           Length == Len(connlist)
<1>1. /\ reserve \in Nat /\ interrupts \in Nat /\ Length \in Nat
      /\ connlist \in Seq(Conn)
  BY LenProperties DEF TypeOK
<1>2. Popping \in Nat /\ Posting \in Nat /\ Undefined \in Nat
  <2>1. \A p \in Places : IsFiniteSet(At(p))
    BY ConnAssumption, FS_Subset DEF At
  <2> QED
    BY <2>1, FS_CardinalityType DEF Places
<1>3. /\ closed = {} =>
           reserve + Popping + Posting + Undefined = Length + interrupts
      /\ closed = {} => Undefined <= interrupts
  BY DEF Covered, OnlyInterrupted
<1> DEFINE Balanced ==
      closed' = {} =>
        /\ (reserve + Popping + Posting + Undefined = Length + interrupts)'
        /\ (Undefined <= interrupts)'
<1>4. SUFFICES Balanced
  BY DEF Covered, OnlyInterrupted
<1> USE DEF Places
<1>5. ASSUME NEW t \in Thread, Look(t)
      PROVE  Balanced
  <2>1. /\ Popping' = Popping /\ Posting' = Posting /\ Undefined' = Undefined
    BY <1>5, AtMoves DEF Look
  <2> HIDE DEF Popping, Posting, Undefined
  <2> QED
    BY <1>1, <1>2, <1>3, <1>5, <2>1 DEF Look
<1>6. ASSUME NEW t \in Thread, Wait(t)
      PROVE  Balanced
  <2>1. Popping' = Popping + 1 /\ Posting' = Posting /\ Undefined' = Undefined
    BY <1>6, AtMoves DEF Wait
  <2> HIDE DEF Popping, Posting, Undefined
  <2> QED
    BY <1>1, <1>2, <1>3, <1>6, <2>1 DEF Wait
<1>12. ASSUME NEW t \in Thread, Interrupt(t)
      PROVE  Balanced
  <2>1. Popping' = Popping + 1 /\ Posting' = Posting /\ Undefined' = Undefined
    BY <1>12, AtMoves DEF Interrupt
  <2> HIDE DEF Popping, Posting, Undefined
  <2> QED
    BY <1>1, <1>2, <1>3, <1>12, <2>1 DEF Interrupt
<1>7. ASSUME NEW t \in Thread, Pop(t)
      PROVE  Balanced
  <2>1. CASE connlist # <<>>
    <3>1. /\ Popping' = Popping - 1 /\ Posting' = Posting
          /\ Undefined' = Undefined
      BY <1>7, <2>1, AtMoves DEF Pop
    <3>2. Length' = Length - 1
      BY <1>1, <1>7, <2>1, TailElements DEF Pop, pop_front
    <3> HIDE DEF Popping, Posting, Undefined, Length
    <3> QED
      BY <1>1, <1>2, <1>3, <1>7, <3>1, <3>2 DEF Pop
  <2>2. CASE connlist = <<>>
    <3>1. /\ Popping' = Popping - 1 /\ Posting' = Posting
          /\ Undefined' = Undefined + 1 /\ Popping' \in Nat
      BY <1>7, <2>2, AtMoves DEF Pop
    <3>2. Length = 0 /\ Length' = 0
      BY <1>7, <2>2, EmptyElements DEF Pop
    <3> HIDE DEF Popping, Posting, Undefined, Length
    <3> QED
      BY <1>1, <1>2, <1>3, <1>7, <2>2, <3>1, <3>2 DEF Pop
  <2> QED
    BY <2>1, <2>2
<1>8. ASSUME NEW t \in Thread, Release(t)
      PROVE  Balanced
  <2>1. CASE con[t] = NULL
    <3>1. Popping' = Popping /\ Posting' = Posting /\ Undefined' = Undefined
      BY <1>8, <2>1, AtMoves DEF Release
    <3> HIDE DEF Popping, Posting, Undefined
    <3> QED
      BY <1>1, <1>2, <1>3, <1>8, <2>1, <3>1 DEF Release
  <2>2. CASE con[t] # NULL
    <3>1. /\ Popping' = Popping /\ Posting' = Posting + 1
          /\ Undefined' = Undefined
      BY <1>8, <2>2, AtMoves DEF Release
    <3>2. Length' = Length + 1
      BY <1>1, <1>8, <2>2, AppendElements DEF Release, push_back, TypeOK
    <3> HIDE DEF Popping, Posting, Undefined, Length
    <3> QED
      BY <1>1, <1>2, <1>3, <1>8, <2>2, <3>1, <3>2 DEF Release
  <2> QED
    BY <2>1, <2>2
<1>9. ASSUME NEW t \in Thread, Post(t)
      PROVE  Balanced
  <2>1. /\ Popping' = Popping /\ Posting' = Posting - 1
        /\ Undefined' = Undefined
    BY <1>9, AtMoves DEF Post
  <2> HIDE DEF Popping, Posting, Undefined
  <2> QED
    BY <1>1, <1>2, <1>3, <1>9, <2>1 DEF Post
<1>10. CASE DestroyPool
  <2>1. /\ Popping' = Popping /\ Posting' = Posting
        /\ Undefined' = Undefined
    BY <1>10 DEF DestroyPool, At
  <2>2. closed' = {} => closed = {} /\ Length' = Length
    <3>1. Listed = {} => Length = 0
      BY <1>1 DEF Listed
    <3> QED
      BY <1>10, <3>1, EmptyElements DEF DestroyPool
  <2> HIDE DEF Popping, Posting, Undefined, Length
  <2> QED
    BY <1>1, <1>2, <1>3, <1>10, <2>1, <2>2 DEF DestroyPool
<1>11. CASE UNCHANGED vars
  BY <1>3, <1>11 DEF vars, At
<1> QED
  BY <1>5, <1>6, <1>7, <1>8, <1>9, <1>10, <1>11, <1>12
  DEF Next, Step

(* Permits and connections of the MySQL pool differ by the interrupted     *)
(* waits and by nothing else, for any number of threads.                   *)
THEOREM CoveredHolds == Spec => []Covered
<1>1. Init => TypeOK /\ Covered /\ OnlyInterrupted
  BY TypeInit, CoveredInit
<1>2. (TypeOK /\ Covered /\ OnlyInterrupted) /\ [Next]_vars
        => (TypeOK /\ Covered /\ OnlyInterrupted)'
  BY TypeStep, CoveredStep
<1> QED
  BY <1>1, <1>2, PTL DEF Spec

(* No more threads pop from an empty list than waits were interrupted;     *)
(* with no interrupts none does.                                           *)
THEOREM OnlyInterruptedHolds == Spec => []OnlyInterrupted
<1>1. Init => TypeOK /\ Covered /\ OnlyInterrupted
  BY TypeInit, CoveredInit
<1>2. (TypeOK /\ Covered /\ OnlyInterrupted) /\ [Next]_vars
        => (TypeOK /\ Covered /\ OnlyInterrupted)'
  BY TypeStep, CoveredStep
<1> QED
  BY <1>1, <1>2, PTL DEF Spec
=============================================================================
