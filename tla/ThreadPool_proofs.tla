-------------------------- MODULE ThreadPool_proofs --------------------------
(***************************************************************************)
(* Theorems about ThreadPool, for any requests, workers and capacity.      *)
(***************************************************************************)
EXTENDS ThreadPool, SharedLemmas, FiniteSetTheorems

-----------------------------------------------------------------------------
(* The inductive invariant *)

(* The variables keep their types, and a worker has a task while it runs   *)
(* one and at no other time.                                               *)
TypeOK ==
    /\ m_workqueue \in Seq(Request) /\ m_queuestat \in Nat
    /\ mpc \in {"ready", "post"}
    /\ new \subseteq Request /\ dropped \subseteq Request /\ done \subseteq Request
    /\ wpc \in [Worker -> {"wait", "lock", "run"}]
    /\ task \in [Worker -> Request \cup {NoRequest}]
    /\ \A w \in Worker : task[w] # NoRequest <=> wpc[w] = "run"

LEMMA TypeInit == Init => TypeOK
  BY EmptySeq DEF Init, TypeOK

LEMMA TypeStep == TypeOK /\ [Next]_vars => TypeOK'
<1> SUFFICES ASSUME TypeOK, [Next]_vars PROVE TypeOK'
  OBVIOUS
<1> USE RequestAssumption DEF TypeOK
<1>1. ASSUME NEW r \in Request, Enqueue(r) PROVE TypeOK'
  BY <1>1, AppendElements DEF Enqueue
<1>2. CASE Post
  BY <1>2 DEF Post
<1>3. ASSUME NEW w \in Worker, Wait(w) PROVE TypeOK'
  BY <1>3 DEF Wait
<1>4. ASSUME NEW w \in Worker, Interrupt(w) PROVE TypeOK'
  BY <1>4 DEF Interrupt
<1>5. ASSUME NEW w \in Worker, Pop(w) PROVE TypeOK'
  <2>1. CASE m_workqueue = <<>>
    BY <1>5, <2>1 DEF Pop
  <2>2. CASE m_workqueue # <<>>
    <3>1. Tail(m_workqueue) \in Seq(Request) /\ Head(m_workqueue) \in Request
      BY <2>2, TailElements
    <3> QED
      BY <1>5, <2>2, <3>1 DEF Pop, pop_front
  <2> QED
    BY <2>1, <2>2
<1>6. ASSUME NEW w \in Worker, Run(w) PROVE TypeOK'
  BY <1>6 DEF Run
<1>7. CASE UNCHANGED vars
  BY <1>7 DEF vars
<1> QED
  BY <1>1, <1>2, <1>3, <1>4, <1>5, <1>6, <1>7 DEF Next, Main, Work

(* Type correctness of the pool: a worker has a task just while it runs it.*)
THEOREM TypeCorrect == Spec => []TypeOK
  BY TypeInit, TypeStep, PTL DEF Spec

-----------------------------------------------------------------------------
(* OnePlace *)

LEMMA QueuedElements == Queued = Elements(m_workqueue)
  BY DEF Queued, Elements

(* OnePlace, request by request.                                           *)
Has(w, r) == task[w] = r
Held == Elements(m_workqueue)
Placed(r) ==
    /\ \A v, w \in Worker : Has(v, r) /\ Has(w, r) => v = w
    /\ \A w \in Worker : Has(w, r) => r \notin Held \cup new \cup dropped \cup done
    /\ r \in Held => r \notin new \cup dropped \cup done
    /\ r \in new => r \notin dropped \cup done
    /\ r \in dropped => r \notin done
    /\ \/ r \in new \cup dropped \cup Held \cup done
       \/ \E w \in Worker : Has(w, r)

Places == Distinct(m_workqueue) /\ \A r \in Request : Placed(r)

LEMMA PlacesOnePlace == TypeOK /\ Places => OnePlace
<1> SUFFICES ASSUME TypeOK, Places PROVE OnePlace
  OBVIOUS
<1>1. ASSUME NEW w \in Worker, NEW r \in Running(w)
      PROVE  r \in Request /\ Has(w, r)
  BY <1>1 DEF TypeOK, Running, Has
<1>2. ASSUME NEW r \in Request, NEW w \in Worker, Has(w, r)
      PROVE  r \in Running(w)
  BY <1>2, RequestAssumption DEF Running, Has
<1>3. Queued \subseteq Request /\ Queued = Elements(m_workqueue)
  BY QueuedElements DEF TypeOK, Queued
<1>4. \A i, j \in 1 .. Len(m_workqueue) : m_workqueue[i] = m_workqueue[j] => i = j
  BY DEF Places, Distinct
<1>5. \A v, w \in Worker : v # w => Running(v) \cap Running(w) = {}
  BY <1>1 DEF Places, Placed, Held
<1>6. \A w \in Worker : Running(w) \cap (Queued \cup new \cup dropped \cup done) = {}
  BY <1>1, <1>3 DEF Places, Placed, Held
<1>7. /\ Queued \cap (new \cup dropped \cup done) = {}
      /\ new \cap (dropped \cup done) = {} /\ dropped \cap done = {}
  BY <1>3 DEF Places, Placed, Held, TypeOK
<1>8. Request = new \cup dropped \cup Queued \cup done
                \cup UNION {Running(w) : w \in Worker}
  BY <1>1, <1>2, <1>3 DEF Places, Placed, Held, TypeOK
<1> QED
  BY <1>4, <1>5, <1>6, <1>7, <1>8 DEF OnePlace

LEMMA PlacesInit == Init => Places
  BY RequestAssumption, EmptyElements DEF Init, Places, Placed, Held, Has

LEMMA PlacesStep == TypeOK /\ Places /\ [Next]_vars => Places'
<1> SUFFICES ASSUME TypeOK, Places, [Next]_vars PROVE Places'
  OBVIOUS
<1> USE RequestAssumption
<1>1. ASSUME NEW r \in Request, Enqueue(r) PROVE Places'
  <2>1. CASE Len(m_workqueue) < m_max_requests /\ m_workqueue' = Append(m_workqueue, r)
    <3>1. r \in new /\ r \notin Elements(m_workqueue)
      BY <1>1 DEF Enqueue, Places, Placed, Held
    <3>2. /\ Elements(m_workqueue') = Elements(m_workqueue) \cup {r}
          /\ Distinct(m_workqueue')
      BY <2>1, <3>1, AppendElements DEF Places, TypeOK
    <3>3. new' = new \ {r} /\ UNCHANGED <<dropped, task, done>>
      BY <1>1, <2>1, CapacityAssumption DEF Enqueue, TypeOK
    <3> QED
      BY <3>1, <3>2, <3>3 DEF Places, Placed, Held, Has
  <2>2. CASE Len(m_workqueue) >= m_max_requests /\ UNCHANGED m_workqueue
    BY <1>1, <2>2 DEF Enqueue, Places, Placed, Held, TypeOK, Has
  <2> QED
    BY <1>1, <2>1, <2>2 DEF Enqueue
<1>2. CASE Post
  BY <1>2 DEF Post, Places, Placed, Held, Has
<1>3. ASSUME NEW w \in Worker, Wait(w) PROVE Places'
  BY <1>3 DEF Wait, Places, Placed, Held, Has
<1>4. ASSUME NEW w \in Worker, Interrupt(w) PROVE Places'
  BY <1>4 DEF Interrupt, Places, Placed, Held, Has
<1>5. ASSUME NEW w \in Worker, Pop(w) PROVE Places'
  <2>1. CASE m_workqueue = <<>>
    BY <1>5, <2>1 DEF Pop, Places, Placed, Held, Has
  <2>2. CASE m_workqueue # <<>>
    <3> DEFINE h == Head(m_workqueue)
    <3>0. m_workqueue' = Tail(m_workqueue) /\ Distinct(m_workqueue)
      BY <1>5, <2>2 DEF Pop, pop_front, Places
    <3>1. /\ Elements(m_workqueue) = Elements(m_workqueue') \cup {h}
          /\ h \notin Elements(m_workqueue')
          /\ Distinct(m_workqueue') /\ h \in Request
      BY <2>2, <3>0, TailElements DEF TypeOK
    <3>2. /\ task' = [task EXCEPT ![w] = h] /\ task[w] = NoRequest
          /\ UNCHANGED <<new, dropped, done>>
      BY <1>5, <2>2 DEF Pop, TypeOK
    <3> HIDE DEF h
    <3>3. \A v \in Worker, r \in Request :
            Has(v, r)' <=> IF v = w THEN r = h ELSE Has(v, r)
      BY <3>1, <3>2 DEF TypeOK, Has
    <3>4. \A r \in Request : ~Has(w, r)
      BY <3>2 DEF Has
    <3>5. ASSUME NEW r \in Request PROVE Placed(r)'
      <4>1. Placed(r)
        BY DEF Places
      <4>2. CASE r = h
        BY <4>1, <4>2, <3>1, <3>2, <3>3 DEF Placed, Held
      <4>3. CASE r # h
        BY <4>1, <4>3, <3>1, <3>2, <3>3, <3>4 DEF Placed, Held
      <4> QED
        BY <4>2, <4>3
    <3> QED
      BY <3>1, <3>5 DEF Places
  <2> QED
    BY <2>1, <2>2
<1>6. ASSUME NEW w \in Worker, Run(w) PROVE Places'
  <2>1. /\ task' = [task EXCEPT ![w] = NoRequest] /\ task[w] \in Request
        /\ done' = done \cup {task[w]}
        /\ UNCHANGED <<m_workqueue, new, dropped>>
    BY <1>6 DEF Run, TypeOK
  <2>2. \A v \in Worker, r \in Request : Has(v, r)' <=> v # w /\ Has(v, r)
    BY <2>1 DEF TypeOK, Has
  <2>3. Elements(m_workqueue)' = Elements(m_workqueue) /\ Distinct(m_workqueue)'
    BY <2>1 DEF Places, Placed, Held
  <2>4. Has(w, task[w])
    BY DEF Has
  <2>5. ASSUME NEW r \in Request PROVE Placed(r)'
    <3>1. Placed(r)
      BY DEF Places
    <3>2. CASE r = task[w]
      BY <3>1, <3>2, <2>1, <2>2, <2>3, <2>4 DEF Placed, Held
    <3>3. CASE r # task[w]
      <4>1. ~Has(w, r)
        BY <3>3 DEF Has
      <4> QED
        BY <3>1, <3>3, <4>1, <2>1, <2>2, <2>3 DEF Placed, Held
    <3> QED
      BY <3>2, <3>3
  <2> QED
    BY <2>3, <2>5 DEF Places
<1>7. CASE UNCHANGED vars
  BY <1>7 DEF vars, Places, Placed, Held, Has
<1> QED
  BY <1>1, <1>2, <1>3, <1>4, <1>5, <1>6, <1>7 DEF Next, Main, Work

(* No request is lost, queued twice, run twice or run while it is queued,  *)
(* whatever signals interrupt and however many workers there are.          *)
THEOREM OnePlaceHolds == Spec => []OnePlace
<1>1. Init => TypeOK /\ Places
  BY TypeInit, PlacesInit
<1>2. (TypeOK /\ Places) /\ [Next]_vars => (TypeOK /\ Places)'
  BY TypeStep, PlacesStep
<1>3. TypeOK /\ Places => OnePlace
  BY PlacesOnePlace
<1> QED
  BY <1>1, <1>2, <1>3, PTL DEF Spec

-----------------------------------------------------------------------------
(* Awake *)

LEMMA LookingFinite ==
  /\ IsFiniteSet(Looking) /\ Cardinality(Looking) \in Nat
  /\ Looking = {} => Cardinality(Looking) = 0
<1>1. IsFiniteSet(Looking)
  BY WorkerAssumption, FS_Subset DEF Looking
<1> QED
  BY <1>1, FS_CardinalityType, FS_EmptySet

(* A worker comes to look at the queue, or has looked.                     *)
LEMMA LookingCount ==
  ASSUME NEW w \in Worker, NEW pc \in {"wait", "lock", "run"},
         wpc \in [Worker -> {"wait", "lock", "run"}],
         wpc' = [wpc EXCEPT ![w] = pc]
  PROVE  /\ (wpc[w] # "lock" /\ pc = "lock") =>
              Cardinality(Looking)' = Cardinality(Looking) + 1
         /\ (wpc[w] = "lock" /\ pc # "lock") =>
              Cardinality(Looking)' = Cardinality(Looking) - 1
         /\ (wpc[w] # "lock" /\ pc # "lock") =>
              Cardinality(Looking)' = Cardinality(Looking)
<1>1. IsFiniteSet(Looking)
  BY LookingFinite
<1>2. ASSUME wpc[w] # "lock", pc = "lock"
      PROVE  Cardinality(Looking)' = Cardinality(Looking) + 1
  <2>1. Looking' = Looking \cup {w} /\ w \notin Looking
    BY <1>2 DEF Looking
  <2> QED
    BY <1>1, <2>1, FS_AddElement
<1>3. ASSUME wpc[w] = "lock", pc # "lock"
      PROVE  Cardinality(Looking)' = Cardinality(Looking) - 1
  <2>1. Looking' = Looking \ {w} /\ w \in Looking
    BY <1>3 DEF Looking
  <2> QED
    BY <1>1, <2>1, FS_RemoveElement
<1>4. ASSUME wpc[w] # "lock", pc # "lock"
      PROVE  Cardinality(Looking)' = Cardinality(Looking)
  <2>1. Looking' = Looking
    BY <1>4 DEF Looking
  <2> QED
    BY <2>1
<1> QED
  BY <1>2, <1>3, <1>4

LEMMA AwakeInit == Init => Awake
<1> SUFFICES ASSUME Init PROVE Awake
  OBVIOUS
<1>1. Looking = {} /\ Len(m_workqueue) = 0 /\ m_queuestat = 0 /\ mpc = "ready"
  BY EmptyElements DEF Init, Looking
<1> QED
  BY <1>1, LookingFinite DEF Awake

LEMMA AwakeStep == TypeOK /\ Awake /\ [Next]_vars => Awake'
<1> SUFFICES ASSUME TypeOK, Awake, [Next]_vars PROVE Awake'
  OBVIOUS
<1> DEFINE n == Cardinality(Looking)
<1>0. /\ Len(m_workqueue) \in Nat /\ m_queuestat \in Nat /\ n \in Nat
      /\ wpc \in [Worker -> {"wait", "lock", "run"}]
  BY LookingFinite, LenProperties DEF TypeOK
<1>1. ASSUME NEW r \in Request, Enqueue(r) PROVE Awake'
  <2>1. n' = n /\ mpc = "ready" /\ UNCHANGED m_queuestat
    BY <1>1 DEF Enqueue, Looking
  <2>2. CASE m_workqueue' = Append(m_workqueue, r) /\ mpc' = "post"
    <3>1. Len(m_workqueue') = Len(m_workqueue) + 1
      BY <2>2, AppendElements DEF TypeOK
    <3> QED
      BY <1>0, <2>1, <2>2, <3>1 DEF Awake
  <2>3. CASE UNCHANGED <<m_workqueue, mpc>>
    BY <1>0, <2>1, <2>3 DEF Awake
  <2> QED
    BY <1>1, <2>2, <2>3 DEF Enqueue
<1>2. CASE Post
  <2>1. n' = n
    BY <1>2 DEF Post, Looking
  <2> QED
    BY <1>0, <1>2, <2>1 DEF Post, Awake
<1>3. ASSUME NEW w \in Worker, Wait(w) PROVE Awake'
  <2>1. n' = n + 1
    BY <1>0, <1>3, LookingCount DEF Wait
  <2> QED
    BY <1>0, <1>3, <2>1 DEF Wait, Awake
<1>4. ASSUME NEW w \in Worker, Interrupt(w) PROVE Awake'
  <2>1. n' = n + 1
    BY <1>0, <1>4, LookingCount DEF Interrupt
  <2> QED
    BY <1>0, <1>4, <2>1 DEF Interrupt, Awake
<1>5. ASSUME NEW w \in Worker, Pop(w) PROVE Awake'
  <2>1. UNCHANGED <<m_queuestat, mpc>>
    BY <1>5 DEF Pop
  <2>2. CASE m_workqueue = <<>> /\ wpc' = [wpc EXCEPT ![w] = "wait"]
    <3>1. n' = n - 1
      BY <1>0, <1>5, <2>2, LookingCount DEF Pop
    <3>2. n' \in Nat
      <4>1. IsFiniteSet(Looking')
        BY WorkerAssumption, FS_Subset DEF Looking
      <4> QED
        BY <4>1, FS_CardinalityType
    <3>3. Len(m_workqueue') = 0
      BY <1>5, <2>2, EmptyElements DEF Pop
    <3> QED
      BY <1>0, <2>1, <3>2, <3>3 DEF Awake
  <2>3. CASE m_workqueue # <<>>
    <3>1. n' = n - 1
      BY <1>0, <1>5, <2>3, LookingCount DEF Pop
    <3>2. Len(m_workqueue') = Len(m_workqueue) - 1
      BY <1>5, <2>3, TailElements DEF Pop, pop_front, TypeOK
    <3> QED
      BY <1>0, <2>1, <3>1, <3>2 DEF Awake
  <2> QED
    BY <1>5, <2>2, <2>3 DEF Pop
<1>6. ASSUME NEW w \in Worker, Run(w) PROVE Awake'
  <2>1. n' = n
    BY <1>0, <1>6, LookingCount DEF Run
  <2> QED
    BY <1>0, <1>6, <2>1 DEF Run, Awake
<1>7. CASE UNCHANGED vars
  BY <1>0, <1>7 DEF vars, Awake, Looking
<1> QED
  BY <1>1, <1>2, <1>3, <1>4, <1>5, <1>6, <1>7 DEF Next, Main, Work

(* The workers never all sleep on a queue that holds something: each       *)
(* request in it has a permit, a worker on its way, or its post() to come. *)
THEOREM AwakeHolds == Spec => []Awake
<1>1. Init => TypeOK /\ Awake
  BY TypeInit, AwakeInit
<1>2. (TypeOK /\ Awake) /\ [Next]_vars => (TypeOK /\ Awake)'
  BY TypeStep, AwakeStep
<1> QED
  BY <1>1, <1>2, PTL DEF Spec
=============================================================================
