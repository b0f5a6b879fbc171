----------------------------- MODULE ThreadPool -----------------------------
(***************************************************************************)
(* threadpool.h between the mutex and the semaphore: the main thread       *)
(* appends requests, the workers wait, pop and run them.  A section under  *)
(* m_queuelocker is one step; post() and wait() are steps of their own.    *)
(*                                                                         *)
(* A wait() may return before a post(): the signal handlers are installed  *)
(* without SA_RESTART, so SIGALRM can interrupt a worker's sem_wait, and   *)
(* run() ignores what wait() returns.                                      *)
(***************************************************************************)
EXTENDS Integers, Sequences, FiniteSets

CONSTANTS Request,        \* requests the main thread may append
          Worker,
          NoRequest,      \* a worker has none
          m_max_requests,
          Interrupts      \* TRUE: a signal may interrupt sem_wait

ASSUME RequestAssumption == NoRequest \notin Request
ASSUME CapacityAssumption == m_max_requests \in Nat \ {0}
ASSUME InterruptAssumption == Interrupts \in BOOLEAN
ASSUME WorkerAssumption == IsFiniteSet(Worker)

VARIABLES m_workqueue,
          m_queuestat,    \* value of the semaphore
          mpc,            \* main thread: "ready", or "post" inside append()
          new,            \* requests not appended yet
          dropped,        \* requests append() refused
          wpc,            \* per worker: "wait", "lock" or "run"
          task,           \* per worker
          done            \* requests that were run

vars == <<m_workqueue, m_queuestat, mpc, new, dropped, wpc, task, done>>

Queued == {m_workqueue[i] : i \in 1 .. Len(m_workqueue)}

Init ==
    /\ m_workqueue = <<>> /\ m_queuestat = 0
    /\ mpc = "ready" /\ new = Request /\ dropped = {}
    /\ wpc = [w \in Worker |-> "wait"]
    /\ task = [w \in Worker |-> NoRequest]
    /\ done = {}

(* append() and append_p(), up to the unlock: a full queue takes nothing.  *)
Enqueue(r) ==
    /\ mpc = "ready" /\ r \in new
    /\ new' = new \ {r}
    /\ \/ /\ Len(m_workqueue) < m_max_requests
          /\ m_workqueue' = Append(m_workqueue, r)
          /\ mpc' = "post"
          /\ UNCHANGED dropped
       \/ /\ Len(m_workqueue) >= m_max_requests
          /\ dropped' = dropped \cup {r}
          /\ UNCHANGED <<m_workqueue, mpc>>
    /\ UNCHANGED <<m_queuestat, wpc, task, done>>

\* Mutant: post() is forgotten.
Post_omitted ==
    /\ mpc = "post"
    /\ mpc' = "ready"
    /\ UNCHANGED <<m_workqueue, m_queuestat, new, dropped, wpc, task, done>>

\* m_queuestat.post()
Post ==
    /\ mpc = "post"
    /\ mpc' = "ready"
    /\ m_queuestat' = m_queuestat + 1
    /\ UNCHANGED <<m_workqueue, new, dropped, wpc, task, done>>

\* m_queuestat.wait()
Wait(w) ==
    /\ wpc[w] = "wait" /\ m_queuestat > 0
    /\ m_queuestat' = m_queuestat - 1
    /\ wpc' = [wpc EXCEPT ![w] = "lock"]
    /\ UNCHANGED <<m_workqueue, mpc, new, dropped, task, done>>

Interrupt(w) ==
    /\ Interrupts /\ wpc[w] = "wait"
    /\ wpc' = [wpc EXCEPT ![w] = "lock"]
    /\ UNCHANGED <<m_workqueue, m_queuestat, mpc, new, dropped, task, done>>

\* Mutant: front() without pop_front().
pop_front_omitted == m_workqueue

pop_front == Tail(m_workqueue)

\* Under the lock: pop the front, or find nothing and wait again.
Pop(w) ==
    /\ wpc[w] = "lock"
    /\ \/ /\ m_workqueue = <<>>
          /\ wpc' = [wpc EXCEPT ![w] = "wait"]
          /\ UNCHANGED <<m_workqueue, task>>
       \/ /\ m_workqueue # <<>>
          /\ wpc' = [wpc EXCEPT ![w] = "run"]
          /\ task' = [task EXCEPT ![w] = Head(m_workqueue)]
          /\ m_workqueue' = pop_front
    /\ UNCHANGED <<m_queuestat, mpc, new, dropped, done>>

\* The request is processed.
Run(w) ==
    /\ wpc[w] = "run"
    /\ done' = done \cup {task[w]}
    /\ wpc' = [wpc EXCEPT ![w] = "wait"]
    /\ task' = [task EXCEPT ![w] = NoRequest]
    /\ UNCHANGED <<m_workqueue, m_queuestat, mpc, new, dropped>>

Main == Post \/ \E r \in Request : Enqueue(r)
Work(w) == Wait(w) \/ Pop(w) \/ Run(w)

Next == Main \/ \E w \in Worker : Work(w) \/ Interrupt(w)

Spec == Init /\ [][Next]_vars

\* The scheduler runs every thread; nothing forces a signal to come.
FairSpec == Spec /\ WF_vars(Post) /\ \A w \in Worker : WF_vars(Work(w))

-----------------------------------------------------------------------------
(* Correctness *)

(* A request is in one place: not appended, refused, queued once, run by   *)
(* one worker, or done; none is lost and none is run twice.                *)
Running(w) == {task[w]} \ {NoRequest}

OnePlace ==
    /\ \A i, j \in 1 .. Len(m_workqueue) :
          m_workqueue[i] = m_workqueue[j] => i = j
    /\ \A v, w \in Worker : v # w => Running(v) \cap Running(w) = {}
    /\ \A w \in Worker : Running(w) \cap (Queued \cup new \cup dropped \cup done) = {}
    /\ Queued \cap (new \cup dropped \cup done) = {}
    /\ new \cap (dropped \cup done) = {} /\ dropped \cap done = {}
    /\ Request = new \cup dropped \cup Queued \cup done
                 \cup UNION {Running(w) : w \in Worker}

(* Every request in the queue has its wake-up: a permit in the semaphore,  *)
(* a worker that took one and is about to look, or the post() under way.   *)
(* So the workers never all sleep on a queue that holds something.         *)
Looking == {w \in Worker : wpc[w] = "lock"}

Awake ==
    Len(m_workqueue) <= m_queuestat + Cardinality(Looking)
                        + (IF mpc = "post" THEN 1 ELSE 0)

(* What is queued is run.                                                  *)
QueuedIsRun == \A r \in Request : (r \in Queued) ~> (r \in done)
=============================================================================
