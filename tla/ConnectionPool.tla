--------------------------- MODULE ConnectionPool ---------------------------
(***************************************************************************)
(* connection_pool.cpp: the MySQL connections the threads borrow through   *)
(* connectionRAII, between a semaphore and a mutex.  A section under       *)
(* m_mutex is one step; the unlocked look at connlist, wait() and post()   *)
(* are steps of their own.                                                 *)
(***************************************************************************)
EXTENDS Integers, Sequences, FiniteSets

CONSTANTS Conn,       \* the MaxConn connections init() opens
          Thread,     \* threads that use connectionRAII
          NULL,
          MaxInterrupts \* bound: how many sem_wait calls a signal interrupts

ASSUME ConnAssumption == IsFiniteSet(Conn) /\ IsFiniteSet(Thread)
ASSUME NullAssumption == NULL \notin Conn
ASSUME InterruptAssumption == MaxInterrupts \in Nat

VARIABLES connlist,
          reserve,     \* value of the semaphore
          m_freeconn, m_curconn,
          pc,          \* per thread: where it is; "undefined" after it popped
                       \* from an empty list
          con,         \* per thread: its connRAII
          closed,      \* connections DestroyPool() has closed
          interrupts   \* how many waits a signal has ended so far

vars == <<connlist, reserve, m_freeconn, m_curconn, pc, con, closed,
          interrupts>>

Listed == {connlist[i] : i \in 1 .. Len(connlist)}
At(place) == {t \in Thread : pc[t] = place}

(* init(): MaxConn connections, and a semaphore that counts them.          *)
Init ==
    /\ connlist \in [1 .. Cardinality(Conn) -> Conn] /\ Listed = Conn
    /\ reserve = Cardinality(Conn)
    /\ m_freeconn = Cardinality(Conn) /\ m_curconn = 0
    /\ pc = [t \in Thread |-> "idle"]
    /\ con = [t \in Thread |-> NULL]
    /\ closed = {} /\ interrupts = 0

Go(t, place) == pc' = [pc EXCEPT ![t] = place]

(* GetConnection(), before the lock: NULL when the list looks empty.       *)
Look(t) ==
    /\ pc[t] = "idle"
    /\ Go(t, IF connlist = <<>> THEN "use" ELSE "wait")
    /\ UNCHANGED <<connlist, reserve, m_freeconn, m_curconn, con, closed,
                   interrupts>>

\* reserve.wait() takes a permit.
Wait(t) ==
    /\ pc[t] = "wait" /\ reserve > 0
    /\ reserve' = reserve - 1
    /\ Go(t, "pop")
    /\ UNCHANGED <<connlist, m_freeconn, m_curconn, con, closed, interrupts>>

(* reserve.wait() ends without one: a signal interrupts it (the handlers   *)
(* are installed without SA_RESTART) and GetConnection() ignores that.     *)
Interrupt(t) ==
    /\ pc[t] = "wait" /\ interrupts < MaxInterrupts
    /\ interrupts' = interrupts + 1
    /\ Go(t, "pop")
    /\ UNCHANGED <<connlist, reserve, m_freeconn, m_curconn, con, closed>>

\* Mutant: front() without pop_front().
pop_front_omitted == connlist

pop_front == Tail(connlist)

(* GetConnection(), under the lock: front() and pop_front(), which the     *)
(* code does without looking again whether there is anything to pop; what  *)
(* the thread does after it popped from an empty list is undefined.        *)
Pop(t) ==
    /\ pc[t] = "pop"
    /\ \/ /\ connlist # <<>>
          /\ con' = [con EXCEPT ![t] = Head(connlist)]
          /\ connlist' = pop_front
          /\ m_freeconn' = m_freeconn - 1 /\ m_curconn' = m_curconn + 1
          /\ Go(t, "use")
       \/ /\ connlist = <<>>
          /\ Go(t, "undefined")
          /\ UNCHANGED <<connlist, m_freeconn, m_curconn, con>>
    /\ UNCHANGED <<reserve, closed, interrupts>>

\* Mutant: the connection is not put back.
push_back_omitted(c) == connlist

push_back(c) == Append(connlist, c)

(* ~connectionRAII: ReleaseConnection() under the lock; NULL is not given  *)
(* back.                                                                   *)
Release(t) ==
    /\ pc[t] = "use"
    /\ \/ /\ con[t] = NULL
          /\ Go(t, "idle")
          /\ UNCHANGED <<connlist, m_freeconn, m_curconn, con>>
       \/ /\ con[t] # NULL
          /\ connlist' = push_back(con[t])
          /\ con' = [con EXCEPT ![t] = NULL]
          /\ m_freeconn' = m_freeconn + 1 /\ m_curconn' = m_curconn - 1
          /\ Go(t, "post")
    /\ UNCHANGED <<reserve, closed, interrupts>>

\* Mutant: post() is forgotten.
Post_omitted(t) ==
    /\ pc[t] = "post"
    /\ Go(t, "idle")
    /\ UNCHANGED <<connlist, reserve, m_freeconn, m_curconn, con, closed,
                   interrupts>>

\* reserve.post()
Post(t) ==
    /\ pc[t] = "post"
    /\ reserve' = reserve + 1
    /\ Go(t, "idle")
    /\ UNCHANGED <<connlist, m_freeconn, m_curconn, con, closed, interrupts>>

(* DestroyPool(), which runs when the process exits while the detached     *)
(* workers still run: the free connections are closed, the permits stay.   *)
DestroyPool ==
    /\ closed' = closed \cup Listed
    /\ connlist' = <<>>
    /\ IF connlist = <<>> THEN UNCHANGED <<m_freeconn, m_curconn>>
       ELSE m_freeconn' = 0 /\ m_curconn' = 0
    /\ UNCHANGED <<reserve, pc, con, interrupts>>

Step(t) == Look(t) \/ Wait(t) \/ Pop(t) \/ Release(t) \/ Post(t)

Next == DestroyPool \/ \E t \in Thread : Step(t) \/ Interrupt(t)

Spec == Init /\ [][Next]_vars

\* The scheduler runs every thread; nothing forces a signal to come.
FairSpec == Spec /\ \A t \in Thread : WF_vars(Step(t))

-----------------------------------------------------------------------------
(* Correctness *)

(* A connection is used by one thread at a time, and while it is used it   *)
(* is neither in the list nor closed.                                      *)
Exclusive ==
    /\ \A i, j \in 1 .. Len(connlist) : connlist[i] = connlist[j] => i = j
    /\ \A t \in Thread : con[t] # NULL =>
          /\ con[t] \notin Listed \cup closed
          /\ \A u \in Thread \ {t} : con[u] # con[t]

(* Permits and connections are the same number but for the interrupts:     *)
(* the list holds a connection for every permit in the semaphore, taken    *)
(* from it or about to be given back, less one for every wait that a       *)
(* signal ended.  (Until DestroyPool() has closed what was in the list.)   *)
Covered ==
    closed = {} =>
        reserve + Cardinality(At("pop")) + Cardinality(At("post"))
          + Cardinality(At("undefined")) = Len(connlist) + interrupts

(* Only an interrupted wait lets a thread pop from an empty list, in any   *)
(* interleaving of the unlocked look, the two steps of an acquire and the  *)
(* two of a release; and each one lets no more than one thread do so.      *)
OnlyInterrupted == closed = {} => Cardinality(At("undefined")) <= interrupts

(* The pool never stops with threads waiting in it: while any thread waits *)
(* for a connection, some thread goes on to take one, and no signal is     *)
(* needed for that.                                                        *)
WaitersServed == (At("wait") # {}) ~> (At("pop") # {} \/ closed # {})
=============================================================================
