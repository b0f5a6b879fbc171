------------------------------ MODULE BlockQueue ------------------------------
(***************************************************************************)
(* block_queue.h: the circular array between a mutex and a condition       *)
(* variable, under threads that push and threads that pop.  A section      *)
(* under m_mutex is one step.  pthread_cond_wait gives the mutex up and    *)
(* sleeps in one step; it returns after a broadcast, or spuriously.        *)
(***************************************************************************)
EXTENDS Integers, Sequences, FiniteSets

CONSTANTS Item,       \* what is pushed, each once
          Consumer,   \* threads that call pop()
          Blank,      \* the value of an array cell never written
          m_max_size

ASSUME ItemAssumption == Blank \notin Item
ASSUME SizeAssumption == m_max_size \in Nat \ {0}

VARIABLES m_array, m_size, m_front, m_back,
          new,        \* items not pushed yet
          refused,    \* items push() returned false for
          cleared,    \* items clear() threw away
          cpc,        \* per consumer: "pop", or "asleep" in m_cond
          got         \* the items popped

vars == <<m_array, m_size, m_front, m_back, new, refused, cleared, cpc,
          got>>

Index == 0 .. m_max_size - 1

(* The m_size cells after m_front, round the end of the array, hold the    *)
(* items in the order of their push(): m_back is the last of them.         *)
items == [i \in 1 .. m_size |-> m_array[(m_front + i) % m_max_size]]

Init ==
    /\ m_array = [i \in Index |-> Blank]
    /\ m_size = 0 /\ m_front = -1 /\ m_back = -1
    /\ new = Item /\ refused = {} /\ cleared = {} /\ got = {}
    /\ cpc = [c \in Consumer |-> "pop"]

\* Mutant: nobody is woken.
broadcast_omitted == UNCHANGED cpc

\* m_cond.broadcast()
broadcast == cpc' = [c \in Consumer |-> "pop"]

\* Mutant: off by one.
full_late == m_size > m_max_size

full == m_size >= m_max_size

after(i) == (i + 1) % m_max_size

(* push(): a full queue takes nothing; either way every sleeper is woken.  *)
Push(x) ==
    /\ x \in new
    /\ new' = new \ {x}
    /\ \/ /\ full
          /\ refused' = refused \cup {x}
          /\ UNCHANGED <<m_array, m_size, m_back>>
       \/ /\ ~full
          /\ m_back' = after(m_back)
          /\ m_array' = [m_array EXCEPT ![after(m_back)] = x]
          /\ m_size' = m_size + 1
          /\ UNCHANGED refused
    /\ broadcast
    /\ UNCHANGED <<m_front, cleared, got>>

(* pop() with the mutex, on entry or when wait() has returned: the test is *)
(* made anew, and an empty queue sends the thread (back) to sleep.         *)
Sleep(c) ==
    /\ cpc[c] = "pop" /\ m_size <= 0
    /\ cpc' = [cpc EXCEPT ![c] = "asleep"]
    /\ UNCHANGED <<m_array, m_size, m_front, m_back, new, refused, cleared,
                   got>>

Pop(c) ==
    /\ cpc[c] = "pop" /\ m_size > 0
    /\ m_front' = after(m_front)
    /\ got' = got \cup {m_array[after(m_front)]}
    /\ m_size' = m_size - 1
    /\ UNCHANGED <<m_array, m_back, new, refused, cleared, cpc>>

WakeUp(c) ==
    /\ cpc[c] = "asleep"
    /\ cpc' = [cpc EXCEPT ![c] = "pop"]
    /\ UNCHANGED <<m_array, m_size, m_front, m_back, new, refused, cleared,
                   got>>

\* clear(): the indices start anew, the array keeps what it holds.
Clear ==
    /\ m_size' = 0 /\ m_front' = -1 /\ m_back' = -1
    /\ cleared' = cleared \cup {items[i] : i \in 1 .. m_size}
    /\ UNCHANGED <<m_array, new, refused, cpc, got>>

Next ==
    \/ Clear
    \/ \E x \in Item : Push(x)
    \/ \E c \in Consumer : Sleep(c) \/ Pop(c) \/ WakeUp(c)

Spec == Init /\ [][Next]_vars

\* The scheduler runs every consumer that is not asleep.
FairSpec == Spec /\ \A c \in Consumer : WF_vars(Sleep(c) \/ Pop(c))

-----------------------------------------------------------------------------
(* Correctness *)

(* Wherever the indices wrap or restart, and whoever sleeps, is woken or   *)
(* is refused, the cells are a bounded first-in first-out queue.           *)
Queue == INSTANCE BoundedQueue WITH Item <- Item, Capacity <- m_max_size

QueueSpec == Queue!Spec

(* No lost wake-up: nobody sleeps on a queue that holds something.         *)
NoSleeper == m_size > 0 => \A c \in Consumer : cpc[c] # "asleep"

(* What is pushed is popped by somebody, if nobody clears it away.         *)
PushedIsPopped ==
    \A x \in Item : (x \notin new \cup refused) ~> (x \in got \cup cleared)
=============================================================================
