------------------------------ MODULE TimerList ------------------------------
(***************************************************************************)
(* sort_timer_list (lst_timer.cpp): the doubly linked list of util_timer   *)
(* objects, pointer by pointer, under the calls the event loop makes: a    *)
(* new timer is added with expire = now + 3 * TIMESLOT, a timer in the     *)
(* list is adjusted to that expire or deleted, and tick() runs now and     *)
(* then.  time(NULL) is the wall clock; here it only goes forward.         *)
(***************************************************************************)
EXTENDS Integers, FiniteSets

CONSTANTS Timer,      \* addresses operator new may return
          NULL,
          Lifetime,   \* 3 * TIMESLOT
          MaxTime     \* bound: the last time the clock shows

ASSUME NullAssumption == NULL \notin Timer
ASSUME TimerAssumption == IsFiniteSet(Timer)
ASSUME TimeAssumption == Lifetime \in Nat \ {0} /\ MaxTime \in Nat

VARIABLES now,      \* time(NULL)
          heap,     \* the allocated timers
          expire,   \* per timer
          lst       \* head, tail, and every timer's next and prev

timerVars == <<now, heap, expire, lst>>

Pointer == Timer \cup {NULL}
List == [head : Pointer, tail : Pointer,
         next : [Timer -> Pointer], prev : [Timer -> Pointer]]

TimerInit ==
    /\ now = 0 /\ heap = {}
    /\ expire = [t \in Timer |-> 0]
    /\ lst = [head |-> NULL, tail |-> NULL,
              next |-> [t \in Timer |-> NULL], prev |-> [t \in Timer |-> NULL]]

-----------------------------------------------------------------------------
(* The list operations, as functions of the list.  A list L never has more *)
(* nodes than there are timers, so Size steps lead from a node past its    *)
(* end.                                                                    *)
Size == Cardinality(Timer)

Walk(L, n) ==
    LET at[i \in 0 .. Size] ==
          IF i = 0 THEN n
          ELSE IF at[i - 1] = NULL THEN NULL ELSE L.next[at[i - 1]]
    IN  at

\* The number of steps from n, at least from, to the first node with P.
Steps(L, n, from, P(_)) ==
    CHOOSE i \in from .. Size : /\ P(Walk(L, n)[i])
                               /\ \A j \in from .. i - 1 : ~P(Walk(L, n)[j])

(* add_timer(timer, lst_head): before the first node after lst_head that   *)
(* expires later than the timer, or at the tail.                           *)
InsertAfter(L, exp, t, lst_head) ==
    LET Later(n) == n = NULL \/ exp[t] < exp[n]
        i == Steps(L, lst_head, 1, Later)
        prev_node == Walk(L, lst_head)[i - 1]
        tmp == Walk(L, lst_head)[i]
    IN  [L EXCEPT !.next = [@ EXCEPT ![prev_node] = t, ![t] = tmp],
                  !.prev = [n \in Timer |-> IF n = t THEN prev_node
                                            ELSE IF n = tmp THEN t ELSE @[n]],
                  !.tail = IF tmp = NULL THEN t ELSE @]

(* add_timer(timer)                                                        *)
AddTimer(L, exp, t) ==
    IF L.head = NULL
    THEN [L EXCEPT !.head = t, !.tail = t]
    ELSE IF exp[t] < exp[L.head]
    THEN [L EXCEPT !.next[t] = L.head, !.prev[L.head] = t, !.head = t]
    ELSE InsertAfter(L, exp, t, L.head)

(* adjust_timer(timer): only a timer that now expires no earlier than its  *)
(* successor is taken out and inserted again.                              *)
AdjustTimer(L, exp, t) ==
    LET tmp == L.next[t]
        p == L.prev[t]
    IN  IF tmp = NULL THEN L
        ELSE IF exp[t] < exp[tmp] THEN L
        ELSE IF t = L.head
        THEN InsertAfter([L EXCEPT !.head = tmp, !.prev[tmp] = NULL,
                                   !.next[t] = NULL], exp, t, tmp)
        ELSE InsertAfter([L EXCEPT !.next[p] = tmp, !.prev[tmp] = p],
                         exp, t, tmp)

\* delete: the memory of the timers in T is given back.
Freed(L, T) == [L EXCEPT !.next = [n \in Timer |-> IF n \in T THEN NULL ELSE @[n]],
                         !.prev = [n \in Timer |-> IF n \in T THEN NULL ELSE @[n]]]

\* Mutant: the last node is taken out like the others.
DelTimer_tail(L, t) ==
    LET n == L.next[t]
        p == L.prev[t]
    IN  Freed(IF t = L.head /\ t = L.tail
              THEN [L EXCEPT !.head = NULL, !.tail = NULL]
              ELSE IF t = L.head THEN [L EXCEPT !.head = n, !.prev[n] = NULL]
              ELSE [L EXCEPT !.next[p] = n,
                             !.prev = [m \in Timer |-> IF m = n THEN p ELSE @[m]]],
              {t})

(* del_timer(timer)                                                        *)
DelTimer(L, t) ==
    LET n == L.next[t]
        p == L.prev[t]
    IN  Freed(IF t = L.head /\ t = L.tail
              THEN [L EXCEPT !.head = NULL, !.tail = NULL]
              ELSE IF t = L.head THEN [L EXCEPT !.head = n, !.prev[n] = NULL]
              ELSE IF t = L.tail THEN [L EXCEPT !.tail = p, !.next[p] = NULL]
              ELSE [L EXCEPT !.next[p] = n, !.prev[n] = p],
              {t})

\* Mutant: a timer that is due this second is not yet due.
Expired_late(L, exp, time) ==
    LET Stop(n) == n = NULL \/ time <= exp[n]
    IN  {Walk(L, L.head)[j] : j \in 0 .. Steps(L, L.head, 0, Stop) - 1}

(* tick(): the nodes before the first one that has not expired are freed;  *)
(* the tail is left as it is, even when no node is left.                   *)
Expired(L, exp, time) ==
    LET Stop(n) == n = NULL \/ time < exp[n]
    IN  {Walk(L, L.head)[j] : j \in 0 .. Steps(L, L.head, 0, Stop) - 1}

TickList(L, exp, time) ==
    LET Stop(n) == n = NULL \/ time < exp[n]
        first == Walk(L, L.head)[Steps(L, L.head, 0, Stop)]
        rest == Freed(L, Expired(L, exp, time))
    IN  IF L.head = NULL \/ first = L.head THEN L
        ELSE IF first = NULL THEN [rest EXCEPT !.head = NULL]
        ELSE [rest EXCEPT !.head = first, !.prev[first] = NULL]

-----------------------------------------------------------------------------
(* The event loop's calls *)

\* cur + 3 * TIMESLOT
Deadline == now + Lifetime

\* WebServer::timer()
Add(t) ==
    /\ t \notin heap
    /\ heap' = heap \cup {t}
    /\ expire' = [expire EXCEPT ![t] = Deadline]
    /\ lst' = AddTimer(lst, expire', t)
    /\ UNCHANGED now

\* WebServer::adjust_timer()
Adjust(t) ==
    /\ t \in heap
    /\ expire' = [expire EXCEPT ![t] = Deadline]
    /\ lst' = AdjustTimer(lst, expire', t)
    /\ UNCHANGED <<now, heap>>

\* WebServer::deal_timer()
Del(t) ==
    /\ t \in heap
    /\ heap' = heap \ {t}
    /\ expire' = [expire EXCEPT ![t] = 0]
    /\ lst' = DelTimer(lst, t)
    /\ UNCHANGED now

\* Utils::timer_handler()
Tick ==
    LET gone == Expired(lst, expire, now)
    IN  /\ heap' = heap \ gone
        /\ expire' = [t \in Timer |-> IF t \in gone THEN 0 ELSE expire[t]]
        /\ lst' = TickList(lst, expire, now)
        /\ UNCHANGED now

Clock ==
    /\ now < MaxTime /\ now' = now + 1
    /\ UNCHANGED <<heap, expire, lst>>

TimerNext == Tick \/ Clock \/ \E t \in Timer : Add(t) \/ Adjust(t) \/ Del(t)

TimerSpec == TimerInit /\ [][TimerNext]_timerVars

-----------------------------------------------------------------------------
(* Correctness *)

(* The links are a doubly linked list of exactly the allocated timers:     *)
(* nothing in it is freed, nothing allocated is lost, it has no cycle, and *)
(* tail, which tick() leaves dangling, is right whenever it is used.       *)
Nodes == {Walk(lst, lst.head)[i] : i \in 0 .. Size} \ {NULL}

WellLinked ==
    /\ Nodes = heap
    /\ Walk(lst, lst.head)[Size] = NULL
    /\ heap # {} => /\ lst.prev[lst.head] = NULL
                    /\ lst.tail \in heap /\ lst.next[lst.tail] = NULL
    /\ \A t \in heap : lst.next[t] # NULL => lst.prev[lst.next[t]] = t

(* The list implements the set: in particular a tick expires all timers    *)
(* that are due, wherever they stand, and no other.                        *)
Set == INSTANCE TimerSet WITH held <- heap, due <- expire

SetSpec == Set!Spec
=============================================================================
