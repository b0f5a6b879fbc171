------------------------------ MODULE TimerSet ------------------------------
(***************************************************************************)
(* What the timer container promises the event loop: it holds a set of     *)
(* timers, and a tick expires exactly those whose time has come.           *)
(***************************************************************************)
EXTENDS Naturals

CONSTANTS Timer,      \* addresses of util_timer objects
          Lifetime    \* 3 * TIMESLOT

VARIABLES now,        \* time(NULL)
          held,       \* the timers in the container
          due         \* per timer held: its expire

Init == now \in Nat /\ held = {} /\ due = [t \in Timer |-> 0]

Put(t) == due' = [due EXCEPT ![t] = now + Lifetime] /\ UNCHANGED now

Add(t)    == t \notin held /\ held' = held \cup {t} /\ Put(t)
Adjust(t) == t \in held /\ UNCHANGED held /\ Put(t)

Drop(T) == /\ T \subseteq held
           /\ held' = held \ T
           /\ due' = [t \in Timer |-> IF t \in T THEN 0 ELSE due[t]]
           /\ UNCHANGED now

Del(t) == t \in held /\ Drop({t})
Tick   == Drop({t \in held : due[t] <= now})

Clock == now' \in Nat /\ UNCHANGED <<held, due>>

Next == Tick \/ Clock \/ \E t \in Timer : Add(t) \/ Adjust(t) \/ Del(t)

Spec == Init /\ [][Next]_<<now, held, due>>
=============================================================================
