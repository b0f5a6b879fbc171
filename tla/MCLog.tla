-------------------------------- MODULE MCLog --------------------------------
(* Instances of Log for TLC. *)
EXTENDS Log, TLC

Symmetry == Permutations(Thread)

Async(size, each, days, fails) ==
    [m_is_async |-> TRUE, max_queue_size |-> size, m_max_lines |-> 2,
     Calls |-> each, LastDay |-> days, OpenFails |-> fails]

\* Many lines in a day; a midnight, a queue of two and files that fail to
\* open; and no flush thread.
SomeOptions ==
    {Async(1, 3, 0, FALSE), Async(2, 2, 1, TRUE),
     [Async(1, 3, 0, FALSE) EXCEPT !.m_is_async = FALSE]}
=============================================================================
