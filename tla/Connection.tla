----------------------------- MODULE Connection -----------------------------
(***************************************************************************)
(* What the server promises about the connections it serves: each one is   *)
(* in the hands of at most one party at a time, and it is closed only by   *)
(* the main thread, from its own hands, from those of epoll, or when it is *)
(* in nobody's.  A worker can rely on the connection it was given until it *)
(* gives it back.                                                          *)
(***************************************************************************)
CONSTANT Fd

VARIABLE owner   \* per descriptor: who may act on it; "nobody" when closed,
                 \* or refused by a full queue and waiting for its timer

Init == owner = [f \in Fd |-> "nobody"]

Move(F, from, to) ==
    /\ F # {} /\ \A f \in F : owner[f] = from
    /\ owner' = [f \in Fd |-> IF f \in F THEN to ELSE owner[f]]

Accept(f) == Move({f}, "nobody", "epoll")
Report(F) == Move(F, "epoll", "main")
Hand(f)   == Move({f}, "main", "queue")
Answer(f) == Move({f}, "main", "epoll")
Drop(f)   == Move({f}, "main", "nobody")    \* closed, or refused
Pick(f)   == Move({f}, "queue", "worker")
Rearm(f)  == Move({f}, "worker", "epoll")
Expire(F) == Move(F, "epoll", "nobody")

Next ==
    \/ \E f \in Fd : \/ Accept(f) \/ Hand(f) \/ Answer(f) \/ Drop(f)
                     \/ Pick(f) \/ Rearm(f)
    \/ \E F \in SUBSET Fd : Report(F) \/ Expire(F)

Spec == Init /\ [][Next]_owner
=============================================================================
