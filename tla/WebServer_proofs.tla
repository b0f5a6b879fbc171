--------------------------- MODULE WebServer_proofs ---------------------------
(***************************************************************************)
(* Theorems about WebServer, for any number of descriptors, workers,       *)
(* timers and connections.  The first part, with the count of the users,   *)
(* holds in every mode; the second is about a proactor whose tasks end     *)
(* before their timers: who holds a connection, what is timed, and that    *)
(* the server implements the ownership protocol Connection.                *)
(***************************************************************************)
EXTENDS WebServerConnection, FiniteSetTheorems, SharedLemmas

-----------------------------------------------------------------------------
(* What the helpers return *)

LEMMA ClosedSocketType == ClosedSocket \in Socket
  BY DEF ClosedSocket, Socket

LEMMA NewSocketType ==
  [ClosedSocket EXCEPT !.open = TRUE, !.armed = "in"] \in Socket
  BY DEF ClosedSocket, Socket

LEMMA FreshSlotType == \A x \in Fd \cup {NoFd} : FreshSlot(x) \in Slot
  BY DEF FreshSlot, Slot

\* S is a state of the sockets with the same descriptors open as now.
SameOpen(S) == /\ S \in [Fd -> Socket]
               /\ \A g \in Fd : S[g].open = sock[g].open

LEMMA ModfdType ==
  ASSUME SocketsOK, NEW f \in Fd, NEW ev \in {"in", "out"}
  PROVE  SameOpen(modfd(f, ev))
<1>1. modfd(f, ev) \in [Fd -> Socket]
  BY DEF SocketsOK, modfd, Socket
<1>2. \A g \in Fd : modfd(f, ev)[g].open = sock[g].open
  BY DEF SocketsOK, modfd, Socket
<1> QED
  BY <1>1, <1>2 DEF SameOpen

LEMMA ClosedType ==
  ASSUME SocketsOK, NEW F
  PROVE  /\ closed(F) \in [Fd -> Socket]
         /\ \A g \in Fd : closed(F)[g].open <=> (sock[g].open /\ g \notin F)
<1>1. closed(F) \in [Fd -> Socket]
  BY ClosedSocketType DEF SocketsOK, closed
<1>2. ASSUME NEW g \in Fd
      PROVE  closed(F)[g].open <=> (sock[g].open /\ g \notin F)
  <2>1. CASE g \in F
    BY <2>1 DEF closed, ClosedSocket
  <2>2. CASE g \notin F
    BY <2>2 DEF closed
  <2> QED
    BY <2>1, <2>2
<1> QED
  BY <1>1, <1>2

LEMMA DrainedType ==
  ASSUME SocketsOK, NEW f \in Fd
  PROVE  SameOpen(drained(f))
<1>1. drained(f) \in [Fd -> Socket]
  BY DEF SocketsOK, drained, Socket
<1>2. \A g \in Fd : drained(f)[g].open = sock[g].open
  BY DEF SocketsOK, drained, Socket
<1> QED
  BY <1>1, <1>2 DEF SameOpen

LEMMA ReceivedType ==
  ASSUME SocketsOK, SlotsOK, NEW f \in Fd
  PROVE  received(f) \in BOOLEAN
  BY DEF SocketsOK, SlotsOK, received, Socket, Slot

LEMMA QueueType ==
  ASSUME m_workqueue \in Seq(Fd)
  PROVE  /\ \A f \in Fd : Append(m_workqueue, f) \in Seq(Fd)
         /\ m_workqueue # <<>> => /\ Head(m_workqueue) \in Fd
                                 /\ Tail(m_workqueue) \in Seq(Fd)
  OBVIOUS

(* What write() comes to when it does.                                     *)
Iovs == {"whole", "moved", "spent"}
Outcome(f, o) ==
    \/ o = [slot |-> FreshSlot(users[f].m_sockfd), sock |-> modfd(f, "in"),
            ret |-> TRUE]
    \/ \E v \in Iovs : o = [slot |-> [users[f] EXCEPT !.iov = v],
                           sock |-> [modfd(f, "out") EXCEPT ![f].full = TRUE],
                           ret |-> TRUE]
    \/ o = [slot |-> Sent(f), sock |-> modfd(f, "in"), ret |-> FALSE]
    \/ o = [slot |-> users[f], sock |-> sock, ret |-> FALSE]

LEMMA OutcomesOfWrite ==
  ASSUME NEW f \in Fd, NEW o \in WriteOutcomes(f)
  PROVE  Outcome(f, o)
<1> DEFINE again(v) == [slot |-> [users[f] EXCEPT !.iov = v],
                        sock |-> [modfd(f, "out") EXCEPT ![f].full = TRUE],
                        ret |-> TRUE]
<1>1. \A v \in MovedOn(f) : v \in Iovs
  BY DEF MovedOn, Iovs
<1>2. \/ o = [slot |-> FreshSlot(users[f].m_sockfd), sock |-> modfd(f, "in"),
              ret |-> TRUE]
      \/ o \in {again(v) : v \in MovedOn(f)}
      \/ o = SentShort(f)
      \/ o = [slot |-> users[f], sock |-> sock, ret |-> FALSE]
  BY Zenon DEF WriteOutcomes
<1>3. CASE o \in {again(v) : v \in MovedOn(f)}
  <2>1. PICK v \in MovedOn(f) : o = again(v)
    BY <1>3
  <2> QED
    BY <2>1, <1>1, Zenon DEF Outcome
<1> QED
  BY <1>2, <1>3, Zenon DEF Outcome, SentShort

(* Whatever write() comes to, it opens and closes no socket.               *)
LEMMA OutcomeType ==
  ASSUME SocketsOK, SlotsOK, NEW f \in Fd, NEW o \in WriteOutcomes(f)
  PROVE  o.slot \in Slot /\ SameOpen(o.sock) /\ o.ret \in BOOLEAN
<1> DEFINE init == FreshSlot(users[f].m_sockfd)
           moved(v) == [users[f] EXCEPT !.iov = v]
           out == [modfd(f, "out") EXCEPT ![f].full = TRUE]
<1>1. users[f] \in Slot /\ init \in Slot
  <2>1. users[f] \in Slot /\ users[f].m_sockfd \in Fd \cup {NoFd}
    BY DEF SlotsOK, Slot
  <2> QED
    BY <2>1, FreshSlotType
<1>2. Sent(f) \in Slot /\ \A v \in Iovs : moved(v) \in Slot
  BY <1>1 DEF Slot, Sent, Iovs
<1>3. SameOpen(out)
  <2>1. modfd(f, "out") \in [Fd -> Socket]
    BY ModfdType DEF SameOpen
  <2>2. out \in [Fd -> Socket]
    BY <2>1 DEF Socket
  <2>3. \A g \in Fd : out[g].open = modfd(f, "out")[g].open
    BY <2>1 DEF Socket
  <2> QED
    BY <2>2, <2>3, ModfdType DEF SameOpen
<1>4. SameOpen(modfd(f, "in"))
  BY ModfdType
<1>5. SameOpen(sock)
  BY DEF SocketsOK, SameOpen
<1>6. \/ o = [slot |-> init, sock |-> modfd(f, "in"), ret |-> TRUE]
      \/ \E v \in Iovs : o = [slot |-> moved(v), sock |-> out, ret |-> TRUE]
      \/ o = [slot |-> Sent(f), sock |-> modfd(f, "in"), ret |-> FALSE]
      \/ o = [slot |-> users[f], sock |-> sock, ret |-> FALSE]
  BY OutcomesOfWrite, Zenon DEF Outcome
<1> HIDE DEF init, moved, out
<1>7. CASE o = [slot |-> init, sock |-> modfd(f, "in"), ret |-> TRUE]
  BY <1>1, <1>4, <1>7, Zenon
<1>8. CASE \E v \in Iovs : o = [slot |-> moved(v), sock |-> out, ret |-> TRUE]
  BY <1>2, <1>3, <1>8
<1>9. CASE o = [slot |-> Sent(f), sock |-> modfd(f, "in"), ret |-> FALSE]
  BY <1>2, <1>4, <1>9
<1>10. CASE o = [slot |-> users[f], sock |-> sock, ret |-> FALSE]
  BY <1>1, <1>5, <1>10
<1> QED
  BY <1>6, <1>7, <1>8, <1>9, <1>10

-----------------------------------------------------------------------------
(* The inductive invariant: the types, where the threads' requests are,    *)
(* and TimerSafe itself.                                                   *)

Places ==
    /\ mfd = NoFd <=> mpc \notin {"write", "spin", "flag"}
    /\ mpc \in {"spin", "flag"} => event[mfd] = "none"
    /\ mpc = "write" => event[mfd] = "out"
    /\ \A w \in Worker : task[w] = NoFd <=> wpc[w] = "idle"

IInv == TypeOK /\ Places /\ TimerSafe

(* A step that opens no socket, and brings no connection to the main       *)
(* thread that it could not use before, leaves TimerSafe alone.            *)
LEMMA TimerSafeKept ==
  ASSUME TimerSafe, UNCHANGED <<timer, user>>,
         \A g \in Fd : MayUseTimer(g)' => MayUseTimer(g)
  PROVE  TimerSafe'
  BY DEF TimerSafe

LEMMA AdmitStep ==
  ASSUME IInv, AcceptAdmits, UNCHANGED <<event, mfd>>
  PROVE  /\ SocketsOK' /\ SlotsOK' /\ TimersOK' /\ TimerSafe'
         /\ backlog' \in Nat /\ m_user_count' \in Int
<1>1. PICK f \in Fd, t \in Timer : Admit(f, t)
  BY DEF AcceptAdmits
<1>2. SocketsOK'
  BY <1>1, NewSocketType DEF IInv, TypeOK, SocketsOK, Admit
<1>3. SlotsOK'
  BY <1>1, FreshSlotType DEF IInv, TypeOK, SlotsOK, Admit
<1>4. TimersOK'
  BY <1>1, LimitAssumption DEF IInv, TypeOK, TimersOK, Admit
<1>5. backlog' \in Nat /\ m_user_count' \in Int
  BY <1>1 DEF IInv, TypeOK, KernelOK, Admit, AcceptAdmits
<1>6. ASSUME NEW g \in Fd, MayUseTimer(g)'
      PROVE  user'[timer'[g]] = g
  <2>1. CASE g = f
    BY <1>1, <2>1 DEF IInv, TypeOK, TimersOK, Admit
  <2>2. CASE g # f
    <3>1. sock'[g].open = sock[g].open
      BY <1>1, <2>2 DEF IInv, TypeOK, SocketsOK, Admit
    <3>2. user[timer[g]] = g
      BY <1>6, <3>1 DEF IInv, TimerSafe, MayUseTimer
    <3>3. timer[g] # t
      BY <1>1, <3>2, FdAssumption DEF Admit, Live
    <3> QED
      BY <1>1, <2>2, <3>2, <3>3 DEF IInv, TypeOK, TimersOK, Admit
  <2> QED
    BY <2>1, <2>2
<1> QED
  BY <1>2, <1>3, <1>4, <1>5, <1>6 DEF TimerSafe

(* deal_timer() frees one timer, and of the connections the main thread    *)
(* may still use, none had that one.                                       *)
LEMMA DealTimerStep ==
  ASSUME IInv, NEW f \in Fd, DealTimer(f), MayUseTimer(f),
         event' = [event EXCEPT ![f] = "none"], mfd' = NoFd
  PROVE  SocketsOK' /\ TimersOK' /\ TimerSafe' /\ m_user_count' \in Int
<1>1. SocketsOK'
  BY ClosedType DEF IInv, TypeOK, SocketsOK, DealTimer
<1>2. TimersOK'
  BY LimitAssumption DEF IInv, TypeOK, TimersOK, DealTimer
<1>3. m_user_count' \in Int
  BY DEF IInv, TypeOK, KernelOK, DealTimer
<1>4. ASSUME NEW g \in Fd, MayUseTimer(g)'
      PROVE  user'[timer'[g]] = g
  <2>1. g # f /\ MayUseTimer(g)
    <3>1. sock'[g].open <=> (sock[g].open /\ g # f)
      BY ClosedType DEF IInv, TypeOK, DealTimer
    <3>2. event'[g] # "none" => g # f /\ event[g] # "none"
      BY DEF IInv, TypeOK, MainOK
    <3> QED
      BY <1>4, <3>1, <3>2, FdAssumption DEF MayUseTimer
  <2>2. user[timer[g]] = g /\ user[timer[f]] = f
    BY <2>1 DEF IInv, TimerSafe
  <2> QED
    BY <2>1, <2>2 DEF IInv, TypeOK, TimersOK, DealTimer
<1> QED
  BY <1>1, <1>2, <1>3, <1>4 DEF TimerSafe

LEMMA AdjustTimerStep ==
  ASSUME IInv, NEW f \in Fd, AdjustTimer(f)
  PROVE  TimersOK' /\ UNCHANGED <<timer, user>>
  BY LimitAssumption DEF IInv, TypeOK, TimersOK, AdjustTimer

(***************************************************************************)
(* One lemma per kind of thread.                                           *)
(***************************************************************************)
LEMMA MainStep == IInv /\ Main => IInv'
<1> SUFFICES ASSUME IInv, Main PROVE IInv'
  OBVIOUS
<1> USE DEF IInv, TypeOK, mainVars, clockVars, listenVars, timerVars, poolVars
<1>1. CASE EpollWait
  <2>1. MainOK'
    <3>1. \A f \in Fd : Ready(f) => sock[f].armed \in Events
      BY DEF Ready, Events
    <3>2. event' \in [Fd -> Events]
      BY <1>1, <3>1 DEF EpollWait, Events
    <3>3. special' \subseteq {"listen", "signal"}
      BY <1>1 DEF EpollWait, ReadySpecial
    <3> QED
      BY <1>1, <3>2, <3>3 DEF EpollWait, MainOK
  <2>2. SocketsOK'
    BY <1>1 DEF EpollWait, reported, SocketsOK, Socket
  <2>3. \A g \in Fd : MayUseTimer(g)' => MayUseTimer(g)
    BY <1>1 DEF EpollWait, reported, MayUseTimer, SocketsOK, Socket, Ready
  <2>4. TimerSafe'
    BY <1>1, <2>3, TimerSafeKept DEF EpollWait
  <2>5. KernelOK' /\ SlotsOK' /\ TimersOK' /\ PoolOK'
    BY <1>1 DEF EpollWait, KernelOK, SlotsOK, TimersOK, PoolOK
  <2>6. Places'
    BY <1>1 DEF EpollWait, Places
  <2> QED
    BY <2>1, <2>2, <2>4, <2>5, <2>6
<1>2. CASE DealClientLT
  <2>1. MainOK' /\ PoolOK' /\ Places'
    BY <1>2 DEF DealClientLT, MainOK, PoolOK, Places
  <2>2. alarm' = alarm /\ pipe' = pipe /\ UNCHANGED <<event, mfd>>
    BY <1>2 DEF DealClientLT
  <2>3. CASE AcceptAdmits
    BY <2>1, <2>2, <2>3, AdmitStep DEF KernelOK, AcceptAdmits
  <2>4. CASE AcceptBusy \/ AcceptFails
    <3>1. /\ UNCHANGED <<sock, users, timer, user, left, edge, m_user_count>>
          /\ backlog' = backlog \/ (backlog > 0 /\ backlog' = backlog - 1)
      BY <2>4 DEF AcceptBusy, AcceptFails
    <3>2. SocketsOK' /\ SlotsOK' /\ TimersOK'
      BY <3>1 DEF SocketsOK, SlotsOK, TimersOK
    <3>3. KernelOK'
      BY <2>2, <3>1 DEF KernelOK
    <3>4. TimerSafe'
      BY <2>2, <3>1, TimerSafeKept DEF MayUseTimer
    <3> QED
      BY <2>1, <3>2, <3>3, <3>4
  <2> QED
    BY <1>2, <2>3, <2>4 DEF DealClientLT
<1>3. CASE DealClientET
  <2>1. MainOK' /\ Places'
    BY <1>3 DEF DealClientET, MainOK, Places
  <2>2. KernelOK' /\ SocketsOK' /\ SlotsOK' /\ TimersOK' /\ PoolOK'
    BY <1>3 DEF DealClientET, KernelOK, SocketsOK, SlotsOK, TimersOK, PoolOK
  <2>3. TimerSafe'
    BY <1>3, TimerSafeKept DEF DealClientET, MayUseTimer
  <2> QED
    BY <2>1, <2>2, <2>3
<1>4. CASE AcceptLoop
  <2>1. MainOK' /\ PoolOK' /\ Places'
    BY <1>4 DEF AcceptLoop, MainOK, PoolOK, Places
  <2>2. alarm' = alarm /\ pipe' = pipe /\ UNCHANGED <<event, mfd>>
    BY <1>4 DEF AcceptLoop
  <2>3. CASE AcceptAdmits
    BY <2>1, <2>2, <2>3, AdmitStep DEF KernelOK, AcceptAdmits
  <2>4. CASE AcceptBusy \/ AcceptFails
    <3>1. /\ UNCHANGED <<sock, users, timer, user, left, edge, m_user_count>>
          /\ backlog' = backlog \/ (backlog > 0 /\ backlog' = backlog - 1)
      BY <2>4 DEF AcceptBusy, AcceptFails
    <3>2. SocketsOK' /\ SlotsOK' /\ TimersOK'
      BY <3>1 DEF SocketsOK, SlotsOK, TimersOK
    <3>3. KernelOK'
      BY <2>2, <3>1 DEF KernelOK
    <3>4. TimerSafe'
      BY <2>2, <3>1, TimerSafeKept DEF MayUseTimer
    <3> QED
      BY <2>1, <3>2, <3>3, <3>4
  <2> QED
    BY <1>4, <2>3, <2>4 DEF AcceptLoop
<1>5. CASE HandleSignal
  <2>1. MainOK' /\ KernelOK' /\ Places'
    BY <1>5 DEF HandleSignal, StopAsked, MainOK, KernelOK, Places
  <2>2. SocketsOK' /\ SlotsOK' /\ TimersOK' /\ PoolOK'
    BY <1>5 DEF HandleSignal, SocketsOK, SlotsOK, TimersOK, PoolOK
  <2>3. TimerSafe'
    BY <1>5, TimerSafeKept DEF HandleSignal, MayUseTimer
  <2> QED
    BY <2>1, <2>2, <2>3
<1>6. CASE SpinEnds
  <2>1. MainOK' /\ Places'
    BY <1>6 DEF SpinEnds, MainOK, Places
  <2>2. KernelOK' /\ SocketsOK' /\ SlotsOK' /\ TimersOK' /\ PoolOK'
    BY <1>6 DEF SpinEnds, KernelOK, SocketsOK, SlotsOK, TimersOK, PoolOK
  <2>3. TimerSafe'
    BY <1>6, TimerSafeKept DEF SpinEnds, MayUseTimer
  <2> QED
    BY <2>1, <2>2, <2>3
<1>7. CASE ReadTimerFlag
  <2>1. mfd \in Fd
    BY <1>7 DEF ReadTimerFlag, Places, MainOK
  <2>2. MainOK' /\ PoolOK' /\ Places'
    BY <1>7 DEF ReadTimerFlag, MainOK, PoolOK, Places
  <2>3. SlotsOK'
    <3> DEFINE slot == [users[mfd] EXCEPT !.improv = 0, !.timer_flag = 0]
    <3>1. users' = [users EXCEPT ![mfd] = slot]
      BY <1>7, <2>1 DEF ReadTimerFlag, Acknowledged, SlotsOK
    <3>2. slot \in Slot
      BY <2>1 DEF SlotsOK, Slot
    <3> HIDE DEF slot
    <3> QED
      BY <3>1, <3>2 DEF SlotsOK
  <2>4. CASE users[mfd].timer_flag = 1 /\ DealTimer(mfd)
    <3>1. SocketsOK' /\ TimersOK' /\ TimerSafe' /\ m_user_count' \in Int
      <4>1. event' = event /\ mfd' = NoFd /\ MayUseTimer(mfd)
        BY <1>7 DEF ReadTimerFlag, MayUseTimer
      <4>2. event' = [event EXCEPT ![mfd] = "none"]
        BY <1>7, <2>1, <4>1 DEF Places, MainOK, ReadTimerFlag
      <4> QED
        BY <2>1, <2>4, <4>1, <4>2, DealTimerStep
    <3> QED
      BY <1>7, <2>2, <2>3, <3>1 DEF ReadTimerFlag, KernelOK
  <2>5. CASE UNCHANGED <<sock, m_user_count, timerVars>>
    <3>1. SocketsOK' /\ TimersOK' /\ KernelOK'
      BY <1>7, <2>5 DEF ReadTimerFlag, SocketsOK, TimersOK, KernelOK
    <3>2. TimerSafe'
      BY <1>7, <2>5, TimerSafeKept, FdAssumption DEF ReadTimerFlag, MayUseTimer
    <3> QED
      BY <2>2, <2>3, <3>1, <3>2
  <2> QED
    BY <1>7, <2>4, <2>5 DEF ReadTimerFlag, Acknowledged
<1>8. CASE TimerHandler
  <2> DEFINE due == {t \in Live : left[t] = 0}
  <2>1. due \subseteq Timer /\ Cardinality(due) \in Int
    <3>1. due \subseteq Timer
      BY DEF Live
    <3> QED
      BY <3>1, FiniteAssumption, FS_Subset, FS_CardinalityType
  <2>2. MainOK' /\ PoolOK' /\ Places' /\ SlotsOK'
    BY <1>8 DEF TimerHandler, BatchDone, MainOK, PoolOK, Places, SlotsOK
  <2>3. KernelOK'
    BY <1>8, <2>1 DEF TimerHandler, SetAlarm, KernelOK
  <2>4. SocketsOK' /\ \A g \in Fd : sock'[g].open <=>
                        (sock[g].open /\ g \notin {user[t] : t \in due})
    BY <1>8, ClosedType DEF TimerHandler, SocketsOK
  <2>5. TimersOK'
    BY <1>8 DEF TimerHandler, TimersOK
  <2>6. ASSUME NEW g \in Fd, MayUseTimer(g)'
        PROVE  user'[timer'[g]] = g
    <3>1. sock'[g].open
      BY <1>8, <2>6, FdAssumption DEF TimerHandler, BatchDone, MayUseTimer, Places
    <3>2. user[timer[g]] = g /\ timer[g] \notin due
      BY <2>4, <3>1 DEF TimerSafe, MayUseTimer
    <3> QED
      BY <1>8, <3>2 DEF TimerHandler, TimersOK
  <2> QED
    BY <2>2, <2>3, <2>4, <2>5, <2>6 DEF TimerSafe
<1>9. CASE NextRound
  <2>1. MainOK' /\ Places'
    BY <1>9 DEF NextRound, BatchDone, MainOK, Places
  <2>2. KernelOK' /\ SocketsOK' /\ SlotsOK' /\ TimersOK' /\ PoolOK'
    BY <1>9 DEF NextRound, KernelOK, SocketsOK, SlotsOK, TimersOK, PoolOK
  <2>3. TimerSafe'
    BY <1>9, TimerSafeKept DEF NextRound, MayUseTimer
  <2> QED
    BY <2>1, <2>2, <2>3
<1>10. ASSUME NEW f \in Fd, HandleHup(f) PROVE IInv'
  <2>1. MainOK' /\ PoolOK' /\ Places' /\ SlotsOK'
    BY <1>10 DEF HandleHup, MainOK, PoolOK, Places, SlotsOK, Events
  <2>2. SocketsOK' /\ TimersOK' /\ TimerSafe' /\ m_user_count' \in Int
    BY <1>10, DealTimerStep DEF HandleHup, Places, MayUseTimer
  <2>3. KernelOK'
    BY <1>10, <2>2 DEF HandleHup, KernelOK
  <2> QED
    BY <2>1, <2>2, <2>3
<1>11. ASSUME NEW f \in Fd, HandleReadProactor(f) PROVE IInv'
  <2>1. MainOK' /\ Places'
    BY <1>11 DEF HandleReadProactor, MainOK, Places, Events
  <2>2. mfd' = NoFd /\ mfd = NoFd /\ MayUseTimer(f)
    BY <1>11 DEF HandleReadProactor, Places, MayUseTimer
  <2>3. CASE ReadTrue(f) /\ sock' = drained(f) /\ AdjustTimer(f)
    <3>1. SocketsOK' /\ \A g \in Fd : sock'[g].open = sock[g].open
      BY <2>3, DrainedType DEF SameOpen, SocketsOK
    <3>2. SlotsOK'
      BY <1>11, <2>3, ReceivedType
         DEF HandleReadProactor, SlotsOK, Slot, DealTimer
    <3>3. TimersOK' /\ UNCHANGED <<timer, user>>
      BY <2>3, AdjustTimerStep
    <3>4. PoolOK'
      BY <1>11, QueueType DEF HandleReadProactor, PoolOK, append_p
    <3>5. TimerSafe'
      BY <1>11, <3>1, <3>3, TimerSafeKept
         DEF HandleReadProactor, MayUseTimer, MainOK
    <3>6. m_user_count' \in Int
      BY <1>11 DEF HandleReadProactor, DealTimer, KernelOK
    <3>7. KernelOK'
      BY <1>11, <3>6 DEF HandleReadProactor, KernelOK
    <3> QED
      BY <2>1, <3>1, <3>2, <3>3, <3>4, <3>5, <3>7
  <2>4. CASE DealTimer(f) /\ UNCHANGED <<users, m_workqueue>>
    <3>1. SocketsOK' /\ TimersOK' /\ TimerSafe' /\ m_user_count' \in Int
      BY <1>11, <2>2, <2>4, DealTimerStep DEF HandleReadProactor
    <3>2. SlotsOK' /\ PoolOK' /\ KernelOK'
      BY <1>11, <2>4, <3>1 DEF HandleReadProactor, SlotsOK, PoolOK, KernelOK
    <3> QED
      BY <2>1, <3>1, <3>2
  <2> QED
    BY <1>11, <2>3, <2>4 DEF HandleReadProactor
<1>12. ASSUME NEW f \in Fd, HandleWriteProactor(f) PROVE IInv'
  <2>1. MainOK' /\ PoolOK' /\ Places'
    BY <1>12 DEF HandleWriteProactor, MainOK, PoolOK, Places, Events
  <2>2. mfd' = NoFd /\ MayUseTimer(f)
    BY <1>12 DEF HandleWriteProactor, MayUseTimer
  <2>3. PICK o \in WriteOutcomes(f) :
          /\ users' = [users EXCEPT ![f] = o.slot]
          /\ \/ sock' = o.sock /\ AdjustTimer(f) /\ UNCHANGED m_user_count
             \/ DealTimer(f)
    BY <1>12 DEF HandleWriteProactor
  <2>4. SlotsOK'
    BY <2>3, OutcomeType DEF SlotsOK
  <2>5. CASE sock' = o.sock /\ AdjustTimer(f) /\ UNCHANGED m_user_count
    <3>1. SocketsOK' /\ \A g \in Fd : sock'[g].open = sock[g].open
      BY <2>5, OutcomeType DEF SameOpen, SocketsOK
    <3>2. TimersOK' /\ UNCHANGED <<timer, user>>
      BY <2>5, AdjustTimerStep
    <3>3. TimerSafe'
      BY <1>12, <2>2, <3>1, <3>2, TimerSafeKept, FdAssumption
         DEF HandleWriteProactor, MayUseTimer, MainOK
    <3>4. KernelOK'
      BY <1>12, <2>5 DEF HandleWriteProactor, KernelOK
    <3> QED
      BY <2>1, <2>4, <3>1, <3>2, <3>3, <3>4
  <2>6. CASE DealTimer(f)
    <3>1. SocketsOK' /\ TimersOK' /\ TimerSafe' /\ m_user_count' \in Int
      BY <1>12, <2>2, <2>6, DealTimerStep DEF HandleWriteProactor
    <3>2. KernelOK'
      BY <1>12, <3>1 DEF HandleWriteProactor, KernelOK
    <3> QED
      BY <2>1, <2>4, <3>1, <3>2
  <2> QED
    BY <2>3, <2>5, <2>6
<1>13. ASSUME NEW f \in Fd, Delegate(f) PROVE IInv'
  <2>1. MainOK' /\ Places'
    BY <1>13, FdAssumption DEF Delegate, MainOK, Places, Events
  <2>2. KernelOK' /\ SocketsOK'
    BY <1>13 DEF Delegate, KernelOK, SocketsOK
  <2>7. PoolOK'
    BY <1>13, QueueType DEF Delegate, PoolOK
  <2>3. SlotsOK'
    BY <1>13 DEF Delegate, SlotsOK, Slot
  <2>4. TimersOK' /\ UNCHANGED <<timer, user>>
    BY <1>13, AdjustTimerStep DEF Delegate, QueueFull
  <2>5. \A g \in Fd : MayUseTimer(g)' => MayUseTimer(g)
    BY <1>13 DEF Delegate, MayUseTimer, MainOK
  <2>6. TimerSafe'
    BY <2>4, <2>5, TimerSafeKept
  <2> QED
    BY <2>1, <2>2, <2>3, <2>4, <2>6, <2>7
<1>14. ASSUME NEW f \in Fd, EndlessWrite(f) PROVE IInv'
  <2>1. MainOK' /\ Places'
    BY <1>14, FdAssumption DEF EndlessWrite, MainOK, Places
  <2>2. KernelOK' /\ SocketsOK' /\ SlotsOK' /\ TimersOK' /\ PoolOK'
    BY <1>14 DEF EndlessWrite, KernelOK, SocketsOK, SlotsOK, TimersOK, PoolOK
  <2>3. TimerSafe'
    BY <1>14, TimerSafeKept DEF EndlessWrite, MayUseTimer
  <2> QED
    BY <2>1, <2>2, <2>3
<1> QED
  BY <1>1, <1>2, <1>3, <1>4, <1>5, <1>6, <1>7, <1>8, <1>9, <1>10, <1>11,
     <1>12, <1>13, <1>14 DEF Main

LEMMA WorkStep ==
  ASSUME IInv, NEW w \in Worker, Work(w)
  PROVE  IInv'
<1> USE DEF IInv, TypeOK, mainVars, clockVars, listenVars, timerVars, poolVars
<1>1. wpc[w] # "idle" => task[w] \in Fd
  BY DEF Places, PoolOK
\* No worker touches the main thread's variables, the clock or the timers.
<1>2. UNCHANGED <<mainVars, clockVars, listenVars, timerVars>>
  BY DEF Work, Take, WorkerRead, WorkerWrite, WorkerFlag, NoRequest, Reply,
         ReplyFails, CloseConn, Rearm
<1>3. MainOK' /\ TimersOK'
  BY <1>2 DEF MainOK, TimersOK
<1>4. ASSUME SocketsOK', \A g \in Fd : sock'[g].open => sock[g].open
      PROVE  TimerSafe'
  BY <1>2, <1>4, TimerSafeKept DEF MayUseTimer
<1>5. CASE Take(w)
  <2>1. PoolOK' /\ Places'
    <3>1. Head(m_workqueue) \in Fd /\ Tail(m_workqueue) \in Seq(Fd)
      BY <1>5, QueueType DEF Take, PoolOK
    <3> QED
      BY <1>5, <3>1, FdAssumption DEF Take, PoolOK, Places
  <2>2. KernelOK' /\ SocketsOK' /\ SlotsOK'
    BY <1>5 DEF Take, KernelOK, SocketsOK, SlotsOK
  <2>3. sock' = sock
    BY <1>5 DEF Take
  <2> QED
    BY <1>3, <1>4, <2>1, <2>2, <2>3
<1>6. CASE WorkerRead(w)
  <2> DEFINE f == task[w]
  <2>1. f \in Fd
    BY <1>1, <1>6 DEF WorkerRead
  <2>2. PoolOK' /\ Places'
    BY <1>6 DEF WorkerRead, PoolOK, Places
  <2>3. KernelOK'
    BY <1>6 DEF WorkerRead, KernelOK
  <2>4. SocketsOK' /\ \A g \in Fd : sock'[g].open = sock[g].open
    BY <1>6, <2>1, DrainedType DEF WorkerRead, SameOpen, SocketsOK
  <2>5. SlotsOK'
    <3>1. PICK b \in BOOLEAN :
            \/ users' = [users EXCEPT
                            ![f] = [Answer(users[f]) EXCEPT !.buffered = b]]
            \/ users' = [users EXCEPT ![f] = Answer(users[f])]
      BY <1>6, <2>1, ReceivedType DEF WorkerRead, SlotsOK
    <3>2. /\ Answer(users[f]) \in Slot
          /\ [Answer(users[f]) EXCEPT !.buffered = b] \in Slot
      BY <2>1 DEF Answer, SlotsOK, Slot
    <3> QED
      BY <2>1, <3>1, <3>2 DEF SlotsOK
  <2> QED
    BY <1>3, <1>4, <2>2, <2>3, <2>4, <2>5
<1>7. CASE WorkerWrite(w)
  <2> DEFINE f == task[w]
  <2>1. f \in Fd
    BY <1>1, <1>7 DEF WorkerWrite
  <2>2. PICK o \in WriteOutcomes(f) :
          /\ sock' = o.sock
          /\ users' = [users EXCEPT ![f] = [o.slot EXCEPT !.improv = 1]]
    BY <1>7 DEF WorkerWrite, Answer
  <2>3. PoolOK' /\ Places'
    BY <1>7 DEF WorkerWrite, Finish, PoolOK, Places
  <2>4. KernelOK'
    BY <1>7 DEF WorkerWrite, KernelOK
  <2>5. SocketsOK' /\ \A g \in Fd : sock'[g].open = sock[g].open
    BY <2>1, <2>2, OutcomeType DEF SameOpen, SocketsOK
  <2>6. SlotsOK'
    <3>1. [o.slot EXCEPT !.improv = 1] \in Slot
      BY <2>1, OutcomeType DEF Slot
    <3> QED
      BY <2>2, <3>1 DEF SlotsOK
  <2> QED
    BY <1>3, <1>4, <2>3, <2>4, <2>5, <2>6
<1>8. CASE WorkerFlag(w)
  <2>1. PoolOK' /\ Places'
    BY <1>8 DEF WorkerFlag, Finish, PoolOK, Places
  <2>2. KernelOK' /\ SocketsOK' /\ sock' = sock
    BY <1>8 DEF WorkerFlag, KernelOK, SocketsOK
  <2>3. SlotsOK'
    BY <1>8 DEF WorkerFlag, SlotsOK, Slot
  <2> QED
    BY <1>3, <1>4, <2>1, <2>2, <2>3
<1>9. CASE NoRequest(w) \/ Reply(w)
  <2>1. PoolOK' /\ Places'
    BY <1>9 DEF NoRequest, Reply, PoolOK, Places
  <2>2. KernelOK' /\ SocketsOK' /\ sock' = sock
    BY <1>9 DEF NoRequest, Reply, KernelOK, SocketsOK
  <2>3. SlotsOK'
    <3>1. CASE NoRequest(w)
      BY <3>1 DEF NoRequest, SlotsOK
    <3>2. CASE Reply(w)
      <4> DEFINE f == task[w]
                 slot == [users[f] EXCEPT !.unsent = TRUE, !.iov = "whole",
                            !.replies = IF @ = 2 THEN 2 ELSE @ + 1]
      <4>1. users[f] \in Slot
        BY <1>1, <3>2 DEF Reply, SlotsOK
      <4>2. slot \in Slot
        <5>1. (IF users[f].replies = 2 THEN 2 ELSE users[f].replies + 1) \in 0 .. 2
          BY <4>1 DEF Slot
        <5> QED
          BY <4>1, <5>1 DEF Slot
      <4>3. users' = [users EXCEPT ![f] = slot]
        BY <3>2 DEF Reply
      <4> HIDE DEF slot
      <4> QED
        BY <4>2, <4>3 DEF SlotsOK
    <3> QED
      BY <1>9, <3>1, <3>2
  <2> QED
    BY <1>3, <1>4, <2>1, <2>2, <2>3
<1>10. CASE ReplyFails(w)
  <2>1. PoolOK' /\ Places'
    BY <1>10 DEF ReplyFails, PoolOK, Places
  <2>2. KernelOK' /\ SlotsOK'
    BY <1>10 DEF ReplyFails, KernelOK, SlotsOK
  <2>3. SocketsOK' /\ \A g \in Fd : sock'[g].open => sock[g].open
    <3> DEFINE f == task[w]
    <3>1. sock' = sock \/ sock' = closed({f})
      BY <1>10 DEF ReplyFails
    <3> HIDE DEF f
    <3> QED
      BY <3>1, ClosedType DEF SocketsOK
  <2> QED
    BY <1>3, <1>4, <2>1, <2>2, <2>3
<1>12. CASE CloseConn(w)
  <2>1. PoolOK' /\ Places'
    BY <1>12 DEF CloseConn, PoolOK, Places
  <2>2. KernelOK' /\ SocketsOK' /\ sock' = sock
    <3>1. /\ alarm' = alarm /\ pipe' = pipe /\ backlog' = backlog /\ edge' = edge
          /\ sock' = sock /\ m_user_count' = m_user_count - 1
      BY <1>12 DEF CloseConn
    <3> QED
      BY <3>1 DEF KernelOK, SocketsOK
  <2>3. SlotsOK'
    BY <1>12 DEF CloseConn, SlotsOK, Slot
  <2> QED
    BY <1>3, <1>4, <2>1, <2>2, <2>3
<1>11. CASE Rearm(w)
  <2>1. PoolOK' /\ Places'
    BY <1>11 DEF Rearm, Finish, PoolOK, Places
  <2>2. KernelOK' /\ SlotsOK'
    BY <1>11 DEF Rearm, KernelOK, SlotsOK
  <2>3. SocketsOK' /\ \A g \in Fd : sock'[g].open = sock[g].open
    BY <1>1, <1>11, ModfdType DEF Rearm, SameOpen, SocketsOK
  <2> QED
    BY <1>3, <1>4, <2>1, <2>2, <2>3
<1> QED
  BY <1>5, <1>6, <1>7, <1>8, <1>9, <1>10, <1>11, <1>12 DEF Work

LEMMA EnvironmentStep == IInv /\ Environment => IInv'
<1> SUFFICES ASSUME IInv, Environment PROVE IInv'
  OBVIOUS
<1> USE DEF IInv, TypeOK, mainVars, clockVars, listenVars, timerVars, poolVars
\* The environment changes the sockets' data, the clock and the pipe.
<1>1. UNCHANGED <<mainVars, users, m_user_count, timer, user, poolVars>>
  BY DEF Environment, Connect, Elapse, Terminate, Send, Drain, HangUp, Peer
<1>2. MainOK' /\ SlotsOK' /\ PoolOK' /\ Places'
  BY <1>1 DEF MainOK, SlotsOK, PoolOK, Places
<1>3. ASSUME SocketsOK', \A g \in Fd : sock'[g].open = sock[g].open
      PROVE  TimerSafe'
  BY <1>1, <1>3, TimerSafeKept DEF MayUseTimer
<1>4. CASE Connect \/ Terminate
  <2>1. SocketsOK' /\ TimersOK' /\ sock' = sock
    BY <1>4 DEF Connect, Terminate, SocketsOK, TimersOK
  <2>2. KernelOK'
    <3>1. CASE Connect
      BY <3>1 DEF Connect, KernelOK
    <3>2. CASE Terminate
      BY <3>2 DEF Terminate, KernelOK
    <3> QED
      BY <1>4, <3>1, <3>2
  <2> QED
    BY <1>2, <1>3, <2>1, <2>2
<1>5. CASE Elapse
  <2>1. KernelOK' /\ SocketsOK' /\ sock' = sock
    BY <1>5 DEF Elapse, KernelOK, SocketsOK
  <2>2. TimersOK'
    BY <1>5, LimitAssumption DEF Elapse, TimersOK
  <2> QED
    BY <1>2, <1>3, <2>1, <2>2
<1>6. ASSUME NEW f \in Fd, Send(f) \/ Drain(f) \/ HangUp(f) PROVE IInv'
  <2>1. KernelOK' /\ TimersOK'
    BY <1>6 DEF Send, Drain, HangUp, Peer, KernelOK, TimersOK
  <2>2. SocketsOK'
    BY <1>6 DEF Send, Drain, HangUp, Peer, SocketsOK, Socket
  <2>3. \A g \in Fd : sock'[g].open = sock[g].open
    BY <1>6 DEF Send, Drain, HangUp, Peer, SocketsOK, Socket
  <2> QED
    BY <1>2, <1>3, <2>1, <2>2, <2>3
<1> QED
  BY <1>4, <1>5, <1>6 DEF Environment

LEMMA InitIInv == Init => IInv
<1> SUFFICES ASSUME Init PROVE IInv
  OBVIOUS
<1>1. MainOK
  BY DEF Init, MainOK, Events
<1>5. KernelOK
  <2>1. alarm \in BOOLEAN /\ edge \in BOOLEAN
    BY DEF Init
  <2>2. backlog \in Nat /\ m_user_count \in Int
    BY DEF Init
  <2>3. pipe \subseteq {"ALRM", "TERM"}
    BY DEF Init
  <2> QED
    BY <2>1, <2>2, <2>3 DEF KernelOK
<1>2. SocketsOK /\ SlotsOK
  BY ClosedSocketType, FreshSlotType DEF Init, SocketsOK, SlotsOK
<1>3. TimersOK /\ PoolOK
  BY LimitAssumption DEF Init, TimersOK, PoolOK
<1>4. Places /\ TimerSafe
  BY FdAssumption DEF Init, Places, TimerSafe, MayUseTimer, ClosedSocket
<1> QED
  BY <1>1, <1>2, <1>3, <1>4, <1>5 DEF IInv, TypeOK

LEMMA StutterStep == IInv /\ UNCHANGED vars => IInv'
<1> SUFFICES ASSUME IInv, UNCHANGED vars PROVE IInv'
  OBVIOUS
<1>1. MainOK' /\ KernelOK' /\ SocketsOK' /\ SlotsOK' /\ TimersOK' /\ PoolOK'
  BY DEF IInv, TypeOK, vars, MainOK, KernelOK, SocketsOK, SlotsOK, TimersOK,
         PoolOK
<1>2. Places' /\ TimerSafe'
  BY DEF IInv, vars, Places, TimerSafe, MayUseTimer
<1> QED
  BY <1>1, <1>2 DEF IInv, TypeOK

THEOREM Inductive == Spec => []IInv
<1>1. IInv /\ [Next]_vars => IInv'
  BY MainStep, WorkStep, EnvironmentStep, StutterStep DEF Next
<1> QED
  BY InitIInv, <1>1, PTL DEF Spec

(* The variables keep their types, whatever the sizes and the modes.       *)
THEOREM TypeCorrect == Spec => []TypeOK
<1>1. IInv => TypeOK
  BY DEF IInv
<1> QED
  BY Inductive, <1>1, PTL

(* The main thread never follows a dangling users_timer[f].timer, in       *)
(* either mode, with any number of connections, workers and timers, even   *)
(* when tasks outlast their timers and workers close connections.          *)
THEOREM TimersSafe == Spec => []TimerSafe
<1>1. IInv => TimerSafe
  BY DEF IInv
<1> QED
  BY Inductive, <1>1, PTL

-----------------------------------------------------------------------------
(* The reactor's handshake *)

HInv == Handshake /\ NeverAborts

ImprovSame == \A g \in Fd : users'[g].improv = users[g].improv

(* A step that moves neither the main thread's wait, nor a request, nor an *)
(* improv.                                                                 *)
LEMMA HInvKept ==
  ASSUME HInv, ImprovSame, MainOK, MainOK', mfd' = mfd,
         m_workqueue' = m_workqueue, wpc' = wpc, task' = task,
         mpc' = mpc \/ {mpc, mpc'} \cap {"spin", "flag", "aborted"} = {},
         mpc \in {"spin", "flag"} => mfd \in Fd
  PROVE  HInv'
<1>1. NeverAborts'
  BY DEF HInv, NeverAborts
<1>2. NoneQueued' = NoneQueued /\ NoneRunning' = NoneRunning
  BY DEF NoneQueued, NoneRunning, Running
<1>3. NoneAnswered' <=> NoneAnswered
  BY DEF NoneAnswered, ImprovSame
<1>4. mpc \in {"spin", "flag"} => /\ RequestQueued' <=> RequestQueued
                                  /\ RequestRunning' <=> RequestRunning
                                  /\ RequestAnswered' <=> RequestAnswered
  BY <1>2, <1>3
     DEF RequestQueued, RequestRunning, RequestAnswered, Running, ImprovSame
<1>5. Handshake'
  BY <1>2, <1>3, <1>4 DEF HInv, Handshake
<1> QED
  BY <1>1, <1>5 DEF HInv

LEMMA HandshakeMain == IInv /\ IInv' /\ HInv /\ Main => HInv'
<1> SUFFICES ASSUME IInv, IInv', HInv, Main PROVE HInv'
  OBVIOUS
<1> USE DEF mainVars, clockVars, listenVars, timerVars, poolVars
<1>1. /\ mpc \in {"spin", "flag"} => mfd \in Fd
      /\ MainOK /\ MainOK' /\ SlotsOK /\ PoolOK
  BY DEF IInv, TypeOK, Places, MainOK
<1>2. CASE EpollWait \/ DealClientET \/ HandleSignal \/ TimerHandler \/ NextRound
  <2>1. /\ users' = users /\ mfd' = mfd /\ m_workqueue' = m_workqueue
        /\ wpc' = wpc /\ task' = task
    BY <1>2 DEF EpollWait, DealClientET, HandleSignal, TimerHandler, NextRound
  <2>2. mpc' = mpc \/ {mpc, mpc'} \cap {"spin", "flag", "aborted"} = {}
    BY <1>2 DEF EpollWait, DealClientET, HandleSignal, TimerHandler, NextRound,
                BatchDone
  <2> QED
    BY <1>1, <2>1, <2>2, HInvKept DEF ImprovSame
<1>3. CASE DealClientLT \/ AcceptLoop
  <2>1. /\ mfd' = mfd /\ m_workqueue' = m_workqueue /\ wpc' = wpc /\ task' = task
        /\ {mpc, mpc'} \cap {"spin", "flag", "aborted"} = {}
    BY <1>3 DEF DealClientLT, AcceptLoop
  <2>2. /\ NeverAborts'
        /\ Reactor => NoneQueued' /\ NoneRunning' /\ NoneAnswered
    BY <2>1 DEF HInv, Handshake, NeverAborts, NoneQueued, NoneRunning, Running
  <2>3. ASSUME NoneAnswered, NEW g \in Fd PROVE users'[g].improv = 0
    <3>1. CASE AcceptAdmits
      <4>1. PICK f \in Fd, t \in Timer : Admit(f, t)
        BY <3>1 DEF AcceptAdmits
      <4>2. users' = [users EXCEPT ![f] = FreshSlot(f)]
        BY <4>1 DEF Admit
      <4> QED
        BY <1>1, <2>3, <4>2 DEF NoneAnswered, FreshSlot, SlotsOK
    <3>2. CASE users' = users
      BY <2>3, <3>2 DEF NoneAnswered
    <3> QED
      BY <1>3, <3>1, <3>2
         DEF DealClientLT, AcceptLoop, AcceptBusy, AcceptFails
  <2> QED
    BY <2>1, <2>2, <2>3 DEF HInv, Handshake, NoneAnswered
<1>4. CASE SpinEnds
  <2>1. mpc = "spin" /\ mpc' = "flag" /\ users[mfd].improv = 1 /\ mfd \in Fd
    BY <1>1, <1>4 DEF SpinEnds
  <2>2. Reactor => RequestAnswered
    BY <2>1 DEF HInv, Handshake, RequestQueued, RequestRunning, NoneAnswered
  <2>3. Reactor => RequestAnswered'
    BY <1>4, <2>2
       DEF SpinEnds, RequestAnswered, NoneQueued, NoneRunning, Running
  <2> QED
    BY <2>1, <2>3 DEF HInv, Handshake, NeverAborts
<1>5. CASE ReadTimerFlag
  <2>1. mpc = "flag" /\ mpc' = "batch" /\ mfd \in Fd
    BY <1>1, <1>5 DEF ReadTimerFlag, Acknowledged
  <2>2. m_workqueue' = m_workqueue /\ wpc' = wpc
    BY <1>5 DEF ReadTimerFlag, Acknowledged
  <2>3. Reactor => NoneQueued' /\ NoneRunning'
    BY <2>1, <2>2
       DEF HInv, Handshake, RequestAnswered, NoneQueued, NoneRunning, Running
  <2>4. Reactor => NoneAnswered'
    <3>1. users' = [users EXCEPT ![mfd] = [users[mfd] EXCEPT !.improv = 0,
                                                             !.timer_flag = 0]]
      BY <1>1, <1>5, <2>1 DEF ReadTimerFlag, Acknowledged, SlotsOK
    <3>2. users[mfd] \in Slot
      BY <1>1, <2>1 DEF SlotsOK
    <3>3. [users[mfd] EXCEPT !.improv = 0, !.timer_flag = 0].improv = 0
      BY <3>2 DEF Slot
    <3> HIDE DEF RequestAnswered
    <3>4. ASSUME Reactor, NEW g \in Fd, g # mfd PROVE users[g].improv = 0
      BY <2>1, <3>4 DEF HInv, Handshake, RequestAnswered
    <3> QED
      BY <1>1, <2>1, <3>1, <3>3, <3>4 DEF NoneAnswered, SlotsOK
  <2> QED
    BY <2>1, <2>3, <2>4 DEF HInv, Handshake, NeverAborts
<1>6. ASSUME NEW f \in Fd, HandleHup(f) PROVE HInv'
  <2>1. /\ users' = users /\ mfd' = mfd /\ m_workqueue' = m_workqueue
        /\ wpc' = wpc /\ task' = task /\ mpc' = mpc
    BY <1>6 DEF HandleHup
  <2> QED
    BY <1>1, <2>1, HInvKept DEF ImprovSame
<1>7. ASSUME NEW f \in Fd,
             HandleReadProactor(f) \/ EndlessWrite(f) \/ HandleWriteProactor(f)
      PROVE  HInv'
  BY <1>7 DEF HandleReadProactor, EndlessWrite, HandleWriteProactor, HInv,
              Handshake, NeverAborts
<1>8. ASSUME NEW f \in Fd, Delegate(f) PROVE HInv'
  <2>1. NoneQueued /\ NoneRunning /\ NoneAnswered
    BY <1>8 DEF Delegate, QueueFull, HInv, Handshake
  <2>2. ~(Len(m_workqueue) >= MaxRequests)
    BY <2>1, LimitAssumption DEF NoneQueued
  <2>3. /\ mpc' = "spin" /\ mfd' = f /\ wpc' = wpc
        /\ m_workqueue' = Append(m_workqueue, f)
        /\ users' = [users EXCEPT ![f].m_state = IF event[f] = "in" THEN 0
                                                 ELSE 1]
    BY <1>8, <2>2, Zenon DEF Delegate, QueueFull
  <2>4. m_workqueue' = <<mfd'>>
    BY <2>1, <2>3 DEF NoneQueued
  <2>5. NoneRunning'
    BY <2>1, <2>3 DEF NoneRunning, Running
  <2>6. NoneAnswered'
    BY <1>1, <2>1, <2>3 DEF NoneAnswered, SlotsOK, Slot
  <2> QED
    BY <2>3, <2>4, <2>5, <2>6 DEF HInv, Handshake, NeverAborts, RequestQueued
<1> QED
  BY <1>2, <1>3, <1>4, <1>5, <1>6, <1>7, <1>8 DEF Main

LEMMA HandshakeWork ==
  ASSUME IInv, IInv', HInv, NEW w \in Worker, Work(w)
  PROVE  HInv'
<1> USE DEF mainVars, clockVars, listenVars, timerVars, poolVars
<1>1. /\ mpc \in {"spin", "flag"} => mfd \in Fd
      /\ MainOK /\ MainOK' /\ SlotsOK /\ PoolOK
      /\ wpc[w] # "idle" => task[w] \in Fd
  BY DEF IInv, TypeOK, Places, MainOK, PoolOK
<1>2. mpc' = mpc /\ mfd' = mfd
  BY DEF Work, Take, WorkerRead, WorkerWrite, WorkerFlag, NoRequest, Reply,
         ReplyFails, CloseConn, Rearm
<1>3. NeverAborts'
  BY <1>2 DEF HInv, NeverAborts
<1>4. CASE ~Reactor
  BY <1>3, <1>4 DEF HInv, Handshake
<1> SUFFICES ASSUME Reactor PROVE HInv'
  BY <1>4
<1>5. CASE Take(w)
  <2>1. mpc = "spin" /\ RequestQueued
    BY <1>1, <1>5 DEF Take, HInv, Handshake, RequestRunning, RequestAnswered,
                      NoneQueued, MainOK
  <2>2. Head(m_workqueue) = mfd /\ Tail(m_workqueue) = <<>>
    BY <2>1 DEF RequestQueued
  <2>3. /\ m_workqueue' = <<>> /\ users' = users
        /\ task' = [task EXCEPT ![w] = mfd]
        /\ wpc' = [wpc EXCEPT ![w] = IF users[mfd].m_state = 0 THEN "read"
                                     ELSE "write"]
    BY <1>5, <2>2 DEF Take
  <2>4. Running(w)' /\ task'[w] = mfd'
    BY <1>1, <1>2, <2>3 DEF Running, PoolOK
  <2>5. \A v \in Worker \ {w} : ~Running(v)'
    BY <1>1, <2>1, <2>3 DEF Running, NoneRunning, RequestQueued, PoolOK
  <2>6. NoneQueued' /\ NoneAnswered'
    BY <2>1, <2>3 DEF NoneQueued, NoneAnswered, RequestQueued
  <2>7. RequestRunning'
    BY <2>4, <2>5, <2>6 DEF RequestRunning
  <2> QED
    BY <1>2, <1>3, <2>1, <2>7 DEF HInv, Handshake
<1>6. CASE WorkerRead(w) \/ WorkerWrite(w)
  <2>1. Running(w) /\ task[w] \in Fd /\ m_workqueue' = m_workqueue
    BY <1>1, <1>6 DEF WorkerRead, WorkerWrite, Running
  <2>2. mpc = "spin" /\ RequestRunning
    BY <1>1, <2>1 DEF HInv, Handshake, RequestQueued, RequestAnswered,
                      NoneRunning, MainOK
  <2>3. /\ task[w] = mfd /\ NoneQueued /\ NoneAnswered
        /\ \A v \in Worker \ {w} : ~Running(v)
    BY <2>1, <2>2 DEF RequestRunning
  <2>4. PICK slot \in Slot : /\ users' = [users EXCEPT ![mfd] = slot]
                             /\ slot.improv = 1
    <3>1. users'[mfd] \in Slot
      BY <2>1, <2>3 DEF IInv, TypeOK, SlotsOK
    <3>2. users' = [users EXCEPT ![mfd] = users'[mfd]]
      BY <1>1, <1>6, <2>1, <2>3 DEF WorkerRead, WorkerWrite, Answer, SlotsOK
    <3>3. users'[mfd].improv = 1
      <4>1. CASE WorkerRead(w)
        BY <1>1, <2>1, <2>3, <4>1 DEF WorkerRead, Answer, SlotsOK, Slot
      <4>2. CASE WorkerWrite(w)
        <5>1. PICK o \in WriteOutcomes(mfd) :
                users' = [users EXCEPT ![mfd] = [o.slot EXCEPT !.improv = 1]]
          BY <2>3, <4>2 DEF WorkerWrite, Answer
        <5>2. o.slot \in Slot
          BY <2>1, <2>3, OutcomeType DEF IInv, TypeOK
        <5> QED
          BY <1>1, <2>1, <2>3, <5>1, <5>2 DEF SlotsOK, Slot
      <4> QED
        BY <1>6, <4>1, <4>2
    <3> QED
      BY <3>1, <3>2, <3>3
  <2>5. \A v \in Worker : ~Running(v)'
    <3>1. /\ wpc'[w] \notin {"read", "write"}
          /\ \A v \in Worker \ {w} : wpc'[v] = wpc[v]
      BY <1>1, <1>6 DEF WorkerRead, WorkerWrite, Finish, PoolOK
    <3> QED
      BY <2>3, <3>1 DEF Running
  <2>6. RequestAnswered'
    <3>1. users'[mfd].improv = 1 /\ \A g \in Fd \ {mfd} : users'[g].improv = 0
      BY <1>1, <2>1, <2>3, <2>4 DEF NoneAnswered, SlotsOK
    <3> QED
      BY <1>2, <2>1, <2>3, <2>5, <3>1
         DEF RequestAnswered, NoneQueued, NoneRunning
  <2> QED
    BY <1>2, <1>3, <2>2, <2>6 DEF HInv, Handshake
<1>7. CASE \/ WorkerFlag(w) \/ NoRequest(w) \/ Reply(w) \/ ReplyFails(w)
           \/ CloseConn(w) \/ Rearm(w)
  <2>1. ImprovSame
    <3>1. CASE WorkerFlag(w)
      BY <1>1, <3>1 DEF WorkerFlag, ImprovSame, SlotsOK, Slot
    <3>4. CASE Reply(w)
      <4> DEFINE old == users[task[w]]
                 new == [old EXCEPT !.unsent = TRUE, !.iov = "whole",
                           !.replies = IF @ = 2 THEN 2 ELSE @ + 1]
      <4>1. users' = [users EXCEPT ![task[w]] = new]
        BY <3>4 DEF Reply
      <4>2. task[w] \in Fd /\ old \in Slot
        BY <1>1, <3>4 DEF Reply, SlotsOK
      <4>3. new.improv = old.improv
        BY <4>2 DEF Slot
      <4> HIDE DEF new
      <4> QED
        BY <1>1, <4>1, <4>2, <4>3 DEF ImprovSame, SlotsOK
    <3>2. CASE NoRequest(w) \/ ReplyFails(w) \/ Rearm(w)
      BY <3>2 DEF NoRequest, ReplyFails, Rearm, ImprovSame
    <3>3. CASE CloseConn(w)
      BY <1>1, <3>3 DEF CloseConn, ImprovSame, SlotsOK, Slot
    <3> QED
      BY <1>7, <3>1, <3>2, <3>3, <3>4
  <2>2. m_workqueue' = m_workqueue
    BY <1>7 DEF WorkerFlag, NoRequest, Reply, ReplyFails, CloseConn, Rearm
  <2>3. /\ ~Running(w) /\ ~Running(w)'
        /\ \A v \in Worker \ {w} : wpc'[v] = wpc[v] /\ task'[v] = task[v]
    BY <1>1, <1>7 DEF WorkerFlag, NoRequest, Reply, ReplyFails, CloseConn,
                      Rearm, Finish, Running, PoolOK
  <2>4. \A v \in Worker : Running(v)' <=> Running(v)
    BY <2>3 DEF Running
  <2>5. /\ NoneQueued' <=> NoneQueued
        /\ NoneRunning' <=> NoneRunning
        /\ NoneAnswered' <=> NoneAnswered
    BY <2>1, <2>2, <2>4 DEF NoneQueued, NoneRunning, NoneAnswered, ImprovSame
  <2>6. RequestQueued => RequestQueued'
    BY <1>2, <2>2, <2>5 DEF RequestQueued
  <2>7. RequestRunning => RequestRunning'
    <3> SUFFICES ASSUME RequestRunning PROVE RequestRunning'
      OBVIOUS
    <3>1. PICK u \in Worker : /\ Running(u) /\ task[u] = mfd
                              /\ \A v \in Worker \ {u} : ~Running(v)
      BY DEF RequestRunning
    <3>2. u # w
      BY <2>3, <3>1
    <3>3. Running(u)' /\ task'[u] = mfd' /\ \A v \in Worker \ {u} : ~Running(v)'
      BY <1>2, <2>3, <2>4, <3>1, <3>2
    <3> QED
      BY <2>5, <3>3 DEF RequestRunning
  <2>8. (mpc \in {"spin", "flag"} /\ RequestAnswered) => RequestAnswered'
    BY <1>1, <1>2, <2>1, <2>5 DEF RequestAnswered, ImprovSame
  <2> QED
    BY <1>2, <1>3, <2>5, <2>6, <2>7, <2>8 DEF HInv, Handshake
<1> QED
  BY <1>5, <1>6, <1>7 DEF Work

LEMMA HandshakeEnvironment ==
  ASSUME IInv, IInv', HInv, Environment \/ UNCHANGED vars
  PROVE  HInv'
<1>1. /\ mpc \in {"spin", "flag"} => mfd \in Fd
      /\ MainOK /\ MainOK'
  BY DEF IInv, TypeOK, Places, MainOK
<1>2. UNCHANGED <<mpc, mfd, users, m_workqueue, wpc, task>>
  BY DEF Environment, Connect, Elapse, Terminate, Send, Drain, HangUp, Peer,
         mainVars, poolVars, vars
<1> QED
  BY <1>1, <1>2, HInvKept DEF ImprovSame

THEOREM HandshakeInductive == Spec => []HInv
<1>1. Init => HInv
  BY DEF Init, HInv, Handshake, NeverAborts, NoneQueued, NoneRunning, Running,
         NoneAnswered, FreshSlot
<1>2. IInv /\ IInv' /\ HInv /\ [Next]_vars => HInv'
  BY HandshakeMain, HandshakeWork, HandshakeEnvironment DEF Next
<1> QED
  BY <1>1, <1>2, Inductive, PTL DEF Spec

(* In reactor mode the main thread and the workers pass one request at a   *)
(* time between them, for any number of connections and workers.           *)
THEOREM HandshakeHolds == Spec => []Handshake
<1>1. HInv => Handshake
  BY DEF HInv
<1> QED
  BY HandshakeInductive, <1>1, PTL

(* append() throws in no reachable state, for any size of the queue.       *)
THEOREM AppendNeverThrows == Spec => []NeverAborts
<1>1. HInv => NeverAborts
  BY DEF HInv
<1> QED
  BY HandshakeInductive, <1>1, PTL

-----------------------------------------------------------------------------
(* m_user_count *)

\* What IInv says of the types, for the proofs below.
LEMMA Types ==
  ASSUME IInv
  PROVE  /\ sock \in [Fd -> Socket] /\ users \in [Fd -> Slot]
         /\ event \in [Fd -> Events] /\ m_workqueue \in Seq(Fd)
         /\ timer \in [Fd -> Timer] /\ user \in [Timer -> Fd \cup {NoFd}]
         /\ left \in [Timer -> 0 .. Lifetime] /\ m_user_count \in Int
         /\ task \in [Worker -> Fd \cup {NoFd}]
         /\ \A w \in Worker : task[w] = NoFd <=> wpc[w] = "idle"
         /\ \A w \in Worker : wpc[w] # "idle" => task[w] \in Fd
  BY DEF IInv, TypeOK, MainOK, KernelOK, SocketsOK, SlotsOK, TimersOK, PoolOK,
         Places

Open == {f \in Fd : sock[f].open}

LEMMA OpenFinite == IsFiniteSet(Open) /\ Cardinality(Open) \in Nat
<1>1. IsFiniteSet(Open)
  BY FiniteAssumption, FS_Subset DEF Open
<1> QED
  BY <1>1, FS_CardinalityType

Closing == {w \in Worker : wpc[w] = "close"}

LEMMA ClosingFinite == IsFiniteSet(Closing) /\ Cardinality(Closing) \in Nat
<1>1. IsFiniteSet(Closing)
  BY FiniteAssumption, FS_Subset DEF Closing
<1> QED
  BY <1>1, FS_CardinalityType

(* Whoever closes a connection subtracts it, at once or with the step      *)
(* after "close": C holds the n connections that a step closes.            *)
LEMMA CountStep ==
  ASSUME UserCount, m_user_count \in Int, m_user_count' \in Int,
         NEW C, IsFiniteSet(C), NEW n \in Nat, Cardinality(C) <= n,
         Open \subseteq Open' \cup C,
         m_user_count' + n + Cardinality(Closing)
            <= m_user_count + Cardinality(Closing')
  PROVE  UserCount'
<1>1. /\ IsFiniteSet(Open') /\ Cardinality(Open') \in Nat
      /\ Cardinality(Closing') \in Nat
  <2>1. Open' \in SUBSET Fd /\ Closing' \in SUBSET Worker
    BY DEF Open, Closing
  <2> QED
    BY <2>1, FiniteAssumption, FS_Subset, FS_CardinalityType
<1>2. /\ Cardinality(Open) \in Nat /\ Cardinality(Closing) \in Nat
      /\ Cardinality(C) \in Nat
  BY OpenFinite, ClosingFinite, FS_CardinalityType
<1>3. Cardinality(Open) <= Cardinality(Open') + Cardinality(C)
  <2> DEFINE U == Open' \cup C
  <2>1. IsFiniteSet(U) /\ Cardinality(Open' \cap C) \in Nat
        /\ Cardinality(U)
              = Cardinality(Open') + Cardinality(C) - Cardinality(Open' \cap C)
    <3>1. Open' \cap C \in SUBSET C
      OBVIOUS
    <3> QED
      BY <1>1, <3>1, FS_Union, FS_Subset, FS_CardinalityType
  <2>2. Open \in SUBSET U
    OBVIOUS
  <2> HIDE DEF U
  <2>3. Cardinality(Open) <= Cardinality(U)
    BY <2>1, <2>2, FS_Subset
  <2> QED
    BY <1>1, <1>2, <2>1, <2>3
<1>4. m_user_count <= Cardinality(Open) + Cardinality(Closing)
  BY DEF UserCount, Open, Closing
<1>5. m_user_count' <= Cardinality(Open') + Cardinality(Closing')
  BY <1>1, <1>2, <1>3, <1>4
<1> QED
  BY <1>5 DEF UserCount, Open, Closing

(* A step that closes nothing, and counts nothing.                         *)
LEMMA CountStays ==
  ASSUME UserCount, m_user_count \in Int, m_user_count' = m_user_count,
         Closing' = Closing,
         \A f \in Fd : sock[f].open => sock'[f].open
  PROVE  UserCount'
<1>1. Open \subseteq Open' \cup {}
  BY DEF Open
<1>2. IsFiniteSet({}) /\ Cardinality({}) <= 0 /\ 0 \in Nat
  BY FS_EmptySet
<1>3. m_user_count' + 0 + Cardinality(Closing)
         <= m_user_count + Cardinality(Closing')
  <2>1. Cardinality(Closing') = Cardinality(Closing)
    OBVIOUS
  <2>2. Cardinality(Closing) \in Nat
    BY ClosingFinite
  <2> QED
    BY <2>1, <2>2
<1> QED
  BY <1>1, <1>2, <1>3, CountStep

\* A step of the main thread that closes f.
LEMMA CountDealTimer ==
  ASSUME UserCount, m_user_count \in Int, NEW f \in Fd, DealTimer(f), wpc' = wpc
  PROVE  UserCount'
<1>1. m_user_count' = m_user_count - 1 /\ Closing' = Closing
  BY DEF DealTimer, Closing
<1>2. Open \subseteq Open' \cup {f}
  BY DEF DealTimer, closed, Open
<1>3. IsFiniteSet({f}) /\ Cardinality({f}) <= 1 /\ 1 \in Nat
  <2>1. IsFiniteSet({f}) /\ Cardinality({f}) = 1
    BY FS_Singleton
  <2> QED
    BY <2>1
<1>4. Cardinality(Closing) \in Nat
  BY ClosingFinite
<1> QED
  BY <1>1, <1>2, <1>3, <1>4, CountStep

LEMMA CountAdmit ==
  ASSUME IInv, UserCount, NEW f \in Fd, NEW t \in Timer, Admit(f, t), wpc' = wpc
  PROVE  UserCount'
<1>1. m_user_count \in Int /\ m_user_count' = m_user_count + 1 /\ Closing' = Closing
  BY Types DEF Admit, Closing
<1>2. f \notin Open /\ Open' = Open \cup {f}
  BY Types DEF Admit, Open, ClosedSocket, Socket
<1>3. Cardinality(Open') = Cardinality(Open) + 1
  BY <1>2, OpenFinite, FS_AddElement
<1>4. m_user_count <= Cardinality(Open) + Cardinality(Closing)
  BY DEF UserCount, Open, Closing
<1>5. m_user_count' <= Cardinality(Open') + Cardinality(Closing')
  BY <1>1, <1>3, <1>4, OpenFinite, ClosingFinite
<1> QED
  BY <1>5 DEF UserCount, Open, Closing

(* tick() subtracts as many connections as there are timers due, and does  *)
(* not close more: two timers may name one descriptor.                     *)
LEMMA CountTimerHandler ==
  ASSUME UserCount, m_user_count \in Int, TimerHandler
  PROVE  UserCount'
<1> USE DEF poolVars
<1> DEFINE due == {t \in Live : left[t] = 0}
           C == {user[t] : t \in due}
           of == [t \in due |-> user[t]]
<1>1. m_user_count' = m_user_count - Cardinality(due) /\ Closing' = Closing
  BY DEF TimerHandler, Closing
<1>2. Open \subseteq Open' \cup C
  BY DEF TimerHandler, closed, Open
<1>3. IsFiniteSet(due)
  <2>1. due \in SUBSET Timer
    BY DEF Live
  <2> QED
    BY <2>1, FiniteAssumption, FS_Subset
<1>4. of \in Surjection(due, C)
  BY DEF Surjection
<1> HIDE DEF due, C, of
<1>5. IsFiniteSet(C) /\ Cardinality(C) <= Cardinality(due)
  BY <1>3, <1>4, FS_Surjection
<1>6. /\ Cardinality(Closing) \in Nat /\ Cardinality(due) \in Nat
      /\ Cardinality(C) \in Nat
  BY <1>3, <1>5, ClosingFinite, FS_CardinalityType
<1> QED
  BY <1>1, <1>2, <1>5, <1>6, CountStep

LEMMA CountMain ==
  ASSUME IInv, UserCount, Main PROVE UserCount'
<1> USE DEF mainVars, clockVars, listenVars, timerVars, poolVars
<1>1. m_user_count \in Int /\ sock \in [Fd -> Socket]
  BY Types
<1>2. CASE DealClientLT \/ AcceptLoop
  <2>1. wpc' = wpc
    BY <1>2 DEF DealClientLT, AcceptLoop
  <2>2. CASE AcceptAdmits
    BY <2>1, <2>2, CountAdmit DEF AcceptAdmits
  <2>3. CASE AcceptBusy \/ AcceptFails
    BY <1>1, <2>1, <2>3, CountStays DEF AcceptBusy, AcceptFails, Closing
  <2> QED
    BY <1>2, <2>2, <2>3 DEF DealClientLT, AcceptLoop
<1>3. CASE TimerHandler
  BY <1>1, <1>3, CountTimerHandler
<1>4. CASE \/ DealClientET \/ HandleSignal \/ SpinEnds \/ NextRound
           \/ \E f \in Fd : EndlessWrite(f) \/ Delegate(f)
  <2>1. UNCHANGED <<wpc, m_user_count, sock>>
    BY <1>4 DEF DealClientET, HandleSignal, SpinEnds, NextRound, EndlessWrite,
                Delegate
  <2> QED
    BY <1>1, <2>1, CountStays DEF Closing
<1>5. CASE EpollWait
  <2>1. UNCHANGED <<wpc, m_user_count>>
    BY <1>5 DEF EpollWait
  <2>2. \A f \in Fd : sock[f].open => sock'[f].open
    BY <1>1, <1>5 DEF EpollWait, reported, Socket
  <2>3. /\ Closing' = Closing /\ m_user_count' = m_user_count
        /\ m_user_count \in Int
    BY <1>1, <2>1 DEF Closing
  <2> QED
    BY <2>2, <2>3, CountStays
<1>6. CASE ReadTimerFlag
  <2>1. wpc' = wpc /\ mfd \in Fd
    BY <1>6 DEF ReadTimerFlag, IInv, Places, TypeOK, MainOK
  <2>2. CASE DealTimer(mfd)
    BY <1>1, <2>1, <2>2, CountDealTimer
  <2>3. CASE UNCHANGED <<sock, m_user_count>>
    BY <1>1, <2>1, <2>3, CountStays DEF Closing
  <2> QED
    BY <1>6, <2>2, <2>3 DEF ReadTimerFlag
<1>7. ASSUME NEW f \in Fd, HandleHup(f) PROVE UserCount'
  BY <1>1, <1>7, CountDealTimer DEF HandleHup
<1>8. ASSUME NEW f \in Fd, HandleReadProactor(f) PROVE UserCount'
  <2>1. wpc' = wpc
    BY <1>8 DEF HandleReadProactor
  <2>2. CASE DealTimer(f)
    BY <1>1, <2>1, <2>2, CountDealTimer
  <2>3. CASE sock' = drained(f) /\ m_user_count' = m_user_count
    <3>1. \A g \in Fd : sock[g].open => sock'[g].open
      BY <1>1, <2>3 DEF drained, Socket
    <3> QED
      BY <1>1, <2>1, <2>3, <3>1, CountStays DEF Closing
  <2> QED
    BY <1>8, <2>2, <2>3 DEF HandleReadProactor
<1>9. ASSUME NEW f \in Fd, HandleWriteProactor(f) PROVE UserCount'
  <2>1. wpc' = wpc
    BY <1>9 DEF HandleWriteProactor
  <2>2. CASE DealTimer(f)
    BY <1>1, <2>1, <2>2, CountDealTimer
  <2>3. ASSUME NEW o \in WriteOutcomes(f), sock' = o.sock,
               m_user_count' = m_user_count
        PROVE  UserCount'
    <3>1. \A g \in Fd : sock[g].open => sock'[g].open
      BY <2>3, OutcomeType DEF IInv, TypeOK, SameOpen
    <3> QED
      BY <1>1, <2>1, <2>3, <3>1, CountStays DEF Closing
  <2> QED
    BY <1>9, <2>2, <2>3 DEF HandleWriteProactor
<1> QED
  BY <1>2, <1>3, <1>4, <1>5, <1>6, <1>7, <1>8, <1>9, Zenon DEF Main

LEMMA CountWork ==
  ASSUME IInv, UserCount, NEW w \in Worker, Work(w) PROVE UserCount'
<1> USE DEF mainVars, clockVars, listenVars, timerVars, poolVars
<1>1. /\ m_user_count \in Int /\ sock \in [Fd -> Socket]
      /\ wpc \in [Worker -> {"idle", "read", "write", "process", "close",
                             "flag", "rearm in", "rearm out"}]
      /\ wpc[w] # "idle" => task[w] \in Fd
  BY Types DEF IInv, TypeOK, PoolOK
<1>2. /\ IsFiniteSet(Closing) /\ Cardinality(Closing) \in Nat
      /\ m_user_count \in Int
  BY ClosingFinite, Types
<1>3. CASE ReplyFails(w) /\ wpc'[w] = "close"
  <2>1. /\ w \notin Closing /\ Closing' = Closing \cup {w}
        /\ m_user_count' = m_user_count
    BY <1>1, <1>3 DEF ReplyFails, Closing
  <2>2. Cardinality(Closing') = Cardinality(Closing) + 1
    BY <1>2, <2>1, FS_AddElement
  <2> DEFINE f == task[w]
  <2>3. Open \subseteq Open' \cup {f}
    BY <1>1, <1>3 DEF ReplyFails, closed, Open
  <2>4. IsFiniteSet({f}) /\ Cardinality({f}) = 1
    BY FS_Singleton
  <2> HIDE DEF f
  <2>5. Cardinality({f}) <= 1 /\ 1 \in Nat
    BY <2>4
  <2>6. m_user_count' \in Int
    BY <1>2, <2>1
  <2>7. m_user_count' + 1 + Cardinality(Closing)
           <= m_user_count + Cardinality(Closing')
    BY <1>2, <2>1, <2>2
  <2> QED
    BY <1>2, <2>3, <2>4, <2>5, <2>6, <2>7, CountStep
<1>4. CASE CloseConn(w)
  <2>1. /\ w \in Closing /\ Closing' = Closing \ {w}
        /\ m_user_count' = m_user_count - 1 /\ sock' = sock
    BY <1>1, <1>4 DEF CloseConn, Closing
  <2>2. Cardinality(Closing') = Cardinality(Closing) - 1
    BY <1>2, <2>1, FS_RemoveElement
  <2>3. Open \subseteq Open' \cup {}
    BY <2>1 DEF Open
  <2>4. IsFiniteSet({}) /\ Cardinality({}) <= 0 /\ 0 \in Nat
    BY FS_EmptySet
  <2>6. m_user_count' \in Int
    BY <1>2, <2>1
  <2>7. m_user_count' + 0 + Cardinality(Closing)
           <= m_user_count + Cardinality(Closing')
    BY <1>2, <2>1, <2>2
  <2> QED
    BY <1>2, <2>3, <2>4, <2>6, <2>7, CountStep
<1>5. CASE ~CloseConn(w) /\ ~(ReplyFails(w) /\ wpc'[w] = "close")
  <2>1. m_user_count' = m_user_count
    BY <1>5 DEF Work, Take, WorkerRead, WorkerWrite, WorkerFlag, NoRequest,
                Reply, ReplyFails, Rearm
  <2>2. Closing' = Closing
    <3>1. wpc[w] # "close"
      BY <1>5 DEF Work, Take, WorkerRead, WorkerWrite, WorkerFlag, NoRequest,
                  Reply, ReplyFails, Rearm
    <3>2. wpc' = [wpc EXCEPT ![w] = wpc'[w]] /\ wpc'[w] # "close"
      BY <1>1, <1>5 DEF Work, Take, WorkerRead, WorkerWrite, WorkerFlag,
                        NoRequest, Reply, ReplyFails, Rearm, Finish
    <3> QED
      BY <1>1, <3>1, <3>2 DEF Closing
  <2>3. \A g \in Fd : sock[g].open => sock'[g].open
    <3>1. CASE UNCHANGED sock
      BY <3>1
    <3>2. CASE \E f \in Fd : sock' = drained(f)
      BY <1>1, <3>2 DEF drained, Socket
    <3>3. CASE \E f \in Fd : \E o \in WriteOutcomes(f) : sock' = o.sock
      BY <3>3, OutcomeType DEF IInv, TypeOK, SameOpen
    <3>4. CASE \E f \in Fd, ev \in {"in", "out"} : sock' = modfd(f, ev)
      BY <1>1, <3>4 DEF modfd, Socket
    <3>5. CASE WorkerRead(w)
      BY <1>1, <3>1, <3>2, <3>5 DEF WorkerRead
    <3>6. CASE WorkerWrite(w)
      BY <1>1, <3>3, <3>6 DEF WorkerWrite
    <3>7. CASE Rearm(w)
      BY <1>1, <3>4, <3>7 DEF Rearm
    <3>8. CASE ReplyFails(w)
      <4>1. UNCHANGED sock
        BY <1>1, <1>5, <3>8 DEF ReplyFails
      <4> QED
        BY <4>1
    <3>9. CASE \/ Take(w) \/ WorkerFlag(w) \/ NoRequest(w) \/ Reply(w)
      BY <3>9 DEF Take, WorkerFlag, NoRequest, Reply
    <3> QED
      BY <1>5, <3>5, <3>6, <3>7, <3>8, <3>9, Zenon DEF Work
  <2> QED
    BY <1>1, <2>1, <2>2, <2>3, CountStays
<1> QED
  BY <1>3, <1>4, <1>5

LEMMA CountEnvironment ==
  ASSUME IInv, UserCount, Environment \/ UNCHANGED vars PROVE UserCount'
<1> USE DEF mainVars, clockVars, listenVars, timerVars, poolVars
<1>1. m_user_count \in Int /\ sock \in [Fd -> Socket]
  BY Types
<1>2. UNCHANGED <<wpc, m_user_count>>
  BY DEF Environment, Connect, Elapse, Terminate, Send, Drain, HangUp, Peer,
         vars
<1>3. \A g \in Fd : sock[g].open => sock'[g].open
  <2>1. CASE Connect \/ Elapse \/ Terminate \/ UNCHANGED vars
    BY <2>1 DEF Connect, Elapse, Terminate, vars
  <2>2. ASSUME NEW f \in Fd, Send(f) \/ Drain(f) \/ HangUp(f)
        PROVE  \A g \in Fd : sock[g].open => sock'[g].open
    BY <1>1, <2>2 DEF Send, Drain, HangUp, Peer, Socket
  <2> QED
    BY <2>1, <2>2 DEF Environment
<1> QED
  BY <1>1, <1>2, <1>3, CountStays DEF Closing

(* The server never takes itself for fuller than it is, in either mode,    *)
(* with the main thread and any number of workers subtracting, and also    *)
(* when a connection is subtracted twice or its descriptor used again.     *)
THEOREM UserCountHolds == Spec => []UserCount
<1>1. Init => UserCount
  BY OpenFinite, ClosingFinite DEF Init, UserCount, Open, Closing
<1>2. IInv /\ UserCount /\ [Next]_vars => UserCount'
  BY CountMain, CountWork, CountEnvironment DEF Next
<1> QED
  BY <1>1, <1>2, Inductive, PTL DEF Spec

-----------------------------------------------------------------------------
(* The proactor.  The inductive invariant *)

Party == {"epoll", "main", "queue", "worker", "nobody"}

(* Of the four things that may lead a thread to f there is the one that    *)
(* belongs to party h, and no other.                                       *)
Only(f, h) ==
    /\ sock[f].armed # "off" <=> h = "epoll"
    /\ event[f] # "none" <=> h = "main"
    /\ f \in Queued <=> h = "queue"
    /\ f \in Held <=> h = "worker"

Sole == \A f \in Fd : Only(f, owner[f])

(* The parts of the code that belong to the reactor are never reached, and *)
(* epoll_wait() is called when the batch has been handled.                 *)
Plain ==
    /\ mpc \in {"wait", "batch", "accept", "write", "done"}
    /\ \A w \in Worker : wpc[w] \in {"idle", "process", "rearm in", "rearm out"}
    /\ mpc = "wait" => \A f \in Fd : event[f] = "none"

(* Who holds a connection holds an open one, and a task has time left.     *)
Safe ==
    \A f \in Fd :
        /\ owner[f] # "nobody" => sock[f].open
        /\ sock[f].open => users[f].m_sockfd = f
        /\ owner[f] \in {"queue", "worker"} => left[timer[f]] > 0

(* No connection is queued twice or run by two workers.                    *)
Once ==
    /\ Distinct(m_workqueue)
    /\ \A v, w \in Worker : (task[v] # NoFd /\ task[v] = task[w]) => v = w

(* A connection that is on its way to process() has no reply built since   *)
(* init(); so process_write() does not fail.                               *)
Unreplied ==
    /\ \A f \in Fd : (\/ sock[f].armed = "in" \/ event[f] = "in"
                      \/ f \in Queued) => users[f].replies = 0
    /\ \A w \in Worker : wpc[w] \in {"process", "rearm in"}
                            => users[task[w]].replies = 0

\* Only the main thread counts, so here the count is exact.
Counted == m_user_count = Cardinality(Open)

(* An open connection is in nobody's hands just when it was refused.       *)
Unheld == \A f \in Fd : sock[f].open => (owner[f] = "nobody" <=> users[f].refused)

PInv ==
    /\ Plain /\ Sole /\ Safe /\ Once /\ Unreplied /\ OneTimer
    /\ Counted /\ Unheld

-----------------------------------------------------------------------------
(* What a step does to the owners *)

LEMMA OwnerType ==
  ASSUME NEW f \in Fd PROVE owner[f] \in Party
  BY Zenon DEF owner, Party

LEMMA OnlyOwner ==
  ASSUME NEW f \in Fd, NEW h \in Party, Only(f, h) PROVE owner[f] = h
  BY DEF Only, owner, Party

LEMMA OnlyOwnerNext ==
  ASSUME NEW f \in Fd, NEW h \in Party, Only(f, h)' PROVE owner'[f] = h
  BY DEF Only, owner, Party

\* Nothing that leads a thread to g has changed.
Same(g) ==
    /\ sock'[g].armed = sock[g].armed /\ event'[g] = event[g]
    /\ g \in Queued' <=> g \in Queued
    /\ g \in Held' <=> g \in Held

(* The connections in F go from one party to another, and no other moves.  *)
LEMMA MoveStep ==
  ASSUME Sole, NEW F \in SUBSET Fd, NEW from \in Party, NEW to \in Party,
         \A f \in F : Only(f, from) /\ Only(f, to)',
         \A g \in Fd \ F : Same(g)
  PROVE  /\ Sole'
         /\ \A g \in Fd : owner'[g] = IF g \in F THEN to ELSE owner[g]
         /\ F # {} => Conn!Move(F, from, to)
         /\ F = {} => owner' = owner
<1>1. \A f \in F : owner[f] = from /\ owner'[f] = to
  BY OnlyOwner, OnlyOwnerNext
<1>2. \A g \in Fd \ F : owner'[g] = owner[g] /\ Only(g, owner[g])'
  <2> SUFFICES ASSUME NEW g \in Fd \ F
               PROVE  owner'[g] = owner[g] /\ Only(g, owner[g])'
    OBVIOUS
  <2>1. Only(g, owner[g]) /\ Same(g) /\ owner[g] \in Party
    BY OwnerType DEF Sole
  <2> DEFINE h == owner[g]
  <2>2. ASSUME NEW k \in Party, Only(g, k) PROVE Only(g, k)'
    BY <2>1, <2>2 DEF Only, Same
  <2> QED
    BY <2>1, <2>2, OnlyOwnerNext DEF Only
<1>3. \A g \in Fd : owner'[g] = IF g \in F THEN to ELSE owner[g]
  BY <1>1, <1>2
<1>4. owner = [g \in Fd |-> owner[g]] /\ owner' = [g \in Fd |-> owner'[g]]
  BY Zenon DEF owner
<1>5. Sole'
  <2> SUFFICES ASSUME NEW g \in Fd PROVE Only(g, owner[g])'
    BY DEF Sole
  <2>1. CASE g \in F
    <3>1. Only(g, to)' /\ owner'[g] = to
      BY <1>1, <2>1
    <3> QED
      BY <3>1 DEF Only
  <2> QED
    BY <1>2, <2>1
<1>6. F # {} => Conn!Move(F, from, to)
  <2> SUFFICES ASSUME F # {} PROVE Conn!Move(F, from, to)
    OBVIOUS
  <2>1. owner' = [g \in Fd |-> IF g \in F THEN to ELSE owner[g]]
    BY <1>3, <1>4, Zenon
  <2> QED
    BY <1>1, <2>1, Zenon DEF Conn!Move
<1>7. F = {} => owner' = owner
  <2> SUFFICES ASSUME F = {} PROVE owner' = owner
    OBVIOUS
  <2>1. \A g \in Fd : owner'[g] = owner[g]
    BY <1>3
  <2> QED
    BY <1>4, <2>1, Zenon
<1> QED
  BY <1>3, <1>5, <1>6, <1>7

LEMMA StayStep ==
  ASSUME Sole, \A g \in Fd : Same(g)
  PROVE  Sole' /\ owner' = owner
<1> DEFINE F == {}
<1>1. /\ F \in SUBSET Fd /\ "main" \in Party /\ \A g \in Fd \ F : Same(g)
      /\ \A f \in F : Only(f, "main") /\ Only(f, "main")'
  BY DEF Party
<1> HIDE DEF F
<1>2. Sole' /\ (F = {} => owner' = owner)
  BY <1>1, MoveStep
<1> QED
  BY <1>2 DEF F

-----------------------------------------------------------------------------
(* Steps that move no connection *)

LEMMA InHands ==
  ASSUME Sole, NEW f \in Fd
  PROVE  f \in Queued \cup Held <=> owner[f] \in {"queue", "worker"}
  BY DEF Sole, Only

(* A step after which everybody holds what they held, the same sockets are *)
(* open, and no slot has more replies than before.                         *)
LEMMA QuietStep ==
  ASSUME PInv, Plain',
         UNCHANGED <<event, m_workqueue, task, timer, user, m_user_count>>,
         \A g \in Fd : /\ sock'[g].armed = sock[g].armed
                       /\ sock'[g].open = sock[g].open
                       /\ users'[g].m_sockfd = users[g].m_sockfd
                       /\ users'[g].replies = users[g].replies
                       /\ users'[g].refused = users[g].refused
                       /\ g \in Queued \cup Held => left'[timer[g]] > 0,
         \A w \in Worker : wpc'[w] \in {"process", "rearm in"}
                             => wpc[w] \in {"process", "rearm in"},
         \A w \in Worker : wpc[w] # "idle" => task[w] \in Fd
  PROVE  PInv' /\ owner' = owner
<1>1. Sole' /\ owner' = owner
  <2>1. \A g \in Fd : Same(g)
    BY DEF Same, Queued, Held
  <2> QED
    BY <2>1, StayStep DEF PInv
<1>2. Safe'
  BY <1>1, InHands DEF PInv, Safe
<1>3. Once'
  BY DEF PInv, Once, Distinct
<1>6. Unreplied'
  <2>1. Queued' = Queued
    BY DEF Queued
  <2> QED
    BY <2>1 DEF PInv, Unreplied
<1>4. OneTimer'
  BY DEF PInv, OneTimer, Live
<1>5. Counted'
  <2>1. Open' = Open
    BY DEF Open
  <2> QED
    BY <2>1 DEF PInv, Counted
<1>7. Unheld'
  BY <1>1 DEF PInv, Unheld
<1> QED
  BY <1>1, <1>2, <1>3, <1>4, <1>5, <1>6, <1>7 DEF PInv

-----------------------------------------------------------------------------
(* The environment *)

LEMMA ProactorEnvironment ==
  ASSUME ~Stalls, IInv, PInv, Environment \/ UNCHANGED vars
  PROVE  PInv' /\ owner' = owner
<1> USE DEF mainVars, clockVars, listenVars, timerVars, poolVars
<1>1. /\ sock \in [Fd -> Socket] /\ left \in [Timer -> 0 .. Lifetime]
      /\ timer \in [Fd -> Timer]
      /\ \A w \in Worker : wpc[w] # "idle" => task[w] \in Fd
  BY DEF IInv, TypeOK, SocketsOK, TimersOK, PoolOK, Places
<1>2. UNCHANGED <<event, m_workqueue, task, timer, user, m_user_count, mpc,
                  wpc, users>>
  BY DEF Environment, Connect, Elapse, Terminate, Send, Drain, HangUp, Peer,
         vars
<1>3. Plain'
  BY <1>2 DEF PInv, Plain
<1>4. \A g \in Fd : /\ sock'[g].armed = sock[g].armed
                    /\ sock'[g].open = sock[g].open
  <2>1. CASE Connect \/ Elapse \/ Terminate \/ UNCHANGED vars
    BY <2>1 DEF Connect, Elapse, Terminate, vars
  <2>2. ASSUME NEW f \in Fd, Send(f) \/ Drain(f) \/ HangUp(f)
        PROVE  \A g \in Fd : /\ sock'[g].armed = sock[g].armed
                            /\ sock'[g].open = sock[g].open
    BY <1>1, <2>2 DEF Send, Drain, HangUp, Peer, Socket
  <2> QED
    BY <2>1, <2>2 DEF Environment
<1>5. ASSUME NEW g \in Fd, g \in Queued \cup Held
      PROVE  left'[timer[g]] > 0
  <2>1. left[timer[g]] > 0
    BY <1>5, InHands DEF PInv, Safe
  <2>2. CASE Elapse
    <3>1. left[timer[g]] > 1
      BY <1>5, <2>2 DEF Elapse
    <3> QED
      BY <1>1, <2>2, <3>1 DEF Elapse
  <2>3. CASE left' = left
    BY <2>1, <2>3
  <2> QED
    BY <2>2, <2>3
       DEF Environment, Connect, Terminate, Send, Drain, HangUp, Peer, vars
<1> QED
  BY <1>1, <1>2, <1>3, <1>4, <1>5, QuietStep

-----------------------------------------------------------------------------
(* The main thread *)

(* An open connection's timer is its own.                                  *)
LEMMA OwnTimer ==
  ASSUME IInv, OneTimer
  PROVE  /\ \A f \in Fd : sock[f].open => user[timer[f]] = f
         /\ \A t \in Timer, f \in Fd : user[t] = f => sock[f].open /\ t = timer[f]
<1>1. ASSUME NEW f \in Fd, sock[f].open PROVE user[timer[f]] = f
  BY <1>1 DEF IInv, TimerSafe, MayUseTimer
<1>2. ASSUME NEW t \in Timer, NEW f \in Fd, user[t] = f
      PROVE  sock[f].open /\ t = timer[f]
  <2>1. t \in {x \in Live : user[x] = f}
    BY <1>2, FdAssumption DEF Live
  <2> QED
    BY <2>1 DEF OneTimer
<1> QED
  BY <1>1, <1>2

(* The converse, in the form in which the steps re-establish OneTimer.     *)
LEMMA OneTimerNext ==
  ASSUME TimersOK',
         \A f \in Fd : sock'[f].open => user'[timer'[f]] = f,
         \A t \in Timer, f \in Fd :
            user'[t] = f => sock'[f].open /\ t = timer'[f]
  PROVE  OneTimer'
<1> SUFFICES ASSUME NEW f \in Fd
             PROVE  {t \in Live' : user'[t] = f}
                    = IF sock'[f].open THEN {timer'[f]} ELSE {}
  BY DEF OneTimer
<1>1. timer'[f] \in Timer
  BY DEF TimersOK
<1>2. \A t \in Live' : t \in Timer
  BY DEF Live
<1>3. sock'[f].open => timer'[f] \in Live'
  BY <1>1, FdAssumption DEF Live
<1> QED
  BY <1>1, <1>2, <1>3

LEMMA QuietMain ==
  ASSUME IInv, PInv,
         \/ DealClientET \/ HandleSignal \/ NextRound
         \/ \E f \in Fd : EndlessWrite(f)
         \/ (DealClientLT \/ AcceptLoop) /\ (AcceptBusy \/ AcceptFails)
            /\ mpc' = "batch"
  PROVE  PInv' /\ owner' = owner
<1> USE DEF mainVars, clockVars, listenVars, timerVars, poolVars
<1>1. UNCHANGED <<event, m_workqueue, task, wpc, timer, user, left, sock, users,
                  m_user_count>>
  BY DEF DealClientET, HandleSignal, NextRound, EndlessWrite, DealClientLT,
         AcceptLoop, AcceptBusy, AcceptFails
<1>2. Plain'
  BY <1>1 DEF PInv, Plain, DealClientET, HandleSignal, NextRound, EndlessWrite,
              BatchDone
<1>3. \A g \in Fd : g \in Queued \cup Held => left'[timer[g]] > 0
  BY <1>1, InHands DEF PInv, Safe
<1> QED
  BY <1>1, <1>2, <1>3, Types, QuietStep

LEMMA EpollWaitOwners ==
  ASSUME IInv, PInv, EpollWait
  PROVE  PInv' /\ [Conn!Next]_owner
<1> USE DEF mainVars, clockVars, listenVars, timerVars, poolVars
<1> DEFINE F == {f \in Fd : Ready(f)}
<1>1. /\ UNCHANGED <<m_workqueue, task, wpc, timer, user, left, users,
                     m_user_count>>
      /\ mpc = "wait" /\ mpc' = "batch"
      /\ event' = [f \in Fd |-> IF ~Ready(f) THEN "none"
                                ELSE IF sock[f].hup THEN "hup"
                                ELSE sock[f].armed]
      /\ sock' = [f \in Fd |-> IF Ready(f) THEN reported(f) ELSE sock[f]]
  BY DEF EpollWait
<1>2. \A g \in Fd : sock'[g].open = sock[g].open
  BY <1>1, Types DEF reported, Socket
<1>3. \A f \in F : Only(f, "epoll") /\ Only(f, "main")'
  <2> SUFFICES ASSUME NEW f \in Fd, Ready(f)
               PROVE  Only(f, "epoll") /\ Only(f, "main")'
    OBVIOUS
  <2>1. sock[f].armed \in {"in", "out"}
    BY DEF Ready
  <2>2. Only(f, "epoll")
    BY <2>1 DEF PInv, Sole, Only
  <2>3. sock'[f].armed = "off" /\ event'[f] # "none"
    BY <1>1, <2>1, Types DEF reported, Socket
  <2>4. Queued' = Queued /\ Held' = Held
    BY <1>1 DEF Queued, Held
  <2> QED
    BY <2>2, <2>3, <2>4 DEF Only
<1>4. \A g \in Fd \ F : Same(g)
  BY <1>1 DEF Same, PInv, Plain, Queued, Held
<1>5. /\ Sole' /\ \A g \in Fd : owner'[g] = IF g \in F THEN "main" ELSE owner[g]
      /\ F # {} => Conn!Move(F, "epoll", "main")
      /\ F = {} => owner' = owner
  BY <1>3, <1>4, MoveStep DEF PInv, Party
<1>6. Plain'
  BY <1>1 DEF PInv, Plain
<1>7. Safe'
  <2>1. \A f \in F : sock[f].open
    BY DEF Ready
  <2> QED
    BY <1>1, <1>2, <1>5, <2>1 DEF PInv, Safe
<1>8. Once'
  BY <1>1 DEF PInv, Once
<1>9. Unreplied'
  <2>1. \A f \in Fd : /\ sock'[f].armed = "in" => sock[f].armed = "in"
                      /\ event'[f] = "in" => sock[f].armed = "in"
    BY <1>1, Types DEF reported, Socket
  <2>2. Queued' = Queued
    BY <1>1 DEF Queued
  <2> QED
    BY <1>1, <2>1, <2>2 DEF PInv, Unreplied
<1>10. OneTimer'
  BY <1>1, <1>2 DEF PInv, OneTimer, Live
<1>11. Counted'
  BY <1>1, <1>2 DEF PInv, Counted, Open
<1>12. [Conn!Next]_owner
  BY <1>5 DEF Conn!Next, Conn!Report
<1>13. Unheld'
  <2>1. \A f \in F : owner[f] # "nobody"
    BY <1>3, OnlyOwner DEF Party
  <2> QED
    BY <1>1, <1>2, <1>5, <2>1 DEF PInv, Unheld
<1> QED
  BY <1>5, <1>6, <1>7, <1>8, <1>9, <1>10, <1>11, <1>12,
     <1>13 DEF PInv

LEMMA AdmitOwners ==
  ASSUME IInv, IInv', PInv, AcceptAdmits, mpc' \in {"batch", "accept"},
         UNCHANGED <<event, m_workqueue, task, wpc>>
  PROVE  PInv' /\ [Conn!Next]_owner
<1>1. PICK f \in Fd, t \in Timer : Admit(f, t)
  BY DEF AcceptAdmits
<1>2. /\ ~sock[f].open /\ t \notin Live
      /\ sock' = [sock EXCEPT ![f] = [ClosedSocket EXCEPT !.open = TRUE,
                                                          !.armed = "in"]]
      /\ users' = [users EXCEPT ![f] = FreshSlot(f)]
      /\ m_user_count' = m_user_count + 1
      /\ timer' = [timer EXCEPT ![f] = t]
      /\ user' = [user EXCEPT ![t] = f]
      /\ left' = [left EXCEPT ![t] = Lifetime]
  BY <1>1 DEF Admit
<1>3. /\ sock'[f].open /\ sock'[f].armed = "in" /\ users'[f].m_sockfd = f
      /\ users'[f].replies = 0 /\ ~users'[f].refused /\ user[t] = NoFd
  BY <1>2, Types DEF ClosedSocket, FreshSlot, Live
<1>4. \A g \in Fd \ {f} : sock'[g] = sock[g] /\ users'[g] = users[g]
                          /\ timer'[g] = timer[g]
  BY <1>2, Types
<1>5. /\ Queued' = Queued /\ Held' = Held
      /\ owner[f] = "nobody" /\ Only(f, "nobody")
  BY <1>2 DEF Queued, Held, PInv, Safe, Sole
<1>6. Only(f, "nobody") /\ Only(f, "epoll")'
  BY <1>3, <1>5 DEF Only
<1>7. \A g \in Fd \ {f} : Same(g)
  BY <1>4, <1>5 DEF Same
<1>8. /\ Sole' /\ Conn!Move({f}, "nobody", "epoll")
      /\ \A g \in Fd : owner'[g] = IF g = f THEN "epoll" ELSE owner[g]
  <2> DEFINE F == {f}
  <2>1. /\ F \in SUBSET Fd /\ F # {} /\ {"nobody", "epoll"} \subseteq Party
        /\ \A g \in F : Only(g, "nobody") /\ Only(g, "epoll")'
        /\ \A g \in Fd \ F : Same(g)
    BY <1>6, <1>7 DEF Party
  <2> HIDE DEF F
  <2>2. /\ Sole' /\ Conn!Move(F, "nobody", "epoll")
        /\ \A g \in Fd : owner'[g] = IF g \in F THEN "epoll" ELSE owner[g]
    BY <2>1, MoveStep DEF PInv
  <2> QED
    BY <2>2 DEF F
<1>9. Plain'
  BY DEF PInv, Plain
<1>10. Safe'
  <2>1. ASSUME NEW g \in Fd, owner'[g] \in {"queue", "worker"}
        PROVE  left'[timer'[g]] > 0
    <3>1. g # f /\ left[timer[g]] > 0 /\ timer'[g] = timer[g]
      BY <1>4, <1>8, <2>1 DEF PInv, Safe
    <3>2. timer[g] \in Timer /\ left'[timer[g]] \in {left[timer[g]], Lifetime}
      BY <1>2, Types
    <3> QED
      BY <3>1, <3>2, LimitAssumption
  <2> QED
    BY <1>3, <1>4, <1>8, <2>1 DEF PInv, Safe
<1>11. Once'
  BY DEF PInv, Once
<1>12. Unreplied'
  <2>1. \A w \in Worker : task[w] # NoFd => task[w] \in Held
    BY DEF Held
  <2>2. \A w \in Worker : wpc[w] # "idle" => task[w] \in Fd \ {f}
    BY <1>6, <2>1, Types, FdAssumption DEF Only
  <2> QED
    BY <1>3, <1>4, <1>5, <2>2 DEF PInv, Unreplied
<1>13. OneTimer'
  <2>1. ASSUME NEW g \in Fd, sock'[g].open PROVE user'[timer'[g]] = g
    BY <2>1 DEF IInv, TimerSafe, MayUseTimer
  <2>2. ASSUME NEW x \in Timer, NEW g \in Fd, user'[x] = g
        PROVE  sock'[g].open /\ x = timer'[g]
    <3>1. CASE x = t
      BY <1>2, <1>3, <2>2, <3>1, Types
    <3>2. CASE x # t
      <4>1. user[x] = g
        BY <1>2, <2>2, <3>2, Types
      <4>2. sock[g].open /\ x = timer[g] /\ g # f
        BY <1>2, <4>1, OwnTimer DEF PInv
      <4> QED
        BY <1>4, <4>2
    <3> QED
      BY <3>1, <3>2
  <2> QED
    BY <2>1, <2>2, OneTimerNext DEF IInv, TypeOK
<1>14. Counted'
  <2>1. Open' = Open \cup {f} /\ f \notin Open
    BY <1>2, <1>3, <1>4 DEF Open
  <2>2. Cardinality(Open') = Cardinality(Open) + 1
    BY <2>1, OpenFinite, FS_AddElement
  <2> QED
    BY <1>2, <2>2 DEF PInv, Counted
<1>15. [Conn!Next]_owner
  BY <1>8 DEF Conn!Next, Conn!Accept
<1>16. Unheld'
  BY <1>3, <1>4, <1>8 DEF PInv, Unheld
<1> QED
  BY <1>8, <1>9, <1>10, <1>11, <1>12, <1>13, <1>14, <1>15,
     <1>16 DEF PInv

(* deal_timer() for a connection the main thread holds.                    *)
LEMMA DealTimerOwners ==
  ASSUME IInv, IInv', PInv, NEW f \in Fd, event[f] # "none", DealTimer(f),
         event' = [event EXCEPT ![f] = "none"], mpc' = "batch",
         UNCHANGED <<m_workqueue, task, wpc>>,
         users' = [users EXCEPT ![f] = users'[f]],
         users'[f].m_sockfd = users[f].m_sockfd
  PROVE  PInv' /\ [Conn!Next]_owner
<1>1. /\ sock' = closed({f}) /\ m_user_count' = m_user_count - 1
      /\ user' = [user EXCEPT ![timer[f]] = NoFd]
      /\ left' = [left EXCEPT ![timer[f]] = 0] /\ timer' = timer
  BY DEF DealTimer
<1>2. /\ ~sock'[f].open /\ sock'[f].armed = "off" /\ event'[f] = "none"
      /\ \A g \in Fd \ {f} : /\ sock'[g] = sock[g] /\ event'[g] = event[g]
                             /\ users'[g] = users[g]
  BY <1>1, Types DEF closed, ClosedSocket
<1>3. Queued' = Queued /\ Held' = Held
  BY DEF Queued, Held
<1>4. Only(f, "main") /\ owner[f] = "main" /\ sock[f].open
  <2>1. Only(f, "main")
    BY DEF PInv, Sole, Only
  <2> QED
    BY <2>1, OnlyOwner DEF PInv, Safe, Party
<1>5. Only(f, "nobody")'
  BY <1>2, <1>3, <1>4 DEF Only
<1>6. \A g \in Fd \ {f} : Same(g)
  BY <1>2, <1>3 DEF Same
<1>7. /\ Sole' /\ Conn!Move({f}, "main", "nobody")
      /\ \A g \in Fd : owner'[g] = IF g = f THEN "nobody" ELSE owner[g]
  <2> DEFINE F == {f}
  <2>1. /\ F \in SUBSET Fd /\ F # {} /\ {"nobody", "main"} \subseteq Party
        /\ \A g \in F : Only(g, "main") /\ Only(g, "nobody")'
        /\ \A g \in Fd \ F : Same(g)
    BY <1>4, <1>5, <1>6 DEF Party
  <2> HIDE DEF F
  <2>2. /\ Sole' /\ Conn!Move(F, "main", "nobody")
        /\ \A g \in Fd : owner'[g] = IF g \in F THEN "nobody" ELSE owner[g]
    BY <2>1, MoveStep DEF PInv
  <2> QED
    BY <2>2 DEF F
<1>8. Plain'
  BY DEF PInv, Plain
<1>9. Safe'
  <2> SUFFICES ASSUME NEW g \in Fd
               PROVE  /\ owner'[g] # "nobody" => sock'[g].open
                      /\ sock'[g].open => users'[g].m_sockfd = g
                      /\ owner'[g] \in {"queue", "worker"}
                           => left'[timer'[g]] > 0
    BY DEF Safe
  <2>1. CASE g = f
    BY <1>2, <1>7, <2>1
  <2>2. CASE g # f
    <3>1. owner'[g] = owner[g] /\ sock'[g] = sock[g] /\ users'[g] = users[g]
      BY <1>2, <1>7, <2>2
    <3>2. sock[g].open => timer[g] # timer[f]
      BY <1>4, <2>2, OwnTimer DEF PInv
    <3>3. sock[g].open => left'[timer'[g]] = left[timer[g]]
      BY <1>1, <3>2, Types
    <3> QED
      BY <3>1, <3>3 DEF PInv, Safe
  <2> QED
    BY <2>1, <2>2
<1>10. Once'
  BY DEF PInv, Once
<1>11. Unreplied'
  <2>1. \A w \in Worker : task[w] # NoFd => task[w] \in Held
    BY DEF Held
  <2>2. \A w \in Worker : wpc[w] # "idle" => task[w] \in Fd \ {f}
    BY <1>4, <2>1, Types, FdAssumption DEF Only
  <2>3. f \notin Queued
    BY <1>4 DEF Only
  <2> QED
    BY <1>2, <1>3, <2>2, <2>3 DEF PInv, Unreplied
<1>12. OneTimer'
  <2>1. ASSUME NEW g \in Fd, sock'[g].open PROVE user'[timer'[g]] = g
    BY <2>1 DEF IInv, TimerSafe, MayUseTimer
  <2>2. ASSUME NEW x \in Timer, NEW g \in Fd, user'[x] = g
        PROVE  sock'[g].open /\ x = timer'[g]
    <3>1. x # timer[f] /\ user[x] = g
      BY <1>1, <2>2, Types, FdAssumption
    <3>2. sock[g].open /\ x = timer[g]
      BY <3>1, OwnTimer DEF PInv
    <3> QED
      BY <1>1, <1>2, <3>1, <3>2
  <2> QED
    BY <2>1, <2>2, OneTimerNext DEF IInv, TypeOK
<1>13. Counted'
  <2>1. Open' = Open \ {f} /\ f \in Open
    BY <1>2, <1>4 DEF Open
  <2>2. Cardinality(Open') = Cardinality(Open) - 1
    BY <2>1, OpenFinite, FS_RemoveElement
  <2> QED
    BY <1>1, <2>2 DEF PInv, Counted
<1>14. [Conn!Next]_owner
  BY <1>7 DEF Conn!Next, Conn!Drop
<1>15. Unheld'
  BY <1>2, <1>7 DEF PInv, Unheld
<1> QED
  BY <1>7, <1>8, <1>9, <1>10, <1>11, <1>12, <1>13, <1>14,
     <1>15 DEF PInv

(* A successful read or write: the connection goes on to the queue, back   *)
(* to epoll, or, when the queue is full, to nobody.                        *)
LEMMA PassOn ==
  ASSUME IInv, PInv, NEW f \in Fd, event[f] # "none", AdjustTimer(f),
         NEW to \in {"epoll", "queue", "nobody"}, Only(f, to)', Once',
         \A g \in Fd \ {f} : Same(g) /\ users'[g] = users[g],
         \A g \in Fd : sock'[g].open = sock[g].open,
         users'[f].m_sockfd = users[f].m_sockfd,
         users'[f].refused <=> to = "nobody",
         (sock'[f].armed = "in" \/ f \in Queued') => users'[f].replies = 0,
         event'[f] = "none", mpc' = "batch",
         UNCHANGED <<m_user_count, task, wpc>>
  PROVE  PInv' /\ [Conn!Next]_owner
<1>1. /\ left' = [left EXCEPT ![timer[f]] = Lifetime]
      /\ timer' = timer /\ user' = user
  BY DEF AdjustTimer
<1>2. Only(f, "main") /\ owner[f] = "main" /\ sock[f].open
  <2>1. Only(f, "main")
    BY DEF PInv, Sole, Only
  <2> QED
    BY <2>1, OnlyOwner DEF PInv, Safe, Party
<1>3. /\ Sole' /\ Conn!Move({f}, "main", to)
      /\ \A g \in Fd : owner'[g] = IF g = f THEN to ELSE owner[g]
  <2> DEFINE F == {f}
  <2>1. /\ F \in SUBSET Fd /\ F # {} /\ "main" \in Party /\ to \in Party
        /\ \A g \in F : Only(g, "main") /\ Only(g, to)'
        /\ \A g \in Fd \ F : Same(g)
    BY <1>2 DEF Party
  <2>3. Sole
    BY DEF PInv
  <2> HIDE DEF F
  <2>2. /\ Sole' /\ Conn!Move(F, "main", to)
        /\ \A g \in Fd : owner'[g] = IF g \in F THEN to ELSE owner[g]
    BY <2>1, <2>3, MoveStep, ZenonT(60)
  <2> QED
    BY <2>2 DEF F
<1>4. Plain'
  BY DEF PInv, Plain
<1>5. Safe'
  <2> SUFFICES ASSUME NEW g \in Fd
               PROVE  /\ owner'[g] # "nobody" => sock'[g].open
                      /\ sock'[g].open => users'[g].m_sockfd = g
                      /\ owner'[g] \in {"queue", "worker"}
                           => left'[timer'[g]] > 0
    BY DEF Safe
  <2>1. timer[g] \in Timer /\ left'[timer[g]] \in {left[timer[g]], Lifetime}
    BY <1>1, Types
  <2>2. CASE g = f
    <3>1. left'[timer'[g]] = Lifetime
      BY <1>1, <2>1, <2>2, Types
    <3> QED
      BY <1>2, <2>2, <3>1, LimitAssumption DEF PInv, Safe
  <2>3. CASE g # f
    BY <1>1, <1>3, <2>1, <2>3, LimitAssumption DEF PInv, Safe
  <2> QED
    BY <2>2, <2>3
<1>6. Unreplied'
  <2>1. \A w \in Worker : task[w] # NoFd => task[w] \in Held
    BY DEF Held
  <2>2. \A w \in Worker : wpc[w] # "idle" => task[w] \in Fd \ {f}
    BY <1>2, <2>1, Types, FdAssumption DEF Only
  <2> QED
    BY <2>2 DEF PInv, Unreplied, Same
<1>7. OneTimer'
  BY <1>1 DEF PInv, OneTimer, Live
<1>8. Counted'
  BY DEF PInv, Counted, Open
<1>9. [Conn!Next]_owner
  <2>1. CASE to = "epoll"
    BY <1>3, <2>1 DEF Conn!Next, Conn!Answer
  <2>2. CASE to = "queue"
    BY <1>3, <2>2 DEF Conn!Next, Conn!Hand
  <2>3. CASE to = "nobody"
    BY <1>3, <2>3 DEF Conn!Next, Conn!Drop
  <2> QED
    BY <2>1, <2>2, <2>3
<1>10. Unheld'
  BY <1>3 DEF PInv, Unheld
<1> QED
  BY <1>3, <1>4, <1>5, <1>6, <1>7, <1>8, <1>9, <1>10 DEF PInv

LEMMA ReadOwners ==
  ASSUME IInv, IInv', PInv, NEW f \in Fd, HandleReadProactor(f)
  PROVE  PInv' /\ [Conn!Next]_owner
<1> USE DEF mainVars, clockVars, listenVars, timerVars, poolVars
<1>1. /\ mpc = "batch" /\ mpc' = mpc /\ event[f] = "in"
      /\ event' = [event EXCEPT ![f] = "none"] /\ UNCHANGED <<wpc, task>>
  BY DEF HandleReadProactor
<1>2. Held' = Held
  BY <1>1 DEF Held
<1>3. CASE /\ sock' = drained(f) /\ AdjustTimer(f)
           /\ users' = [users EXCEPT ![f].buffered = received(f),
                                     ![f].refused = QueueFull]
           /\ m_workqueue' = append_p(f) /\ m_user_count' = m_user_count
  <2>1. \A g \in Fd : /\ sock'[g].open = sock[g].open
                      /\ sock'[g].armed = sock[g].armed
    BY <1>3, Types DEF drained, Socket
  <2>2. /\ \A g \in Fd \ {f} : users'[g] = users[g] /\ event'[g] = event[g]
        /\ users'[f].m_sockfd = users[f].m_sockfd
        /\ users'[f].replies = 0 /\ event'[f] = "none"
        /\ users'[f].refused = QueueFull
    <3>1. users[f].replies = 0 /\ users[f] \in Slot
      BY <1>1, Types DEF PInv, Unreplied
    <3>2. /\ users'[f].m_sockfd = users[f].m_sockfd
          /\ users'[f].replies = users[f].replies
          /\ users'[f].refused = QueueFull
      <4> HIDE DEF QueueFull
      <4> QED
        BY <1>3, <3>1, Types DEF Slot
    <3> QED
      BY <1>1, <1>3, <3>1, <3>2, Types
  <2>3. Only(f, "main") /\ Distinct(m_workqueue) /\ m_workqueue \in Seq(Fd)
    BY <1>1, Types DEF PInv, Sole, Only, Once
  <2>4. Queued = Elements(m_workqueue) /\ Queued' = Elements(m_workqueue')
    BY DEF Queued, Elements
  <2>5. CASE QueueFull
    <3>1. m_workqueue' = m_workqueue
      BY <1>3, <2>5 DEF append_p
    <3>2. Queued' = Queued
      BY <2>4, <3>1
    <3>3. Only(f, "nobody")' /\ \A g \in Fd \ {f} : Same(g)
      BY <1>2, <2>1, <2>2, <2>3, <3>2 DEF Only, Same
    <3>4. Once'
      BY <1>1, <3>1 DEF PInv, Once
    <3>5. event[f] # "none" /\ event'[f] = "none"
      BY <1>1, <2>2
    <3> QED
      BY <1>1, <1>3, <2>1, <2>2, <2>5, <3>3, <3>4, <3>5, PassOn
  <2>6. CASE ~QueueFull
    <3>1. m_workqueue' = Append(m_workqueue, f)
      BY <1>3, <2>6 DEF append_p
    <3>2. Queued' = Queued \cup {f} /\ Distinct(m_workqueue')
      BY <2>3, <2>4, <3>1, AppendElements DEF Only
    <3>3. Only(f, "queue")' /\ \A g \in Fd \ {f} : Same(g)
      BY <1>2, <2>1, <2>2, <2>3, <3>2 DEF Only, Same
    <3>4. Once'
      BY <1>1, <3>2 DEF PInv, Once
    <3>5. event[f] # "none" /\ event'[f] = "none" /\ "queue" # "nobody"
      BY <1>1, <2>2
    <3> QED
      BY <1>1, <1>3, <2>1, <2>2, <2>6, <3>3, <3>4, <3>5, PassOn
  <2> QED
    BY <2>5, <2>6
<1>4. CASE DealTimer(f) /\ UNCHANGED <<users, m_workqueue>>
  <2>1. users' = [users EXCEPT ![f] = users'[f]]
    BY <1>4, Types
  <2> QED
    BY <1>1, <1>4, <2>1, DealTimerOwners
<1> QED
  BY <1>3, <1>4 DEF HandleReadProactor

LEMMA WriteOwners ==
  ASSUME IInv, IInv', PInv, NEW f \in Fd, HandleWriteProactor(f)
  PROVE  PInv' /\ [Conn!Next]_owner
<1> USE DEF mainVars, clockVars, listenVars, timerVars, poolVars
<1>1. /\ mpc' = "batch" /\ event[f] = "out"
      /\ event' = [event EXCEPT ![f] = "none"]
      /\ UNCHANGED <<m_workqueue, wpc, task>>
  BY DEF HandleWriteProactor
<1>2. PICK o \in WriteOutcomes(f) :
        /\ users' = [users EXCEPT ![f] = o.slot]
        /\ \/ /\ o.ret /\ sock' = o.sock /\ AdjustTimer(f)
              /\ m_user_count' = m_user_count
           \/ DealTimer(f)
  BY DEF HandleWriteProactor
<1>3. /\ Only(f, "main") /\ sock[f].open /\ users[f].m_sockfd = f
      /\ Attached(f) /\ ~users[f].refused
  <2>1. Only(f, "main")
    BY <1>1 DEF PInv, Sole, Only
  <2>2. sock[f].open /\ owner[f] = "main"
    BY <2>1, OnlyOwner DEF PInv, Safe, Party
  <2> QED
    BY <2>1, <2>2 DEF PInv, Safe, Unheld, Attached
<1>4. /\ users[f] \in Slot /\ FreshSlot(f).m_sockfd = f
      /\ FreshSlot(f).replies = 0 /\ ~FreshSlot(f).refused
  BY Types DEF FreshSlot
<1>5. \/ o = [slot |-> FreshSlot(f), sock |-> modfd(f, "in"), ret |-> TRUE]
      \/ \E v \in Iovs : o = [slot |-> [users[f] EXCEPT !.iov = v],
              sock |-> [modfd(f, "out") EXCEPT ![f].full = TRUE], ret |-> TRUE]
      \/ o = [slot |-> Sent(f), sock |-> modfd(f, "in"), ret |-> FALSE]
      \/ o = [slot |-> users[f], sock |-> sock, ret |-> FALSE]
  BY <1>3, OutcomesOfWrite, Zenon DEF Outcome
<1>6. o.slot.m_sockfd = f /\ ~o.slot.refused
  <2>1. users[f].m_sockfd = f
    BY <1>3 DEF Attached
  <2>2. CASE o.slot = FreshSlot(f)
    BY <1>4, <2>2
  <2>3. ASSUME NEW v \in Iovs, o.slot = [users[f] EXCEPT !.iov = v]
        PROVE  o.slot.m_sockfd = f /\ ~o.slot.refused
    BY <1>3, <1>4, <2>1, <2>3 DEF Slot
  <2>4. CASE o.slot = Sent(f) \/ o.slot = users[f]
    BY <1>3, <1>4, <2>1, <2>4 DEF Slot, Sent
  <2>5. \/ o.slot = FreshSlot(f) \/ o.slot = Sent(f) \/ o.slot = users[f]
        \/ \E v \in Iovs : o.slot = [users[f] EXCEPT !.iov = v]
    BY <1>5
  <2> QED
    BY <2>2, <2>3, <2>4, <2>5
<1>7. /\ users'[f] = o.slot /\ users' = [users EXCEPT ![f] = users'[f]]
      /\ \A g \in Fd \ {f} : users'[g] = users[g] /\ event'[g] = event[g]
      /\ event'[f] = "none"
  BY <1>1, <1>2, Types
<1>8. CASE /\ o.ret /\ sock' = o.sock /\ AdjustTimer(f)
           /\ m_user_count' = m_user_count
  <2>1. PICK ev \in {"in", "out"}, b \in BOOLEAN :
          /\ sock' = [sock EXCEPT ![f] = [sock[f] EXCEPT !.armed = ev,
                                                         !.full = b]]
          /\ ev = "in" => o.slot.replies = 0
    <3>1. CASE o = [slot |-> FreshSlot(f), sock |-> modfd(f, "in"), ret |-> TRUE]
      <4>1. sock' = [sock EXCEPT ![f] = [sock[f] EXCEPT !.armed = "in",
                                                   !.full = sock[f].full]]
        BY <1>3, <1>8, <3>1, Types DEF modfd, Socket
      <4>2. sock[f].full \in BOOLEAN /\ o.slot.replies = 0
        BY <1>4, <3>1, Types DEF Socket
      <4> QED
        BY <4>1, <4>2
    <3>2. CASE \E v \in Iovs :
                 o = [slot |-> [users[f] EXCEPT !.iov = v],
                      sock |-> [modfd(f, "out") EXCEPT ![f].full = TRUE],
                      ret |-> TRUE]
      <4>1. sock' = [sock EXCEPT ![f] = [sock[f] EXCEPT !.armed = "out",
                                                        !.full = TRUE]]
        <5>1. o.sock = [modfd(f, "out") EXCEPT ![f].full = TRUE]
          BY <3>2
        <5>2. sock' = [modfd(f, "out") EXCEPT ![f].full = TRUE]
          BY <1>8, <3>2, <5>1
        <5> QED
          BY <1>3, <5>2, Types DEF modfd, Socket
      <4>2. "out" \in {"in", "out"} /\ TRUE \in BOOLEAN /\ "out" # "in"
        OBVIOUS
      <4> QED
        BY <4>1, <4>2, Zenon
    <3>3. ASSUME NEW slot, NEW S, o = [slot |-> slot, sock |-> S, ret |-> FALSE]
          PROVE  FALSE
      BY <1>8, <3>3
    <3> QED
      BY <1>5, <3>1, <3>2, <3>3, Zenon
  <2>2. /\ sock'[f].armed = ev /\ sock'[f].open = sock[f].open
        /\ \A g \in Fd \ {f} : sock'[g] = sock[g]
    BY <2>1, Types DEF Socket
  <2>3. Queued' = Queued /\ Held' = Held
    BY <1>1 DEF Queued, Held
  <2>4. Only(f, "epoll")' /\ \A g \in Fd \ {f} : Same(g)
    BY <1>3, <1>7, <2>2, <2>3 DEF Only, Same
  <2>5. Once'
    BY <1>1 DEF PInv, Once
  <2>6. (sock'[f].armed = "in" \/ f \in Queued') => users'[f].replies = 0
    BY <1>3, <1>7, <2>1, <2>2, <2>3 DEF Only
  <2> QED
    BY <1>1, <1>3, <1>6, <1>7, <1>8, <2>2, <2>4, <2>5, <2>6, PassOn
<1>9. CASE DealTimer(f)
  BY <1>1, <1>3, <1>6, <1>7, <1>9, DealTimerOwners
<1> QED
  BY <1>2, <1>8, <1>9

(* tick() counts as many connections down as it closes.                    *)
LEMMA DueCount ==
  ASSUME NEW due \in SUBSET Timer,
         \A s, t \in due : user[s] = user[t] => s = t
  PROVE  /\ IsFiniteSet({user[t] : t \in due})
         /\ Cardinality({user[t] : t \in due}) = Cardinality(due)
<1> DEFINE C == {user[t] : t \in due}
           of == [t \in due |-> user[t]]
<1>1. IsFiniteSet(due)
  BY FiniteAssumption, FS_Subset
<1>2. of \in Injection(due, C) /\ of \in Surjection(due, C)
  BY DEF Injection, Surjection, IsInjective
<1>3. ExistsBijection(due, C)
  BY <1>2 DEF ExistsBijection, Bijection
<1> QED
  BY <1>1, <1>3, FS_Bijection

LEMMA TimerHandlerOwners ==
  ASSUME IInv, IInv', PInv, TimerHandler
  PROVE  PInv' /\ [Conn!Next]_owner
<1> USE DEF mainVars, clockVars, listenVars, timerVars, poolVars
<1> DEFINE due == {t \in Live : left[t] = 0}
           C == {user[t] : t \in due}
           F == {f \in C : sock[f].armed # "off"}
<1>1. /\ sock' = closed(C) /\ m_user_count' = m_user_count - Cardinality(due)
      /\ user' = [t \in Timer |-> IF t \in due THEN NoFd ELSE user[t]]
      /\ UNCHANGED <<mpc, event, users, timer, left, m_workqueue, wpc, task>>
      /\ \A f \in Fd : event[f] = "none"
  BY DEF TimerHandler, BatchDone
<1>2. \A t \in due : /\ t \in Timer /\ user[t] \in Fd /\ left[t] = 0
                     /\ sock[user[t]].open /\ t = timer[user[t]]
  BY Types, OwnTimer DEF Live, PInv
<1>3. \A f \in C : f \in Fd /\ sock[f].open /\ timer[f] \in due
  BY <1>2
<1>4. /\ \A f \in C : sock'[f].armed = "off" /\ ~sock'[f].open
      /\ \A f \in Fd \ C : sock'[f] = sock[f]
  BY <1>1, <1>3 DEF closed, ClosedSocket
<1>5. Queued' = Queued /\ Held' = Held
  BY <1>1 DEF Queued, Held
<1>6. \A f \in C : f \notin Queued \cup Held
  <2> SUFFICES ASSUME NEW f \in C PROVE f \notin Queued \cup Held
    OBVIOUS
  <2>1. f \in Fd /\ left[timer[f]] = 0
    BY <1>2, <1>3
  <2> QED
    BY <2>1, InHands DEF PInv, Safe
<1> HIDE DEF due, C
<1>7. F \in SUBSET Fd
  BY <1>3
<1>8. \A f \in F : Only(f, "epoll") /\ Only(f, "nobody")'
  BY <1>1, <1>3, <1>4, <1>5, <1>6 DEF Only
<1>9. \A g \in Fd \ F : Same(g)
  BY <1>1, <1>4, <1>5 DEF Same
<1>10. /\ Sole' /\ \A g \in Fd : owner'[g] = IF g \in F THEN "nobody" ELSE owner[g]
       /\ F # {} => Conn!Move(F, "epoll", "nobody")
       /\ F = {} => owner' = owner
  <2>1. "epoll" \in Party /\ "nobody" \in Party
    BY DEF Party
  <2> HIDE DEF F
  <2> QED
    BY <1>7, <1>8, <1>9, <2>1, MoveStep DEF PInv
<1>11. \A f \in C : owner'[f] = "nobody"
  <2> SUFFICES ASSUME NEW f \in C PROVE owner'[f] = "nobody"
    OBVIOUS
  <2>1. f \in Fd /\ (sock[f].armed = "off" => Only(f, "nobody"))
    BY <1>1, <1>3, <1>6 DEF Only
  <2>2. sock[f].armed = "off" => owner[f] = "nobody"
    BY <2>1, OnlyOwner DEF Party
  <2> QED
    BY <1>10, <2>1, <2>2
<1>12. Plain'
  BY <1>1 DEF PInv, Plain
<1>13. Safe'
  <2> SUFFICES ASSUME NEW g \in Fd
               PROVE  /\ owner'[g] # "nobody" => sock'[g].open
                      /\ sock'[g].open => users'[g].m_sockfd = g
                      /\ owner'[g] \in {"queue", "worker"}
                           => left'[timer'[g]] > 0
    BY DEF Safe
  <2>1. CASE g \in C
    BY <1>4, <1>11, <2>1
  <2>2. CASE g \notin C
    <3>1. owner'[g] = owner[g] /\ sock'[g] = sock[g]
      BY <1>4, <1>10, <2>2
    <3> QED
      BY <1>1, <3>1 DEF PInv, Safe
  <2> QED
    BY <2>1, <2>2
<1>14. Once'
  BY <1>1 DEF PInv, Once
<1>15. Unreplied'
  BY <1>1, <1>4, <1>5 DEF PInv, Unreplied
<1>16. OneTimer'
  <2>1. ASSUME NEW g \in Fd, sock'[g].open PROVE user'[timer'[g]] = g
    BY <2>1 DEF IInv, TimerSafe, MayUseTimer
  <2>2. ASSUME NEW x \in Timer, NEW g \in Fd, user'[x] = g
        PROVE  sock'[g].open /\ x = timer'[g]
    <3>1. x \notin due /\ user[x] = g
      BY <1>1, <2>2, FdAssumption
    <3>2. sock[g].open /\ x = timer[g]
      BY <3>1, OwnTimer DEF PInv
    <3>3. g \notin C
      BY <1>3, <3>1, <3>2
    <3> QED
      BY <1>1, <1>4, <3>2, <3>3
  <2> QED
    BY <2>1, <2>2, OneTimerNext DEF IInv, TypeOK
<1>17. Counted'
  <2>1. due \in SUBSET Timer /\ \A s, t \in due : user[s] = user[t] => s = t
    BY <1>2
  <2>2. Cardinality(C) = Cardinality(due) /\ IsFiniteSet(C)
    BY <2>1, DueCount DEF C
  <2>3. Open' = Open \ C /\ Open \cap C = C
    BY <1>3, <1>4 DEF Open
  <2>4. Cardinality(Open') = Cardinality(Open) - Cardinality(C)
    <3>1. Cardinality(Open \ C) = Cardinality(Open) - Cardinality(Open \cap C)
      BY OpenFinite, FS_Difference
    <3> QED
      BY <2>3, <3>1, Zenon
  <2> QED
    BY <1>1, <2>2, <2>4 DEF PInv, Counted
<1>18. [Conn!Next]_owner
  BY <1>7, <1>10 DEF Conn!Next, Conn!Expire
<1>19. Unheld'
  BY <1>1, <1>4, <1>10 DEF PInv, Unheld
<1> QED
  BY <1>10, <1>12, <1>13, <1>14, <1>15, <1>16, <1>17, <1>18,
     <1>19 DEF PInv

LEMMA ProactorMain ==
  ASSUME ~Reactor, IInv, IInv', PInv, Main
  PROVE  PInv' /\ [Conn!Next]_owner
<1> USE DEF mainVars, clockVars, listenVars, timerVars, poolVars
<1>1. CASE DealClientLT \/ AcceptLoop
  <2>1. /\ mpc' \in {"batch", "accept"}
        /\ UNCHANGED <<event, m_workqueue, task, wpc>>
    BY <1>1 DEF DealClientLT, AcceptLoop
  <2>2. AcceptAdmits \/ ((AcceptBusy \/ AcceptFails) /\ mpc' = "batch")
    BY <1>1 DEF DealClientLT, AcceptLoop
  <2> QED
    BY <1>1, <2>1, <2>2, AdmitOwners, QuietMain
<1>2. CASE \/ DealClientET \/ HandleSignal \/ NextRound
           \/ \E f \in Fd : EndlessWrite(f)
  BY <1>2, QuietMain
<1>3. ASSUME NEW f \in Fd, HandleHup(f)
      PROVE  PInv' /\ [Conn!Next]_owner
  <2>1. users' = [users EXCEPT ![f] = users'[f]] /\ users' = users
    BY <1>3, Types DEF HandleHup
  <2> QED
    BY <1>3, <2>1, DealTimerOwners DEF HandleHup
<1>4. ~SpinEnds /\ ~ReadTimerFlag /\ \A f \in Fd : ~Delegate(f)
  BY DEF PInv, Plain, SpinEnds, ReadTimerFlag, Delegate
<1> QED
  BY <1>1, <1>2, <1>3, <1>4, EpollWaitOwners, ReadOwners, WriteOwners,
     TimerHandlerOwners DEF Main

-----------------------------------------------------------------------------
(* The workers *)

(* What a worker holds is in its hands only.                               *)
LEMMA TaskHeld ==
  ASSUME IInv, PInv, NEW w \in Worker, wpc[w] # "idle"
  PROVE  /\ task[w] \in Fd /\ task[w] \in Held
         /\ Only(task[w], "worker") /\ owner[task[w]] = "worker"
         /\ \A v \in Worker \ {w} : task[v] # task[w]
<1>1. task[w] \in Fd /\ task[w] # NoFd
  BY Types, FdAssumption
<1>2. task[w] \in Held
  BY <1>1 DEF Held
<1>3. Only(task[w], "worker")
  BY <1>1, <1>2 DEF PInv, Sole, Only
<1>4. owner[task[w]] = "worker"
  BY <1>1, <1>3, OnlyOwner DEF Party
<1>5. \A v \in Worker \ {w} : task[v] # task[w]
  BY <1>1 DEF PInv, Once
<1> QED
  BY <1>1, <1>2, <1>3, <1>4, <1>5

LEMMA TaskUnreplied ==
  ASSUME PInv, NEW w \in Worker, wpc[w] = "process" \/ wpc[w] = "rearm in"
  PROVE  users[task[w]].replies = 0
  BY Zenon DEF PInv, Unreplied

(* Unreplied after the step, worker by worker.                             *)
LEMMA UnrepliedNext ==
  ASSUME \A g \in Fd : (\/ sock'[g].armed = "in" \/ event'[g] = "in"
                        \/ g \in Queued') => users'[g].replies = 0,
         \A v \in Worker : wpc'[v] = "process" \/ wpc'[v] = "rearm in"
                              => users'[task'[v]].replies = 0
  PROVE  Unreplied'
  BY Zenon DEF Unreplied

LEMMA TakeOwners ==
  ASSUME ~Reactor, IInv, PInv, NEW w \in Worker, Take(w)
  PROVE  PInv' /\ [Conn!Next]_owner
<1> USE DEF mainVars, clockVars, listenVars, timerVars, poolVars
<1>0. wpc[w] = "idle" /\ m_workqueue # <<>>
  BY DEF Take
<1> PICK f \in Fd : f = Head(m_workqueue)
  BY <1>0, Types, TailElements
<1>1. /\ task' = [task EXCEPT ![w] = f] /\ wpc' = [wpc EXCEPT ![w] = "process"]
      /\ m_workqueue' = Tail(m_workqueue)
      /\ UNCHANGED <<mpc, event, sock, users, m_user_count, timer, user, left>>
  BY DEF Take
<1>2. /\ Queued = Queued' \cup {f} /\ f \notin Queued'
      /\ Distinct(m_workqueue')
  <2>1. Queued = Elements(m_workqueue) /\ Queued' = Elements(m_workqueue')
    BY DEF Queued, Elements
  <2> QED
    BY <1>0, <1>1, <2>1, Types, TailElements DEF PInv, Once
<1>3. wpc \in [Worker -> {"idle", "process", "rearm in", "rearm out"}]
  BY DEF IInv, TypeOK, PoolOK, PInv, Plain
<1>4. task[w] = NoFd /\ Held' = Held \cup {f}
  <2>1. task[w] = NoFd
    BY <1>0, Types
  <2>2. \A v \in Worker : task'[v] = IF v = w THEN f ELSE task[v]
    BY <1>1, Types
  <2> QED
    BY <1>2, <2>1, <2>2, FdAssumption DEF Held
<1>5. Only(f, "queue") /\ f \notin Held
  BY <1>2 DEF PInv, Sole, Only
<1>6. Only(f, "worker")' /\ \A g \in Fd \ {f} : Same(g)
  BY <1>1, <1>2, <1>4, <1>5 DEF Only, Same
<1>7. /\ Sole' /\ Conn!Move({f}, "queue", "worker") /\ owner[f] = "queue"
      /\ \A g \in Fd : owner'[g] = IF g = f THEN "worker" ELSE owner[g]
  <2> DEFINE F == {f}
  <2>1. /\ F \in SUBSET Fd /\ F # {} /\ {"queue", "worker"} \subseteq Party
        /\ \A g \in F : Only(g, "queue") /\ Only(g, "worker")'
        /\ \A g \in Fd \ F : Same(g)
    BY <1>2, <1>5, <1>6 DEF Party
  <2> HIDE DEF F
  <2>2. /\ Sole' /\ Conn!Move(F, "queue", "worker")
        /\ \A g \in Fd : owner'[g] = IF g \in F THEN "worker" ELSE owner[g]
    BY <2>1, MoveStep DEF PInv
  <2> QED
    BY <1>2, <1>5, <2>1, <2>2, OnlyOwner DEF F
<1>8. Plain'
  BY <1>1, <1>3 DEF PInv, Plain
<1>9. Safe'
  BY <1>1, <1>7 DEF PInv, Safe
<1>10. Once'
  <2>1. \A v \in Worker : task[v] # f
    BY <1>2, <1>5, FdAssumption DEF Held
  <2>2. \A v \in Worker : task'[v] = IF v = w THEN f ELSE task[v]
    BY <1>1, Types
  <2> QED
    BY <1>2, <2>1, <2>2 DEF PInv, Once
<1>11. Unreplied'
  <2>1. users[f].replies = 0
    BY <1>2 DEF PInv, Unreplied
  <2>2. \A v \in Worker : /\ task'[v] = IF v = w THEN f ELSE task[v]
                          /\ v # w => wpc'[v] = wpc[v]
    BY <1>1, <1>3, Types
  <2>3. ASSUME NEW v \in Worker, wpc'[v] = "process" \/ wpc'[v] = "rearm in"
        PROVE  users'[task'[v]].replies = 0
    <3>1. CASE v = w
      BY <1>1, <2>1, <2>2, <3>1
    <3>2. CASE v # w
      <4>1. users[task[v]].replies = 0
        BY <2>2, <2>3, <3>2, TaskUnreplied
      <4> QED
        BY <1>1, <2>2, <3>2, <4>1
    <3> QED
      BY <3>1, <3>2
  <2>4. \A g \in Fd : (\/ sock'[g].armed = "in" \/ event'[g] = "in"
                       \/ g \in Queued') => users'[g].replies = 0
    BY <1>1, <1>2 DEF PInv, Unreplied
  <2> QED
    BY <2>3, <2>4, UnrepliedNext
<1>12. OneTimer' /\ Counted'
  BY <1>1 DEF PInv, OneTimer, Live, Counted, Open
<1>13. [Conn!Next]_owner
  BY <1>2, <1>7 DEF Conn!Next, Conn!Pick
<1>14. Unheld'
  BY <1>1, <1>7 DEF PInv, Unheld
<1> QED
  BY <1>7, <1>8, <1>9, <1>10, <1>11, <1>12, <1>13,
     <1>14 DEF PInv

LEMMA NoRequestOwners ==
  ASSUME IInv, PInv, NEW w \in Worker, NoRequest(w)
  PROVE  PInv' /\ owner' = owner
<1> USE DEF mainVars, clockVars, listenVars, timerVars, poolVars
<1>1. /\ wpc[w] = "process" /\ wpc' = [wpc EXCEPT ![w] = "rearm in"]
      /\ UNCHANGED <<mpc, event, sock, users, m_user_count, timer, user, left,
                     m_workqueue, task>>
  BY DEF NoRequest
<1>2. wpc \in [Worker -> {"idle", "process", "rearm in", "rearm out"}]
  BY DEF IInv, TypeOK, PoolOK, PInv, Plain
<1>3. Plain'
  BY <1>1, <1>2 DEF PInv, Plain
<1>4. \A v \in Worker : wpc'[v] \in {"process", "rearm in"}
                          => wpc[v] \in {"process", "rearm in"}
  BY <1>1, <1>2
<1>5. \A g \in Fd : g \in Queued \cup Held => left'[timer[g]] > 0
  BY <1>1, InHands DEF PInv, Safe
<1> QED
  BY <1>1, <1>3, <1>4, <1>5, Types, QuietStep

LEMMA ReplyOwners ==
  ASSUME IInv, PInv, NEW w \in Worker, Reply(w)
  PROVE  PInv' /\ owner' = owner
<1> USE DEF mainVars, clockVars, listenVars, timerVars, poolVars
<1> DEFINE f == task[w]
           slot == [users[f] EXCEPT !.unsent = TRUE, !.iov = "whole",
                      !.replies = IF @ = 2 THEN 2 ELSE @ + 1]
<1>1. /\ wpc[w] = "process" /\ wpc' = [wpc EXCEPT ![w] = "rearm out"]
      /\ users' = [users EXCEPT ![f] = slot]
      /\ UNCHANGED <<mpc, event, sock, m_user_count, timer, user, left,
                     m_workqueue, task>>
  BY DEF Reply
<1>2. /\ wpc \in [Worker -> {"idle", "process", "rearm in", "rearm out"}]
      /\ users \in [Fd -> Slot]
  BY Types DEF IInv, TypeOK, PoolOK, PInv, Plain
<1>3. f \in Fd /\ Only(f, "worker") /\ \A v \in Worker \ {w} : task[v] # f
  BY <1>1, TaskHeld
<1>4. /\ users[f] \in Slot /\ slot.m_sockfd = users[f].m_sockfd
      /\ slot.refused = users[f].refused
  <2>1. users[f] \in Slot
    BY <1>2, <1>3
  <2> HIDE DEF f
  <2> QED
    BY <2>1, Zenon DEF Slot
<1> HIDE DEF f, slot
<1>5. /\ \A g \in Fd \ {f} : users'[g] = users[g]
      /\ users'[f].m_sockfd = users[f].m_sockfd
      /\ users'[f].refused = users[f].refused
  BY <1>1, <1>2, <1>3, <1>4
<1>6. Sole' /\ owner' = owner
  <2>1. \A g \in Fd : Same(g)
    BY <1>1 DEF Same, Queued, Held
  <2> QED
    BY <2>1, StayStep DEF PInv
<1>7. Plain'
  BY <1>1, <1>2 DEF PInv, Plain
<1>8. Safe'
  BY <1>1, <1>5, <1>6 DEF PInv, Safe
<1>9. Once'
  BY <1>1 DEF PInv, Once
<1>10. Unreplied'
  <2>1. Queued' = Queued
    BY <1>1 DEF Queued
  <2>2. \A v \in Worker : wpc'[v] \in {"process", "rearm in"}
                            => /\ wpc[v] \in {"process", "rearm in"}
                               /\ task[v] \in Fd \ {f}
    BY <1>1, <1>2, <1>3, Types
  <2>3. sock[f].armed = "off" /\ event[f] = "none" /\ f \notin Queued
    BY <1>3 DEF Only
  <2> QED
    BY <1>1, <1>5, <2>1, <2>2, <2>3 DEF PInv, Unreplied
<1>11. OneTimer' /\ Counted'
  BY <1>1 DEF PInv, OneTimer, Live, Counted, Open
<1>12. Unheld'
  BY <1>1, <1>5, <1>6 DEF PInv, Unheld
<1> QED
  BY <1>6, <1>7, <1>8, <1>9, <1>10, <1>11, <1>12 DEF PInv

LEMMA RearmOwners ==
  ASSUME IInv, PInv, NEW w \in Worker, Rearm(w)
  PROVE  PInv' /\ [Conn!Next]_owner
<1> USE DEF mainVars, clockVars, listenVars, timerVars, poolVars
<1> PICK f \in Fd : f = task[w]
  BY TaskHeld DEF Rearm
<1> DEFINE ev == IF wpc[w] = "rearm in" THEN "in" ELSE "out"
<1>1. /\ wpc[w] \in {"rearm in", "rearm out"} /\ sock' = modfd(f, ev)
      /\ wpc' = [wpc EXCEPT ![w] = "idle"] /\ task' = [task EXCEPT ![w] = NoFd]
      /\ UNCHANGED <<mpc, event, users, m_user_count, timer, user, left,
                     m_workqueue>>
  BY DEF Rearm, Finish
<1>2. /\ wpc \in [Worker -> {"idle", "process", "rearm in", "rearm out"}]
      /\ sock \in [Fd -> Socket] /\ task \in [Worker -> Fd \cup {NoFd}]
  BY Types DEF IInv, TypeOK, PoolOK, PInv, Plain
<1>3. /\ f \in Held /\ Only(f, "worker") /\ owner[f] = "worker"
      /\ \A v \in Worker \ {w} : task[v] # f
  BY <1>1, TaskHeld
<1>4. Attached(f)
  BY <1>3 DEF PInv, Safe, Attached
<1>5. /\ sock'[f].armed = ev /\ sock'[f].open = sock[f].open
      /\ \A g \in Fd \ {f} : sock'[g] = sock[g]
  BY <1>1, <1>2, <1>3, <1>4 DEF modfd, Socket
<1>6. /\ ev \in {"in", "out"}
      /\ ev = "in" => users[f].replies = 0
  BY <1>1 DEF PInv, Unreplied
<1>7. \A v \in Worker : /\ task'[v] = IF v = w THEN NoFd ELSE task[v]
                        /\ wpc'[v] = IF v = w THEN "idle" ELSE wpc[v]
  BY <1>1, <1>2
<1> HIDE DEF ev
<1>8. Held' = Held \ {f} /\ Queued' = Queued
  <2>1. \A v \in Worker : task[v] = f <=> v = w
    BY <1>3
  <2>2. ASSUME NEW x
        PROVE  (\E v \in Worker : x = task'[v] /\ x # NoFd)
               <=> (\E v \in Worker : x = task[v] /\ x # NoFd) /\ x # f
    BY <1>7, <2>1
  <2>3. Held' = Held \ {f}
    BY <2>2 DEF Held
  <2> QED
    BY <1>1, <2>3 DEF Queued
<1>9. Only(f, "epoll")' /\ \A g \in Fd \ {f} : Same(g)
  BY <1>1, <1>3, <1>5, <1>6, <1>8 DEF Only, Same
<1>10. /\ Sole' /\ Conn!Move({f}, "worker", "epoll")
       /\ \A g \in Fd : owner'[g] = IF g = f THEN "epoll" ELSE owner[g]
  <2> DEFINE F == {f}
  <2>1. /\ F \in SUBSET Fd /\ F # {} /\ {"epoll", "worker"} \subseteq Party
        /\ \A g \in F : Only(g, "worker") /\ Only(g, "epoll")'
        /\ \A g \in Fd \ F : Same(g)
    BY <1>3, <1>9 DEF Party
  <2> HIDE DEF F
  <2>2. /\ Sole' /\ Conn!Move(F, "worker", "epoll")
        /\ \A g \in Fd : owner'[g] = IF g \in F THEN "epoll" ELSE owner[g]
    BY <2>1, MoveStep DEF PInv
  <2> QED
    BY <2>2 DEF F
<1>11. Plain'
  BY <1>1, <1>7 DEF PInv, Plain
<1>12. Safe'
  <2> SUFFICES ASSUME NEW g \in Fd
               PROVE  /\ owner'[g] # "nobody" => sock'[g].open
                      /\ sock'[g].open => users'[g].m_sockfd = g
                      /\ owner'[g] \in {"queue", "worker"}
                           => left'[timer'[g]] > 0
    BY DEF Safe
  <2>1. CASE g = f
    BY <1>1, <1>3, <1>5, <1>10, <2>1 DEF PInv, Safe
  <2>2. CASE g # f
    BY <1>1, <1>5, <1>10, <2>2 DEF PInv, Safe
  <2> QED
    BY <2>1, <2>2
<1>13. Once'
  <2>1. Distinct(m_workqueue)'
    BY <1>1 DEF PInv, Once
  <2>2. \A u, v \in Worker : (task'[u] # NoFd /\ task'[u] = task'[v]) => u = v
    BY <1>7 DEF PInv, Once
  <2> QED
    BY <2>1, <2>2 DEF Once
<1>14. Unreplied'
  <2>1. \A g \in Fd : (\/ sock'[g].armed = "in" \/ event'[g] = "in"
                       \/ g \in Queued') => users'[g].replies = 0
    <3> TAKE g \in Fd
    <3>1. CASE g = f
      BY <1>1, <1>3, <1>5, <1>6, <1>8, <3>1 DEF Only
    <3>2. CASE g # f
      BY <1>1, <1>5, <1>8, <3>2 DEF PInv, Unreplied
    <3> QED
      BY <3>1, <3>2
  <2>2. ASSUME NEW v \in Worker, wpc'[v] = "process" \/ wpc'[v] = "rearm in"
        PROVE  users'[task'[v]].replies = 0
    <3>1. v # w /\ wpc'[v] = wpc[v] /\ task'[v] = task[v]
      BY <1>7, <2>2
    <3>2. users[task[v]].replies = 0
      BY <2>2, <3>1, TaskUnreplied
    <3> QED
      BY <1>1, <3>1, <3>2
  <2> QED
    BY <2>1, <2>2, UnrepliedNext
<1>15. OneTimer'
  <2>1. \A g \in Fd : sock'[g].open = sock[g].open
    BY <1>5
  <2> QED
    BY <1>1, <2>1 DEF PInv, OneTimer, Live
<1>16. Counted'
  <2>1. Open' = Open
    BY <1>5 DEF Open
  <2> QED
    BY <1>1, <2>1 DEF PInv, Counted
<1>17. [Conn!Next]_owner
  BY <1>3, <1>10 DEF Conn!Next, Conn!Rearm
<1>18. Unheld'
  BY <1>1, <1>3, <1>5, <1>10 DEF PInv, Unheld
<1> QED
  BY <1>10, <1>11, <1>12, <1>13, <1>14, <1>15, <1>16, <1>17,
     <1>18 DEF PInv

LEMMA ProactorWork ==
  ASSUME ~Reactor, IInv, PInv, NEW w \in Worker, Work(w)
  PROVE  PInv' /\ [Conn!Next]_owner
<1>1. ~WorkerRead(w) /\ ~WorkerWrite(w) /\ ~WorkerFlag(w) /\ ~CloseConn(w)
  BY DEF PInv, Plain, WorkerRead, WorkerWrite, WorkerFlag, CloseConn
<1>2. ~ReplyFails(w)
  <2> SUFFICES ASSUME ReplyFails(w) PROVE FALSE
    OBVIOUS
  <2>1. wpc[w] = "process" /\ users[task[w]].replies = 2
    BY DEF ReplyFails, CannotReply
  <2>2. users[task[w]].replies = 0
    BY <2>1, TaskUnreplied
  <2> QED
    BY <2>1, <2>2
<1> QED
  BY <1>1, <1>2, TakeOwners, NoRequestOwners, ReplyOwners, RearmOwners DEF Work

-----------------------------------------------------------------------------
(* The theorems *)

LEMMA InitPInv == Init => PInv /\ Conn!Init
<1> SUFFICES ASSUME Init PROVE PInv /\ Conn!Init
  OBVIOUS
<1>1. /\ Queued = {} /\ Held = {} /\ Distinct(m_workqueue)
      /\ \A f \in Fd : ~sock[f].open /\ sock[f].armed = "off"
  BY EmptyElements DEF Init, Queued, Held, Elements, ClosedSocket
<1>2. \A f \in Fd : Only(f, "nobody")
  BY <1>1 DEF Init, Only
<1>3. \A f \in Fd : owner[f] = "nobody"
  BY <1>2, OnlyOwner DEF Party
<1>4. Sole /\ Safe
  BY <1>1, <1>2, <1>3 DEF Sole, Safe
<1>5. Plain /\ Once /\ Unreplied
  BY <1>1 DEF Init, Plain, Once, Unreplied
<1>6. OneTimer
  BY <1>1 DEF Init, OneTimer, Live
<1>7. Counted /\ Unheld
  <2>1. Open = {}
    BY <1>1 DEF Open
  <2> QED
    BY <1>1, <2>1, FS_EmptySet DEF Init, Counted, Unheld
<1>8. Conn!Init
  BY <1>3, Zenon DEF Conn!Init, owner
<1> QED
  BY <1>4, <1>5, <1>6, <1>7, <1>8 DEF PInv

THEOREM ProactorInductive ==
  ASSUME ~Reactor, ~Stalls PROVE Spec => [](IInv /\ PInv)
<1>1. PInv /\ IInv /\ IInv' /\ [Next]_vars => PInv'
  BY ProactorMain, ProactorWork, ProactorEnvironment DEF Next
<1> QED
  BY <1>1, InitPInv, Inductive, PTL DEF Spec

(* In the proactor a connection is in one hand at a time, and whoever has  *)
(* it has an open connection: for any number of descriptors, workers and   *)
(* timers and any size of the queue.                                       *)
THEOREM OneOwnerHolds ==
  ASSUME ~Reactor, ~Stalls PROVE Spec => []OneOwner
<1>1. ASSUME PInv, NEW f \in Fd
      PROVE  /\ \A a, b \in Owners(f) : a = b
             /\ Owners(f) # {} => sock[f].open
  <2>1. Only(f, owner[f]) /\ (owner[f] # "nobody" => sock[f].open)
    BY <1>1 DEF PInv, Sole, Safe
  <2>2. \A i, j \in 1 .. Len(m_workqueue) :
           (m_workqueue[i] = f /\ m_workqueue[j] = f) => i = j
    BY <1>1 DEF PInv, Once, Distinct
  <2>3. \A v, w \in Worker : (task[v] = f /\ task[w] = f) => v = w
    BY <1>1, FdAssumption DEF PInv, Once
  <2>4. ASSUME NEW a \in Owners(f)
        PROVE  \/ owner[f] = "epoll" /\ a = <<"epoll", sock[f].armed>>
               \/ owner[f] = "main" /\ a = <<"main", event[f]>>
               \/ /\ owner[f] = "queue"
                  /\ \E i \in 1 .. Len(m_workqueue) :
                        m_workqueue[i] = f /\ a = <<"queue", i>>
               \/ /\ owner[f] = "worker"
                  /\ \E w \in Worker : task[w] = f /\ a = <<"worker", w>>
    BY <2>1, FdAssumption DEF Owners, Only, Queued, Held
  <2>5. \A a, b \in Owners(f) : a = b
    BY <2>2, <2>3, <2>4
  <2>6. Owners(f) # {} => sock[f].open
    BY <2>1, <2>4
  <2> QED
    BY <2>5, <2>6
<1>2. PInv => OneOwner
  BY <1>1 DEF OneOwner
<1> QED
  BY ProactorInductive, <1>2, PTL

(* The open connections that nobody holds are those append_p() refused,    *)
(* whatever the size of the queue: no other is ever lost.                  *)
THEOREM NoneStrandedHolds ==
  ASSUME ~Reactor, ~Stalls PROVE Spec => []NoneStranded
<1>1. ASSUME PInv, NEW f \in Fd
      PROVE  Owners(f) = {} <=> owner[f] = "nobody"
  <2>1. Only(f, owner[f]) /\ owner[f] \in Party
    BY <1>1, OwnerType DEF PInv, Sole
  <2>2. CASE sock[f].armed # "off"
    <3>1. <<"epoll", sock[f].armed>> \in Owners(f)
      BY <2>2 DEF Owners
    <3> QED
      BY <2>1, <2>2, <3>1 DEF Only
  <2>3. CASE event[f] # "none"
    <3>1. <<"main", event[f]>> \in Owners(f)
      BY <2>3 DEF Owners
    <3> QED
      BY <2>1, <2>3, <3>1 DEF Only
  <2>4. CASE f \in Queued
    <3>1. PICK i \in 1 .. Len(m_workqueue) : m_workqueue[i] = f
      BY <2>4 DEF Queued
    <3>2. <<"queue", i>> \in Owners(f)
      BY <3>1 DEF Owners
    <3> QED
      BY <2>1, <2>4, <3>2 DEF Only
  <2>5. CASE f \in Held
    <3>1. PICK w \in Worker : task[w] = f
      BY <2>5 DEF Held
    <3>2. <<"worker", w>> \in Owners(f)
      BY <3>1 DEF Owners
    <3> QED
      BY <2>1, <2>5, <3>2 DEF Only
  <2>6. CASE /\ sock[f].armed = "off" /\ event[f] = "none"
             /\ f \notin Queued /\ f \notin Held
    <3>1. Owners(f) = {}
      BY <2>6, FdAssumption DEF Owners, Queued, Held
    <3> QED
      BY <2>1, <2>6, <3>1 DEF Only, Party
  <2> QED
    BY <2>2, <2>3, <2>4, <2>5, <2>6
<1>2. PInv => NoneStranded
  BY <1>1 DEF PInv, Unheld, NoneStranded
<1> QED
  BY ProactorInductive, <1>2, PTL

(* Timers and open connections correspond one to one.                      *)
THEOREM OneTimerHolds ==
  ASSUME ~Reactor, ~Stalls PROVE Spec => []OneTimer
<1>1. PInv => OneTimer
  BY DEF PInv
<1> QED
  BY ProactorInductive, <1>1, PTL

(* A short connection does not go back to waiting for requests.            *)
THEOREM ShortClosedHolds ==
  ASSUME ~Reactor, ~Stalls PROVE Spec => []ShortClosed
<1>1. ASSUME PInv PROVE ShortClosed
  <2>1. \A f \in Fd : event[f] = "in" => users[f].replies = 0
    BY <1>1, Zenon DEF PInv, Unreplied
  <2> QED
    BY <2>1 DEF ShortClosed
<1> QED
  BY ProactorInductive, <1>1, PTL

(* The server implements the ownership protocol: every step hands one      *)
(* connection on as Connection allows, or changes no owner.                *)
THEOREM ServerIsConnection ==
  ASSUME ~Reactor, ~Stalls PROVE Spec => ConnSpec
<1>1. IInv /\ IInv' /\ PInv /\ [Next]_vars => [Conn!Next]_owner
  BY ProactorMain, ProactorWork, ProactorEnvironment DEF Next
<1> QED
  BY <1>1, InitPInv, ProactorInductive, PTL DEF Spec, ConnSpec, Conn!Spec

-----------------------------------------------------------------------------
(* BacklogNoticed *)

(* No more clients come than there may be users, and descriptors for them. *)
Welcome == MaxClients <= MaxUsers /\ MaxClients <= Cardinality(Fd)

(* What epoll_wait() told of the listening socket is used before the next. *)
Announced == BacklogNoticed /\ (mpc = "wait" => special = {})

NInv == backlog + m_user_count <= MaxClients /\ Announced

(* Only Connect adds to the clients that wait or are counted.              *)
LEMMA ClientsBounded ==
  ASSUME IInv, Counted, NInv, [Next]_vars
  PROVE  backlog' + m_user_count' <= MaxClients
<1> USE LimitAssumption DEF mainVars, clockVars, listenVars, timerVars, poolVars
<1>1. /\ m_user_count \in Int /\ backlog \in Nat
      /\ backlog + m_user_count <= MaxClients
  BY Types DEF NInv, IInv, TypeOK, KernelOK
<1>2. ASSUME NEW f \in Fd, DealTimer(f), backlog' = backlog
      PROVE  backlog' + m_user_count' <= MaxClients
  BY <1>1, <1>2 DEF DealTimer
<1>3. CASE Main
  <2>1. CASE DealClientLT \/ AcceptLoop
    <3>1. CASE AcceptAdmits
      BY <1>1, <3>1 DEF AcceptAdmits, Admit
    <3>2. CASE AcceptBusy \/ AcceptFails
      BY <1>1, <3>2 DEF AcceptBusy, AcceptFails
    <3> QED
      BY <2>1, <3>1, <3>2 DEF DealClientLT, AcceptLoop
  <2>2. CASE TimerHandler
    <3> DEFINE due == {t \in Live : left[t] = 0}
    <3>1. due \in SUBSET Timer
      BY DEF Live
    <3>2. Cardinality(due) \in Nat
      BY <3>1, FiniteAssumption, FS_Subset, FS_CardinalityType
    <3>3. m_user_count' = m_user_count - Cardinality(due) /\ backlog' = backlog
      BY <2>2 DEF TimerHandler
    <3> QED
      BY <1>1, <3>2, <3>3
  <2>3. CASE EpollWait \/ DealClientET \/ HandleSignal \/ SpinEnds \/ NextRound
    BY <1>1, <2>3 DEF EpollWait, DealClientET, HandleSignal, SpinEnds, NextRound
  <2>4. CASE ReadTimerFlag
    BY <1>1, <2>4 DEF ReadTimerFlag, DealTimer
  <2>5. ASSUME NEW f \in Fd,
               HandleHup(f) \/ HandleReadProactor(f) \/ EndlessWrite(f)
               \/ HandleWriteProactor(f) \/ Delegate(f)
        PROVE  backlog' + m_user_count' <= MaxClients
    BY <1>1, <1>2, <2>5 DEF HandleHup, HandleReadProactor, EndlessWrite,
                            HandleWriteProactor, Delegate
  <2> QED
    BY <1>3, <2>1, <2>2, <2>3, <2>4, <2>5 DEF Main
<1>4. ASSUME NEW w \in Worker, Work(w)
      PROVE  backlog' + m_user_count' <= MaxClients
  <2>1. CASE CloseConn(w)
    <3>1. m_user_count' = m_user_count - 1 /\ backlog' = backlog
      BY <2>1 DEF CloseConn
    <3> QED
      BY <1>1, <3>1
  <2>2. CASE ~CloseConn(w)
    <3>1. UNCHANGED <<m_user_count, backlog>>
      BY <1>4, <2>2 DEF Work, Take, WorkerRead, WorkerWrite, WorkerFlag,
                        NoRequest, Reply, ReplyFails, Rearm
    <3> QED
      BY <1>1, <3>1
  <2> QED
    BY <2>1, <2>2
<1>5. CASE Connect
  BY <1>1, <1>5 DEF Connect, Counted, Open
<1>6. CASE (Environment /\ ~Connect) \/ UNCHANGED vars
  BY <1>1, <1>6 DEF Environment, Elapse, Terminate, Send, Drain, HangUp, Peer, vars
<1> QED
  BY <1>3, <1>4, <1>5, <1>6 DEF Next

(* The accept loop is left only when nobody waits any more.                *)
LEMMA NoticedStep ==
  ASSUME Welcome, IInv, Counted, NInv, [Next]_vars PROVE Announced'
<1> USE DEF mainVars, clockVars, listenVars, timerVars, poolVars
<1> DEFINE Told == /\ ListenET =>
                        (backlog > 0 => edge \/ "listen" \in special \/ mpc = "accept")
                   /\ mpc = "wait" => special = {}
<1> SUFFICES Told'
  BY DEF Announced, BacklogNoticed
<1>1. Told
  BY DEF NInv, Announced, BacklogNoticed
<1>2. CASE Main
  <2>1. CASE AcceptLoop
    <3>1. CASE mpc' = "accept"
      BY <3>1
    <3>2. CASE (AcceptBusy \/ AcceptFails) /\ mpc' = "batch"
      <4>1. backlog' = 0
        <5>1. /\ backlog \in Nat /\ m_user_count = Cardinality(Open)
              /\ IsFiniteSet(Open) /\ Cardinality(Open) \in Nat
              /\ Open = Fd => Cardinality(Open) = Cardinality(Fd)
          BY FiniteAssumption, FS_Subset, FS_CardinalityType
             DEF Open, Counted, IInv, TypeOK, KernelOK
        <5>2. backlog > 0 => m_user_count < MaxUsers /\ Open # Fd
          BY <5>1, LimitAssumption, FiniteAssumption, FS_CardinalityType
             DEF Welcome, NInv
        <5>3. CASE AcceptBusy
          BY <5>2, <5>3, LimitAssumption, <5>1 DEF AcceptBusy
        <5>4. CASE AcceptFails
          <6>1. backlog = 0
            BY <5>1, <5>2, <5>4 DEF AcceptFails, Open
          <6> QED
            BY <5>4, <6>1 DEF AcceptFails
        <5> QED
          BY <3>2, <5>3, <5>4
      <4> QED
        BY <3>2, <4>1
    <3> QED
      BY <2>1, <3>1, <3>2 DEF AcceptLoop
  <2>2. CASE EpollWait
    BY <1>1, <2>2 DEF EpollWait, ReadySpecial, ListenReady, NInv
  <2>3. CASE DealClientET
    BY <2>3 DEF DealClientET
  <2>4. CASE DealClientLT
    BY <2>4 DEF DealClientLT
  <2>5. CASE HandleSignal \/ TimerHandler \/ SpinEnds \/ ReadTimerFlag \/ NextRound
    BY <1>1, <2>5 DEF HandleSignal, TimerHandler, SpinEnds, ReadTimerFlag, NextRound,
                      BatchDone
  <2>6. ASSUME NEW f \in Fd,
               HandleHup(f) \/ HandleReadProactor(f) \/ EndlessWrite(f)
               \/ HandleWriteProactor(f) \/ Delegate(f)
        PROVE  Told'
    BY <1>1, <2>6 DEF HandleHup, HandleReadProactor, EndlessWrite,
                      HandleWriteProactor, Delegate
  <2> QED
    BY <1>2, <2>1, <2>2, <2>3, <2>4, <2>5, <2>6 DEF Main
<1>3. ASSUME NEW w \in Worker, Work(w)
      PROVE  Told'
  BY <1>1, <1>3 DEF Work, Take, WorkerRead, WorkerWrite, WorkerFlag, NoRequest,
                    Reply, ReplyFails, CloseConn, Rearm
<1>4. CASE Environment \/ UNCHANGED vars
  BY <1>1, <1>4 DEF Environment, Connect, Elapse, Terminate, Send, Drain, HangUp,
                    Peer, vars
<1> QED
  BY <1>2, <1>3, <1>4 DEF Next

(* With an edge-triggered listening socket, and no more clients than there *)
(* may be users: whoever waits to be accepted is announced by an edge that *)
(* epoll still has to report, or the main thread is about to accept.       *)
THEOREM BacklogNoticedHolds ==
  ASSUME ~Reactor, ~Stalls, Welcome PROVE Spec => []BacklogNoticed
<1>1. Init => NInv
  BY LimitAssumption DEF Init, NInv, Announced, BacklogNoticed
<1>2. IInv /\ PInv /\ NInv /\ [Next]_vars => NInv'
  BY ClientsBounded, NoticedStep DEF PInv, NInv
<1>3. NInv => BacklogNoticed
  BY DEF NInv, Announced
<1> QED
  BY <1>1, <1>2, <1>3, ProactorInductive, PTL DEF Spec
=============================================================================
