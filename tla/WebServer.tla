------------------------------ MODULE WebServer ------------------------------
(***************************************************************************)
(* The running server: the main thread's event loop (webserver.cpp), the   *)
(* worker threads of the pool (threadpool.h), the http_conn slots they     *)
(* share (http_conn.cpp), the connection timers (lst_timer.cpp), and, as   *)
(* environment, the clients, the clock and the kernel objects the code     *)
(* drives: sockets, the epoll table with EPOLLONESHOT, the signal pipe.    *)
(*                                                                         *)
(* Abstractions.  A socket keeps only what decides an epoll event.  A slot *)
(* keeps only what decides the next step: what a request says, and how a   *)
(* reply is laid out, belong to HttpParse and HttpReply.  The pool's queue *)
(* is one step per append or pop (ThreadPool has its mutex and semaphore), *)
(* and the timer list is a map from timers to time slots left (TimerList   *)
(* has the pointers).                                                      *)
(***************************************************************************)
EXTENDS Integers, Sequences, FiniteSets

CONSTANTS
    Fd,          \* the descriptors accept() may return, indices of users[]
    Worker,      \* the pool's threads
    Timer,       \* addresses operator new may return for a util_timer
    NoFd,        \* -1
    Reactor,     \* TRUE: m_actormodel = 1, FALSE: proactor
    ListenET,    \* m_LISTENTrigmode = 1
    ConnET,      \* m_CONNTrigmode = 1
    MaxRequests, \* threadpool m_max_requests
    MaxUsers,    \* MAX_FD, the limit dealclientdata compares m_user_count with
    Lifetime,    \* slots of TIMESLOT seconds until a silent connection expires
    Stoppable,   \* TRUE: somebody may send SIGTERM
    Stalls,      \* TRUE: a queued or running task may outlast its timer
    MaxClients,  \* bound: clients connected at a time, accepted or not
    MaxDrift     \* bound: nobody connects once m_user_count is below -MaxDrift

ASSUME FdAssumption == NoFd \notin Fd
ASSUME FiniteAssumption ==
    IsFiniteSet(Fd) /\ IsFiniteSet(Worker) /\ IsFiniteSet(Timer)
ASSUME ModeAssumption == {Reactor, ListenET, ConnET, Stoppable, Stalls}
                            \subseteq BOOLEAN
ASSUME LimitAssumption ==
    /\ MaxRequests \in Nat \ {0}
    /\ MaxUsers \in Nat
    /\ Lifetime \in Nat \ {0}
    /\ MaxClients \in Nat
    /\ MaxDrift \in Nat

VARIABLES
    mpc,          \* where the main thread is
    mfd,          \* sockfd of the dealwith_read/dealwith_write it stays in
    event,        \* per fd: the entry of events[] not handled yet
    special,      \* entries of events[] for m_listenfd and m_pipefd[0]
    timeout, stop_server,
    alarm,        \* an alarm(TIMESLOT) is pending
    pipe,         \* signals written to m_pipefd[1]
    backlog,      \* connections not yet accepted
    edge,         \* m_listenfd turned readable since epoll last reported it
    sock,         \* the kernel's side of each descriptor
    users,        \* http_conn slots
    m_user_count,
    timer,        \* users_timer[fd].timer, never reset by the code
    user,         \* per timer: user_data->sockfd, NoFd when not allocated
    left,         \* per timer: slots left until expire
    m_workqueue,
    wpc, task     \* per worker: where it is, the request it holds

mainVars  == <<mpc, mfd, event, special, timeout, stop_server>>
clockVars == <<alarm, pipe>>
listenVars == <<backlog, edge>>
timerVars == <<timer, user, left>>
poolVars  == <<m_workqueue, wpc, task>>
vars == <<mpc, mfd, event, special, timeout, stop_server, alarm, pipe,
          backlog, edge, sock, users, m_user_count, timer, user, left,
          m_workqueue, wpc, task>>

-----------------------------------------------------------------------------
(* State *)

Events == {"none", "hup", "in", "out"}

Socket == [open : BOOLEAN, armed : {"off", "in", "out"},
           data : BOOLEAN, hup : BOOLEAN, full : BOOLEAN]
ClosedSocket == [open |-> FALSE, armed |-> "off",
                 data |-> FALSE, hup |-> FALSE, full |-> FALSE]

(* improv, timer_flag and m_state are the int members of that name;        *)
(* buffered is m_read_idx > 0, unsent is bytes_to_send # 0, and replies    *)
(* counts, up to 2, the replies built in m_write_buf since init().  iov is *)
(* how the last EAGAIN left the iovec of the unsent reply: in order, moved *)
(* on wrongly within the header, or spent, with nothing to send although   *)
(* bytes_to_send > 0.  refused is an observation: append_p() turned the    *)
(* connection away.                                                        *)
Slot == [m_sockfd : Fd \cup {NoFd}, improv : {0, 1}, timer_flag : {0, 1},
         m_state : {0, 1}, buffered : BOOLEAN, unsent : BOOLEAN,
         replies : 0 .. 2, iov : {"whole", "moved", "spent"},
         refused : BOOLEAN]

\* The slot after init().
FreshSlot(fd) == [m_sockfd |-> fd, improv |-> 0, timer_flag |-> 0,
                  m_state |-> 0, buffered |-> FALSE, unsent |-> FALSE,
                  replies |-> 0, iov |-> "whole", refused |-> FALSE]

Init ==
    /\ mpc = "wait" /\ mfd = NoFd
    /\ event = [f \in Fd |-> "none"] /\ special = {}
    /\ timeout = FALSE /\ stop_server = FALSE
    /\ alarm = TRUE /\ pipe = {}
    /\ backlog = 0 /\ edge = FALSE
    /\ sock = [f \in Fd |-> ClosedSocket]
    /\ users = [f \in Fd |-> FreshSlot(NoFd)]
    /\ m_user_count = 0
    /\ timer \in [Fd -> Timer]
    /\ user = [t \in Timer |-> NoFd]
    /\ left = [t \in Timer |-> 0]
    /\ m_workqueue = <<>>
    /\ wpc = [w \in Worker |-> "idle"]
    /\ task = [w \in Worker |-> NoFd]

Live == {t \in Timer : user[t] # NoFd}
Queued == {m_workqueue[i] : i \in 1 .. Len(m_workqueue)}
Held == {task[w] : w \in Worker} \ {NoFd}

-----------------------------------------------------------------------------
(* Helpers shared by the two kinds of thread *)

\* The slot names an open socket: the calls on m_sockfd reach it.
Attached(f) == users[f].m_sockfd = f /\ sock[f].open

\* Mutant: modfd() is forgotten.
modfd_omitted(f, ev) == sock

\* modfd(): re-arms the one-shot registration; fails without effect otherwise.
modfd(f, ev) == IF Attached(f) THEN [sock EXCEPT ![f].armed = ev] ELSE sock

\* close(), which also takes the descriptor out of the epoll table.
closed(F) == [f \in Fd |-> IF f \in F THEN ClosedSocket ELSE sock[f]]

(* read_once() returns true.  Level-triggered it takes what one recv()     *)
(* gives; edge-triggered it reads until EAGAIN and fails at end of file.   *)
ReadTrue(f) == Attached(f) /\ IF ConnET THEN ~sock[f].hup ELSE sock[f].data

(* read_once() returns false: no data, end of file, or m_read_buf is full. *)
ReadFalse(f) ==
    \/ ~Attached(f)
    \/ ConnET /\ (sock[f].hup \/ sock[f].data)
    \/ ~ConnET /\ ~sock[f].data
    \/ users[f].buffered

\* Mutant: the bytes stay in the socket.
drained_peeks(f) == sock

\* recv() took what the socket had.
drained(f) == [sock EXCEPT ![f].data = FALSE]
received(f) == users[f].buffered \/ sock[f].data

\* The slot with no reply to send.
Sent(f) == [users[f] EXCEPT !.unsent = FALSE, !.iov = "whole"]

\* Mutant: write() returns true for a short connection too.
SentShort_true(f) == [slot |-> Sent(f), sock |-> modfd(f, "in"), ret |-> TRUE]

\* write() has sent all, and m_linger is false.
SentShort(f) == [slot |-> Sent(f), sock |-> modfd(f, "in"), ret |-> FALSE]

(* What EAGAIN makes of the iovec.  A header that was cut is moved on      *)
(* wrongly, and at the next EAGAIN a reply without a file is taken for     *)
(* sent; after a second reply bytes_have_send is stale, and it is at once. *)
MovedOn(f) ==
    IF users[f].iov = "moved" THEN {"moved", "spent"}
    ELSE {"whole", "moved"} \cup (IF users[f].replies = 2 THEN {"spent"} ELSE {})

\* writev() has nothing to send and returns 0, as often as it is called.
Spins(f) == users[f].unsent /\ users[f].iov = "spent" /\ Attached(f)

(* The outcomes of write(): an outcome is the slot and the sockets it      *)
(* leaves and the boolean it returns; a write() that loops has none.       *)
(* Nothing to send and a reply sent on a connection to be kept come to the *)
(* same: init() and wait for requests.                                     *)
WriteOutcomes(f) ==
    LET init == FreshSlot(users[f].m_sockfd)
        kept == [slot |-> init, sock |-> modfd(f, "in"), ret |-> TRUE]
        again(v) == [slot |-> [users[f] EXCEPT !.iov = v],
                     sock |-> [modfd(f, "out") EXCEPT ![f].full = TRUE],
                     ret |-> TRUE]
        error == [slot |-> users[f], sock |-> sock, ret |-> FALSE]
    IN  IF ~users[f].unsent THEN {kept}
        ELSE IF Spins(f) THEN {}
        ELSE (IF Attached(f) THEN {again(v) : v \in MovedOn(f)} ELSE {})
             \cup (IF Attached(f) /\ ~sock[f].full THEN {kept, SentShort(f)} ELSE {})
             \cup (IF ~Attached(f) \/ sock[f].hup THEN {error} ELSE {})

-----------------------------------------------------------------------------
(* The main thread: eventLoop() *)

Ready(f) ==
    /\ sock[f].open
    /\ \/ sock[f].armed = "in" /\ (sock[f].hup \/ sock[f].data)
       \/ sock[f].armed = "out" /\ (sock[f].hup \/ ~sock[f].full)

ListenReady == backlog > 0 /\ (ListenET => edge)

ReadySpecial == (IF ListenReady THEN {"listen"} ELSE {})
                \cup (IF pipe # {} THEN {"signal"} ELSE {})

\* Mutant: the registration is without EPOLLONESHOT.
reported_again(f) == sock[f]

\* EPOLLONESHOT: a registration that was reported is disarmed.
reported(f) == [sock[f] EXCEPT !.armed = "off"]

(* epoll_wait() returns every ready descriptor.  A hang-up hides the data. *)
EpollWait ==
    /\ mpc = "wait"
    /\ \/ \E f \in Fd : Ready(f)
       \/ ReadySpecial # {}
    /\ event' = [f \in Fd |-> IF ~Ready(f) THEN "none"
                              ELSE IF sock[f].hup THEN "hup"
                              ELSE sock[f].armed]
    /\ sock' = [f \in Fd |-> IF Ready(f) THEN reported(f) ELSE sock[f]]
    /\ special' = ReadySpecial
    /\ edge' = FALSE
    /\ mpc' = "batch"
    /\ UNCHANGED <<mfd, timeout, stop_server, clockVars, backlog, users,
                   m_user_count, timerVars, poolVars>>

(* timer(connfd): init() of the slot, addfd(), and a new util_timer.       *)
Admit(f, t) ==
    /\ ~sock[f].open /\ t \notin Live
    /\ backlog' = backlog - 1
    /\ sock' = [sock EXCEPT ![f] = [ClosedSocket EXCEPT !.open = TRUE,
                                                        !.armed = "in"]]
    /\ users' = [users EXCEPT ![f] = FreshSlot(f)]
    /\ m_user_count' = m_user_count + 1
    /\ timer' = [timer EXCEPT ![f] = t]
    /\ user' = [user EXCEPT ![t] = f]
    /\ left' = [left EXCEPT ![t] = Lifetime]

(* The outcomes of accept() in dealclientdata(): a connection is admitted, *)
(* one too many is told "Internal server busy" and closed, or accept()     *)
(* fails: nobody waits, or the process is out of descriptors.              *)
AcceptAdmits ==
    /\ backlog > 0 /\ m_user_count < MaxUsers
    /\ \E f \in Fd, t \in Timer : Admit(f, t)
    /\ UNCHANGED edge

AcceptBusy ==
    /\ backlog > 0 /\ m_user_count >= MaxUsers
    /\ \E f \in Fd : ~sock[f].open
    /\ backlog' = backlog - 1
    /\ UNCHANGED <<edge, sock, users, m_user_count, timerVars>>

AcceptFails ==
    /\ backlog = 0 \/ \A f \in Fd : sock[f].open
    /\ UNCHANGED <<listenVars, sock, users, m_user_count, timerVars>>

(* dealclientdata() with a level-triggered m_listenfd: one accept().       *)
DealClientLT ==
    /\ mpc = "batch" /\ "listen" \in special /\ ~ListenET
    /\ AcceptAdmits \/ AcceptBusy \/ AcceptFails
    /\ special' = special \ {"listen"}
    /\ UNCHANGED <<mpc, mfd, event, timeout, stop_server, clockVars, poolVars>>

(* Edge-triggered: accept() in a loop that ends when it fails or is busy.  *)
DealClientET ==
    /\ mpc = "batch" /\ "listen" \in special /\ ListenET
    /\ mpc' = "accept"
    /\ special' = special \ {"listen"}
    /\ UNCHANGED <<mfd, event, timeout, stop_server, clockVars, listenVars,
                   sock, users, m_user_count, timerVars, poolVars>>

\* Mutant: one accept() per edge.
AcceptLoop_once ==
    /\ mpc = "accept"
    /\ AcceptAdmits \/ AcceptBusy \/ AcceptFails
    /\ mpc' = "batch"
    /\ UNCHANGED <<mfd, event, special, timeout, stop_server, clockVars,
                   poolVars>>

AcceptLoop ==
    /\ mpc = "accept"
    /\ \/ AcceptAdmits /\ mpc' = "accept"
       \/ (AcceptBusy \/ AcceptFails) /\ mpc' = "batch"
    /\ UNCHANGED <<mfd, event, special, timeout, stop_server, clockVars,
                   poolVars>>

\* Mutant: cb_func() does not close.
DealTimer_open(f) ==
    /\ m_user_count' = m_user_count - 1
    /\ user' = [user EXCEPT ![timer[f]] = NoFd]
    /\ left' = [left EXCEPT ![timer[f]] = 0]
    /\ UNCHANGED <<timer, sock>>

\* Mutant: cb_func() does not count.
DealTimer_uncounted(f) ==
    /\ sock' = closed({f})
    /\ user' = [user EXCEPT ![timer[f]] = NoFd]
    /\ left' = [left EXCEPT ![timer[f]] = 0]
    /\ UNCHANGED <<timer, m_user_count>>

(* cb_func() and del_timer(): what deal_timer(users_timer[f].timer, f) does. *)
DealTimer(f) ==
    /\ sock' = closed({f})
    /\ m_user_count' = m_user_count - 1
    /\ user' = [user EXCEPT ![timer[f]] = NoFd]
    /\ left' = [left EXCEPT ![timer[f]] = 0]
    /\ UNCHANGED timer

\* adjust_timer(users_timer[f].timer).
AdjustTimer(f) ==
    /\ left' = [left EXCEPT ![timer[f]] = Lifetime]
    /\ UNCHANGED <<timer, user>>

(* EPOLLRDHUP, EPOLLHUP or EPOLLERR: the connection is closed.             *)
HandleHup(f) ==
    /\ mpc = "batch" /\ event[f] = "hup"
    /\ event' = [event EXCEPT ![f] = "none"]
    /\ DealTimer(f)
    /\ UNCHANGED <<mpc, mfd, special, timeout, stop_server, clockVars,
                   listenVars, users, poolVars>>

\* Mutant: SIGTERM is seen only when it comes alone.
StopAsked_alone == pipe = {"TERM"}

\* SIGTERM is among the signals read.
StopAsked == "TERM" \in pipe

(* dealwithsignal(): every byte in the pipe is taken.                      *)
HandleSignal ==
    /\ mpc = "batch" /\ "signal" \in special
    /\ special' = special \ {"signal"}
    /\ timeout' = (timeout \/ "ALRM" \in pipe)
    /\ stop_server' = (stop_server \/ StopAsked)
    /\ pipe' = {}
    /\ UNCHANGED <<mpc, mfd, event, alarm, listenVars, sock, users,
                   m_user_count, timerVars, poolVars>>

\* Mutant: off by one.
QueueFull_early == Len(m_workqueue) + 1 >= MaxRequests

QueueFull == Len(m_workqueue) >= MaxRequests

(* append_p() returns false when the queue is full, and nobody looks.      *)
append_p(f) == IF QueueFull THEN m_workqueue ELSE Append(m_workqueue, f)

(* dealwith_read(), proactor: the main thread reads and queues the slot.   *)
HandleReadProactor(f) ==
    /\ mpc = "batch" /\ event[f] = "in" /\ ~Reactor
    /\ event' = [event EXCEPT ![f] = "none"]
    /\ \/ /\ ReadTrue(f)
          /\ sock' = drained(f)
          /\ users' = [users EXCEPT ![f].buffered = received(f),
                                    ![f].refused = QueueFull]
          /\ m_workqueue' = append_p(f)
          /\ AdjustTimer(f)
          /\ UNCHANGED m_user_count
       \/ /\ ReadFalse(f)
          /\ DealTimer(f)
          /\ UNCHANGED <<users, m_workqueue>>
    /\ UNCHANGED <<mpc, mfd, special, timeout, stop_server, clockVars,
                   listenVars, wpc, task>>

(* dealwith_write(), proactor: the main thread writes, and stays in        *)
(* write() if that loops.                                                  *)
EndlessWrite(f) ==
    /\ mpc = "batch" /\ event[f] = "out" /\ ~Reactor
    /\ Spins(f)
    /\ mpc' = "write" /\ mfd' = f
    /\ UNCHANGED <<event, special, timeout, stop_server, clockVars, listenVars,
                   sock, users, m_user_count, timerVars, poolVars>>

HandleWriteProactor(f) ==
    /\ mpc = "batch" \/ (mpc = "write" /\ mfd = f)
    /\ event[f] = "out" /\ ~Reactor
    /\ event' = [event EXCEPT ![f] = "none"]
    /\ mpc' = "batch" /\ mfd' = NoFd
    /\ \E o \in WriteOutcomes(f) :
         /\ users' = [users EXCEPT ![f] = o.slot]
         /\ \/ o.ret /\ sock' = o.sock /\ AdjustTimer(f)
                     /\ UNCHANGED m_user_count
            \/ ~o.ret /\ DealTimer(f)
    /\ UNCHANGED <<special, timeout, stop_server, clockVars, listenVars,
                   poolVars>>

(* Reactor: adjust_timer(), append() the slot with the direction, then     *)
(* spin on its improv.  append() throws when the queue is full, and nobody *)
(* catches: the process aborts.                                            *)
Delegate(f) ==
    /\ mpc = "batch" /\ event[f] \in {"in", "out"} /\ Reactor
    /\ event' = [event EXCEPT ![f] = "none"]
    /\ AdjustTimer(f)
    /\ IF QueueFull
       THEN /\ mpc' = "aborted"
            /\ UNCHANGED <<mfd, users, m_workqueue>>
       ELSE /\ mpc' = "spin" /\ mfd' = f
            /\ users' = [users EXCEPT ![f].m_state = IF event[f] = "in" THEN 0
                                                     ELSE 1]
            /\ m_workqueue' = Append(m_workqueue, f)
    /\ UNCHANGED <<special, timeout, stop_server, clockVars, listenVars, sock,
                   m_user_count, wpc, task>>

\* Mutant: improv stays set.
Acknowledged_half(f) == [users EXCEPT ![f].timer_flag = 0]

\* The main thread resets what the worker set.
Acknowledged(f) == [users EXCEPT ![f].improv = 0, ![f].timer_flag = 0]

(* The loop reads improv, then timer_flag, in two separate reads.          *)
SpinEnds ==
    /\ mpc = "spin" /\ users[mfd].improv = 1
    /\ mpc' = "flag"
    /\ UNCHANGED <<mfd, event, special, timeout, stop_server, clockVars,
                   listenVars, sock, users, m_user_count, timerVars, poolVars>>

ReadTimerFlag ==
    /\ mpc = "flag"
    /\ mpc' = "batch" /\ mfd' = NoFd
    /\ users' = Acknowledged(mfd)
    /\ \/ users[mfd].timer_flag = 1 /\ DealTimer(mfd)
       \/ users[mfd].timer_flag = 0
          /\ UNCHANGED <<sock, m_user_count, timerVars>>
    /\ UNCHANGED <<event, special, timeout, stop_server, clockVars, listenVars,
                   poolVars>>

BatchDone ==
    mpc = "batch" /\ special = {} /\ \A f \in Fd : event[f] = "none"

\* Mutant: the alarm is not set again.
SetAlarm_omitted == UNCHANGED alarm

\* alarm(m_TIMESLOT)
SetAlarm == alarm' = TRUE

(* timer_handler(): tick() runs cb_func() on every expired timer and frees *)
(* it, then the alarm is set again.                                        *)
TimerHandler ==
    /\ BatchDone /\ timeout
    /\ LET due == {t \in Live : left[t] = 0}
       IN  /\ sock' = closed({user[t] : t \in due})
           /\ m_user_count' = m_user_count - Cardinality(due)
           /\ user' = [t \in Timer |-> IF t \in due THEN NoFd ELSE user[t]]
    /\ timeout' = FALSE
    /\ SetAlarm
    /\ UNCHANGED <<mpc, mfd, event, special, stop_server, pipe, listenVars,
                   users, timer, left, poolVars>>

NextRound ==
    /\ BatchDone /\ ~timeout
    /\ mpc' = IF stop_server THEN "done" ELSE "wait"
    /\ UNCHANGED <<mfd, event, special, timeout, stop_server, clockVars,
                   listenVars, sock, users, m_user_count, timerVars, poolVars>>

Main ==
    \/ EpollWait \/ DealClientLT \/ DealClientET \/ AcceptLoop
    \/ HandleSignal \/ SpinEnds \/ ReadTimerFlag \/ TimerHandler \/ NextRound
    \/ \E f \in Fd : \/ HandleHup(f) \/ HandleReadProactor(f) \/ EndlessWrite(f)
                     \/ HandleWriteProactor(f) \/ Delegate(f)

-----------------------------------------------------------------------------
(* The workers: threadpool::run() and http_conn::process() *)

(* Take the front request; in reactor mode its m_state says what to do.    *)
Take(w) ==
    /\ wpc[w] = "idle" /\ m_workqueue # <<>>
    /\ LET f == Head(m_workqueue)
       IN  /\ task' = [task EXCEPT ![w] = f]
           /\ wpc' = [wpc EXCEPT ![w] =
                        IF ~Reactor THEN "process"
                        ELSE IF users[f].m_state = 0 THEN "read" ELSE "write"]
    /\ m_workqueue' = Tail(m_workqueue)
    /\ UNCHANGED <<mainVars, clockVars, listenVars, sock, users, m_user_count,
                   timerVars>>

Finish(w) ==
    /\ wpc' = [wpc EXCEPT ![w] = "idle"]
    /\ task' = [task EXCEPT ![w] = NoFd]

\* Mutant: the worker does not say that it is done.
Answer_omitted(slot) == slot

\* request->improv = 1
Answer(slot) == [slot EXCEPT !.improv = 1]

(* Reactor: read_once(), then improv = 1.                                  *)
WorkerRead(w) ==
    /\ wpc[w] = "read"
    /\ LET f == task[w]
       IN  \/ /\ ReadTrue(f)
              /\ sock' = drained(f)
              /\ users' = [users EXCEPT
                              ![f] = [Answer(@) EXCEPT !.buffered = received(f)]]
              /\ wpc' = [wpc EXCEPT ![w] = "process"]
           \/ /\ ReadFalse(f)
              /\ users' = [users EXCEPT ![f] = Answer(@)]
              /\ wpc' = [wpc EXCEPT ![w] = "flag"]
              /\ UNCHANGED sock
    /\ UNCHANGED <<mainVars, clockVars, listenVars, m_user_count, timerVars,
                   m_workqueue, task>>

(* Reactor: write(), unless it loops, then improv = 1.                     *)
WorkerWrite(w) ==
    /\ wpc[w] = "write"
    /\ LET f == task[w]
       IN  \E o \in WriteOutcomes(f) :
             /\ sock' = o.sock
             /\ users' = [users EXCEPT ![f] = Answer(o.slot)]
             /\ \/ o.ret /\ Finish(w)
                \/ /\ ~o.ret
                   /\ wpc' = [wpc EXCEPT ![w] = "flag"]
                   /\ UNCHANGED task
    /\ UNCHANGED <<mainVars, clockVars, listenVars, m_user_count, timerVars,
                   m_workqueue>>

\* ... and, when the call failed, timer_flag = 1 after it.
WorkerFlag(w) ==
    /\ wpc[w] = "flag"
    /\ users' = [users EXCEPT ![task[w]].timer_flag = 1]
    /\ Finish(w)
    /\ UNCHANGED <<mainVars, clockVars, listenVars, sock, m_user_count,
                   timerVars, m_workqueue>>

(* process(): the request is incomplete, wait for more of it.              *)
NoRequest(w) ==
    /\ wpc[w] = "process"
    /\ wpc' = [wpc EXCEPT ![w] = "rearm in"]
    /\ UNCHANGED <<mainVars, clockVars, listenVars, sock, users, m_user_count,
                   timerVars, m_workqueue, task>>

(* process(): process_write() has built a reply.                           *)
Reply(w) ==
    /\ wpc[w] = "process" /\ users[task[w]].buffered
    /\ users' = [users EXCEPT ![task[w]].unsent = TRUE,
                              ![task[w]].iov = "whole",
                              ![task[w]].replies = IF @ = 2 THEN 2 ELSE @ + 1]
    /\ wpc' = [wpc EXCEPT ![w] = "rearm out"]
    /\ UNCHANGED <<mainVars, clockVars, listenVars, sock, m_user_count,
                   timerVars, m_workqueue, task>>

\* Mutant: the first reply may fail already.
CannotReply_ever(f) == TRUE

(* process_write() may return false: do_request() and a full m_write_buf   *)
(* are in reach only when two replies were built in the slot since init(). *)
CannotReply(f) == users[f].replies = 2

(* process(): process_write() returned false, close_conn(), which closes   *)
(* the descriptor ...                                                      *)
ReplyFails(w) ==
    /\ wpc[w] = "process" /\ users[task[w]].buffered
    /\ CannotReply(task[w])
    /\ IF users[task[w]].m_sockfd = NoFd
       THEN /\ wpc' = [wpc EXCEPT ![w] = "rearm out"]
            /\ UNCHANGED sock
       ELSE /\ wpc' = [wpc EXCEPT ![w] = "close"]
            /\ sock' = closed({task[w]})
    /\ UNCHANGED <<mainVars, clockVars, listenVars, users, m_user_count,
                   timerVars, m_workqueue, task>>

(* ... and then marks the slot, which may be a new connection's by now.    *)
CloseConn(w) ==
    /\ wpc[w] = "close"
    /\ users' = [users EXCEPT ![task[w]].m_sockfd = NoFd]
    /\ m_user_count' = m_user_count - 1
    /\ wpc' = [wpc EXCEPT ![w] = "rearm out"]
    /\ UNCHANGED <<mainVars, clockVars, listenVars, sock, timerVars,
                   m_workqueue, task>>

(* process(): modfd() is the last thing it does.                           *)
Rearm(w) ==
    /\ wpc[w] \in {"rearm in", "rearm out"}
    /\ sock' = modfd(task[w], IF wpc[w] = "rearm in" THEN "in" ELSE "out")
    /\ Finish(w)
    /\ UNCHANGED <<mainVars, clockVars, listenVars, users, m_user_count,
                   timerVars, m_workqueue>>

Work(w) ==
    \/ Take(w) \/ WorkerRead(w) \/ WorkerWrite(w) \/ WorkerFlag(w)
    \/ NoRequest(w) \/ Reply(w) \/ ReplyFails(w) \/ CloseConn(w) \/ Rearm(w)

-----------------------------------------------------------------------------
(* The environment: clients, clock, signals *)

Connect ==
    /\ backlog + Cardinality({f \in Fd : sock[f].open}) < MaxClients
    /\ m_user_count >= -MaxDrift
    /\ backlog' = backlog + 1
    /\ edge' = TRUE
    /\ UNCHANGED <<mainVars, clockVars, sock, users, m_user_count, timerVars,
                   poolVars>>

\* What the peer may do to an open connection: send, read, hang up.
Peer(f, change) ==
    /\ sock[f].open /\ change # sock[f]
    /\ sock' = [sock EXCEPT ![f] = change]
    /\ UNCHANGED <<mainVars, clockVars, listenVars, users, m_user_count,
                   timerVars, poolVars>>

Send(f)  == ~sock[f].hup /\ Peer(f, [sock[f] EXCEPT !.data = TRUE])
Drain(f) == Peer(f, [sock[f] EXCEPT !.full = FALSE])
HangUp(f) == Peer(f, [sock[f] EXCEPT !.hup = TRUE])

(* TIMESLOT seconds pass, and a pending alarm() is delivered.  Unless      *)
(* Stalls, they pass only while no task would outlast its timer.           *)
Elapse ==
    /\ Stalls \/ \A f \in Queued \cup Held : left[timer[f]] > 1
    /\ left' = [t \in Timer |-> IF left[t] = 0 THEN 0 ELSE left[t] - 1]
    /\ alarm' = FALSE
    /\ pipe' = IF alarm THEN pipe \cup {"ALRM"} ELSE pipe
    /\ UNCHANGED <<mainVars, listenVars, sock, users, m_user_count, timer,
                   user, poolVars>>

Terminate ==
    /\ Stoppable
    /\ pipe' = pipe \cup {"TERM"}
    /\ UNCHANGED <<mainVars, alarm, listenVars, sock, users, m_user_count,
                   timerVars, poolVars>>

Environment ==
    \/ Connect \/ Elapse \/ Terminate
    \/ \E f \in Fd : Send(f) \/ Drain(f) \/ HangUp(f)

-----------------------------------------------------------------------------
Next == Main \/ (\E w \in Worker : Work(w)) \/ Environment

Spec == Init /\ [][Next]_vars

(* The scheduler runs the main thread and every worker.  Time passes: with *)
(* Stalls Elapse is always enabled, without it strong fairness says that   *)
(* it is not held up for ever by one short task after another.             *)
Fairness == WF_vars(Main) /\ SF_vars(Elapse)
            /\ \A w \in Worker : WF_vars(Work(w))

FairSpec == Spec /\ Fairness

-----------------------------------------------------------------------------
(* Correctness *)

(* Every variable keeps its type.                                          *)
MainOK ==
    /\ mpc \in {"wait", "batch", "accept", "write", "spin", "flag", "done",
                "aborted"}
    /\ mfd \in Fd \cup {NoFd}
    /\ event \in [Fd -> Events] /\ special \subseteq {"listen", "signal"}
    /\ timeout \in BOOLEAN /\ stop_server \in BOOLEAN
KernelOK ==
    /\ alarm \in BOOLEAN /\ pipe \subseteq {"ALRM", "TERM"}
    /\ backlog \in Nat /\ edge \in BOOLEAN /\ m_user_count \in Int
SocketsOK == sock \in [Fd -> Socket]
SlotsOK == users \in [Fd -> Slot]
TimersOK ==
    /\ timer \in [Fd -> Timer] /\ user \in [Timer -> Fd \cup {NoFd}]
    /\ left \in [Timer -> 0 .. Lifetime]
PoolOK ==
    /\ m_workqueue \in Seq(Fd)
    /\ wpc \in [Worker -> {"idle", "read", "write", "process", "close", "flag",
                           "rearm in", "rearm out"}]
    /\ task \in [Worker -> Fd \cup {NoFd}]

TypeOK == MainOK /\ KernelOK /\ SocketsOK /\ SlotsOK /\ TimersOK /\ PoolOK

(* users_timer[f].timer is never reset, yet the main thread frees it,      *)
(* adjusts it and calls through it: whenever it may do so for f (f is      *)
(* open, an event of f waits in the batch, or the main thread spins on f)  *)
(* the pointer is to an allocated timer, and to one that closes f.         *)
MayUseTimer(f) == sock[f].open \/ event[f] # "none" \/ mfd = f

TimerSafe == \A f \in Fd : MayUseTimer(f) => user[timer[f]] = f

(* Timers and connections come and go together: an open connection has one *)
(* timer, a closed one has none that could fire when its descriptor is     *)
(* used again.  (Proactor; a worker's close_conn() leaves the timer.)      *)
OneTimer ==
    \A f \in Fd : {t \in Live : user[t] = f}
                  = IF sock[f].open THEN {timer[f]} ELSE {}

(* Who may touch the slot of f: the thread that gets its next epoll event, *)
(* the main thread with that event, the queue, the worker that runs it.    *)
Owners(f) ==
    {<<"epoll", x>> : x \in {sock[f].armed} \ {"off"}}
    \cup {<<"main", x>> : x \in {event[f]} \ {"none"}}
    \cup {<<"queue", i>> : i \in {j \in 1 .. Len(m_workqueue) : m_workqueue[j] = f}}
    \cup {<<"worker", w>> : w \in {v \in Worker : task[v] = f}}

(* EPOLLONESHOT: a connection is never in two threads' hands, and it is    *)
(* open as long as it is in one's.  (Proactor; tasks end before the timer.) *)
OneOwner == \A f \in Fd : /\ \A a, b \in Owners(f) : a = b
                          /\ Owners(f) # {} => sock[f].open

(* An open connection is in somebody's hands: some thread will handle it,  *)
(* or epoll will report it.  Those that append_p() turned away are in      *)
(* nobody's, and no others are.                                            *)
NoneStranded ==
    \A f \in Fd : sock[f].open => (Owners(f) = {} <=> users[f].refused)

(* m_user_count never says that there are more connections than there are  *)
(* (a server that thought so would turn its clients away for ever): a      *)
(* connection may be subtracted twice, by a worker (close_conn) and by the *)
(* main thread (cb_func), but whoever closes it subtracts it.              *)
UserCount ==
    m_user_count <= Cardinality({f \in Fd : sock[f].open})
                    + Cardinality({w \in Worker : wpc[w] = "close"})

(* A connection that was sent its whole reply does not go back to waiting  *)
(* for requests unless it was kept alive, which init()s its slot: a short  *)
(* connection is closed.                                                   *)
ShortClosed ==
    \A f \in Fd : (users[f].replies > 0 /\ ~users[f].unsent /\ event[f] = "in")
                  => ~sock[f].open

(* The reactor's handshake.  While the main thread waits for its request,  *)
(* that request is in the queue, or in the hands of one worker, or its     *)
(* improv is set, exactly one of the three, and no other request or improv *)
(* is about; while it does not wait there is none at all.                  *)
Running(w) == wpc[w] \in {"read", "write"}
NoneQueued == m_workqueue = <<>>
NoneRunning == \A w \in Worker : ~Running(w)
NoneAnswered == \A f \in Fd : users[f].improv = 0

RequestQueued == m_workqueue = <<mfd>> /\ NoneRunning /\ NoneAnswered
RequestRunning ==
    /\ NoneQueued /\ NoneAnswered
    /\ \E w \in Worker : /\ Running(w) /\ task[w] = mfd
                         /\ \A v \in Worker \ {w} : ~Running(v)
RequestAnswered ==
    /\ NoneQueued /\ NoneRunning /\ users[mfd].improv = 1
    /\ \A g \in Fd \ {mfd} : users[g].improv = 0

Handshake ==
    Reactor =>
        /\ mpc = "spin" => RequestQueued \/ RequestRunning \/ RequestAnswered
        /\ mpc = "flag" => RequestAnswered
        /\ mpc \notin {"spin", "flag"} => NoneQueued /\ NoneRunning /\ NoneAnswered

(* append() never finds the queue full in reactor mode, however small the  *)
(* queue: the process never dies of its exception.                         *)
NeverAborts == mpc # "aborted"

(* Edge-triggered accept: connections left in the backlog are announced by *)
(* an edge still to be reported, or the accept loop is about to take them. *)
BacklogNoticed ==
    ListenET => (backlog > 0 => edge \/ "listen" \in special \/ mpc = "accept")

(* A write() that never returns: its thread is in it, on a connection that *)
(* stays open.                                                             *)
WriteLoops ==
    \E f \in Fd : /\ Spins(f)
                  /\ \/ mpc = "write" /\ mfd = f
                     \/ \E w \in Worker : wpc[w] = "write" /\ task[w] = f
Stuck == <>[]WriteLoops

(* The main thread gets back to epoll_wait(), or leaves its loop, as long  *)
(* as every write() returns.                                               *)
MainReturns ==
    Stuck \/ ((mpc \notin {"wait", "done"}) ~> (mpc \in {"wait", "done"}))

(* SIGTERM ends the event loop, as long as every write() returns.          *)
StopHonoured == Stuck \/ (("TERM" \in pipe) ~> (mpc = "done"))

(* A connection whose peer stays silent is closed by its timer, as long as *)
(* every write() returns.                                                  *)
IdleClosed ==
    \/ Stuck
    \/ \A f \in Fd : \/ []<><<Send(f) \/ Drain(f)>>_vars
                     \/ []<>(~sock[f].open)
                     \/ <>(mpc = "done")

(* A connection that append_p() turned away, which nobody watches any      *)
(* more, is closed by its timer whatever its peer sends, as long as every  *)
(* write() returns.                                                        *)
RefusedClosed ==
    \/ Stuck
    \/ \A f \in Fd : users[f].refused ~> (~sock[f].open \/ mpc = "done")

(* What a peer sent is read, or its connection is closed, unless the peer  *)
(* goes on for ever taking an earlier reply bit by bit, or a write() never *)
(* returns.                                                                *)
Served ==
    \/ Stuck
    \/ \A f \in Fd : \/ []<><<Drain(f)>>_vars
                     \/ sock[f].data ~> (~sock[f].data \/ mpc = "done")
=============================================================================
