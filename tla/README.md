# A verification project for my_webserve

The repository is a small C++ HTTP server in the style of TinyWebServer: one
main thread with epoll, a pool of worker threads, a list of connection timers
driven by SIGALRM, a pool of MySQL connections and a log that may have a thread
of its own.  This directory holds TLA+ models of its parts, the TLC
configurations that check them, and TLAPS proofs of all their safety properties.
Paths such as `webserver.cpp` are under `src/src`, headers under `src/include`.

## 1. Inventory

| Part | State it keeps | Operations | Talks to |
|---|---|---|---|
| Event loop, `WebServer` (`webserver.cpp`) | `timeout`, `stop_server`, `events[]`, `users[]`, `users_timer[]` | `eventLoop`, `dealclientdata`, `dealwithsignal`, `dealwith_read`, `dealwith_write`, `timer`, `adjust_timer`, `deal_timer` | sockets and epoll, signal pipe, pool, timers, slots |
| Connection slot, `http_conn` (`http_conn.cpp`) | `m_sockfd`, buffers and indices, parser state, iovecs, `improv`, `timer_flag`, `m_state`; static `m_user_count` | `init`, `read_once`, `process`, `write`, `close_conn`; `addfd`, `modfd`, `removefd` | epoll; called by the main thread and the workers |
| Request parser and reply builder (`http_conn.cpp`) | the parser part of a slot | `parse_line`, `parse_request_line`, `parse_headers`, `parse_content`, `do_request`, `process_write`, `add_*` | files under `root/`, MySQL |
| Timers (`lst_timer.cpp`) | a sorted doubly linked list of `util_timer` | `add_timer`, `adjust_timer`, `del_timer`, `tick`; `cb_func` | closes sockets, decrements `m_user_count` |
| Signals, `Utils` | signal pipe, pending `alarm` | `sig_handler`, `timer_handler` | main thread |
| Worker pool, `threadpool<T>` (`threadpool.h`) | `m_workqueue`, mutex, semaphore | `append`, `append_p`, `run` | main thread, slots, MySQL pool |
| MySQL pool (`connection_pool.cpp`) | `connlist`, `reserve` (semaphore), two counters | `GetConnection`, `ReleaseConnection`, `DestroyPool`, `connectionRAII` | workers |
| Log (`log.cpp`, `log.h`) | `m_today`, `m_count`, `m_fp`, queue | `init`, `write_log`, `async_write_log` | all threads, `block_queue` |
| Blocking queue (`block_queue.h`) | circular array, size, two indices, mutex, condition variable | `push`, `pop`, `clear`, and getters | log |
| Locks (`locker.h`) | - | wrappers of pthread and semaphore calls | everything |
| Start-up (`config.cpp`, `main.cpp`) | options | straight-line | everything |

How they interact.  epoll reports a descriptor once (`EPOLLONESHOT`); the main
thread then owns the connection and either reads and writes itself and queues
the parsed work (*proactor*) or queues everything and spins on the slot's
`improv` flag until a worker has done the system call (*reactor*).  The worker
that ends the work re-arms the descriptor with `modfd`, which gives the
connection back to epoll.  Independently a timer may close any connection:
`alarm` -> `SIGALRM` -> a byte in the signal pipe -> `timeout` -> `tick()`.

What is hard here, and what makes each part correct:

- *Ownership of a connection.*  Four parties (epoll, the main thread, the
  queue, a worker) pass it round, and a timer may cut in.  It must be in one
  hand at a time and never in none, and it must not be touched when closed.
- *Stale pointers.*  `users_timer[fd].timer` is never reset when the timer it
  names is freed, and descriptors are reused.
- *The reactor's handshake.*  Two plain ints per slot, set by a worker and
  polled by the main thread.  A missed answer hangs the server; an answer left
  over ends the wait for another request.
- *Counters shared by threads:* `m_user_count`, the semaphores, the pool's two
  counters.
- *Liveness:* no stranded connection, data that arrives while disarmed, the
  alarm that is set again only by the handler of the last one, SIGTERM.
- *Unlocked windows:* `wait()` and pop in both pools, `full()` and `push()` in
  the log, `localtime()`'s one static buffer.
- *A parser that stops anywhere.*  `recv()` may cut a request between any two
  bytes; the slot remembers how far it got, and outlives requests and
  connections.
- *A reply sent in pieces.*  `writev()` takes what the socket has room for; the
  iovec has to be moved on, a file stays mapped until the end, and
  `m_write_buf` may be full.
- *Interrupted `sem_wait`*: handlers are installed without `SA_RESTART` and
  nobody looks at what `wait()` returns.
- *Boundaries:* queue full, circular indices, files full, midnight.

`PROJECT.json` lists each hazard at its line with the properties aimed at it.

## 2. Plan

Written, in this order:

1. `WebServer`, the composition of main thread, workers, slots, timers and
   environment, with its abstract specification `Connection` and the mapping
   `WebServerConnection`.
2. `TimerList` (pointers) implementing `TimerSet`.
3. `ThreadPool`; `BlockQueue` implementing `BoundedQueue`.
4. `ConnectionPool`.
5. `Log`.
6. `HttpParse`: `read_once`, `parse_line` and the parser's two state machines
   across calls of `process()`, checked against a definition over whole lines.
7. `HttpReply`: `process_write` and the limits of `m_write_buf`, the iovec and
   the arithmetic of a partial `writev`.
8. Proofs: `WebServer_proofs` (both actor models, then the proactor),
   `ThreadPool_proofs`, `ConnectionPool_proofs`, `Containers_proofs` (the
   circular array and the timer list), `Log_proofs`, `HttpReply_proofs`,
   `HttpParse_proofs`.

Left: a log that is closed (`m_close_log`).

Parameters are constants with named assumptions, every handler is one action
(or one action per step that another thread can see between), and no module
that is proved about uses a RECURSIVE operator.

## 3. Modules and code

**`WebServer`** has a program counter for the main thread (`mpc`): `"wait"` in
`epoll_wait`, `"batch"` in the loop over `events[]` (the entries still to be
handled are `event` and `special`), `"accept"` in the edge-triggered accept
loop, `"write"` in a `write()` that does not return, `"spin"` and `"flag"` in
the two waits of `dealwith_read` and `dealwith_write` in reactor mode, `"done"`
after `stop_server`, `"aborted"` when `append()` throws.  A batch is handled in
any order.  Each worker has `wpc` and `task`.  A slot keeps the members that
decide who acts next; a socket keeps whether it is open, what epoll waits for,
whether it has data or a hang-up, and whether its send buffer is full.  Two
fields of a slot are observations: `iov`, how the last EAGAIN left the iovec of
the unsent reply, and `refused`, that `append_p()` turned the connection away.

| Action | Code |
|---|---|
| `EpollWait` | `epoll_wait` and the branch order of `eventLoop` (a hang-up hides the data) |
| `DealClientLT`, `DealClientET`, `AcceptLoop` | `dealclientdata` in both trigger modes, with `timer()` and `http_conn::init` in `Admit` |
| `HandleSignal`, `TimerHandler` | `dealwithsignal`; `timer_handler`, `tick`, `cb_func`, `alarm` |
| `HandleHup` | the `EPOLLRDHUP` branch |
| `HandleReadProactor`, `HandleWriteProactor` | `dealwith_read` with the result of `append_p()` ignored, `dealwith_write`, proactor |
| `EndlessWrite` | the main thread in a `write()` whose loop is not left |
| `Delegate`, `SpinEnds`, `ReadTimerFlag` | the same, reactor: `append`, the spin on `improv`, the look at `timer_flag` |
| `Take`, `WorkerRead`, `WorkerWrite`, `WorkerFlag` | `threadpool::run` |
| `NoRequest`, `Reply`, `Rearm` | `http_conn::process` |
| `ReplyFails`, `CloseConn` | `process_write()` fails: `close_conn()` closes the descriptor, and in a second step, when `accept()` may have used it again, sets `m_sockfd` and counts |
| `Connect`, `Send`, `Drain`, `HangUp`, `Elapse`, `Terminate` | clients, time, SIGTERM |

`read_once` and `write` are their sets of outcomes (`ReadTrue`, `ReadFalse`,
`WriteOutcomes`).  A `write()` with a used-up iovec and bytes left to send loops
on `writev` returning 0 (`Spins`): it has no outcome as long as its socket is
open.  What EAGAIN makes of the iovec, which leads there, is `MovedOn`.
`process()` chooses between an incomplete request and a reply.  That
`process_write` fails is possible only for a slot with two earlier replies since
`init()` (`CannotReply`): the parser answers the first header line of every
request with BAD_REQUEST (`http_conn.cpp:363` assigns where it should compare),
so `do_request` and a full write buffer are reached only by further calls on the
same slot; `Earned` of `HttpParse` is that fact.  In proactor mode the reply is
written, and the slot initialised, before that.

Abstractions in `WebServer`: the queue is one step per append or pop, the timer
list is a map from timers to time slots left; both are modelled in detail in
their own modules.  An access to one of the shared ints (`improv`,
`timer_flag`, `m_user_count`) is atomic, as in the unoptimised build the
CMakeLists asks for; the order of accesses by different threads is free.
The signal pipe is a set (a second SIGALRM before the pipe is read changes
nothing).  `epoll_wait` returns all ready descriptors (`MAX_EVENT_NUMBER` is
10000).

**`Connection`** is the ownership protocol one connection promises: closed,
or refused by a full queue; armed in epoll, in the main thread's hands, queued,
in a worker's hands.
`WebServerConnection` computes the owner of each descriptor from the variables
of `WebServer` and states `ConnSpec`: every step of the server is a step of the
protocol or leaves all owners alone.

**`TimerList`** follows `sort_timer_list` pointer by pointer: `AddTimer`,
`InsertAfter`, `AdjustTimer`, `DelTimer`, `TickList` map a list to a list and
have the code's branches; the actions are the calls `webserver.cpp` makes.
Traversals are recursive functions over the number of steps, at most one for
each timer.  Its initial states, steps and specification are `TimerInit`,
`TimerNext` and `TimerSpec`, so that `Containers_proofs` can extend it together
with `BlockQueue`.  **`TimerSet`** is what the loop relies on: a set of timers with
deadlines of which a tick takes exactly those that are due.

**`ThreadPool`** has one step for each section under `m_queuelocker` and one for
each semaphore call; `Interrupt` is a `wait()` that a signal ends.  The list
under the mutex is a sequence.
**`BlockQueue`** has `m_array`, `m_front`, `m_back`, `m_size` and the sleepers of
`m_cond`.  **`BoundedQueue`** is the queue it implements.

**`ConnectionPool`** separates the unlocked test of the list (`Look`), `wait()`,
the locked pop, the locked release and `post()`.  `front()` of an empty list is
undefined in C++: such a thread is `"undefined"` and takes no further step.
A `wait()` that a signal ends is an action of its own, `Interrupt`, which no
fairness forces.  `interrupts` counts those waits; it is an observation.

**`Log`** splits `write_log` where another thread can act: `gettimeofday`,
`localtime` (one static buffer, `tm`), the copy of it, the counting section,
the formatting section, `full()`, `push()`, the section with `fputs`.  The
flush thread pops and writes in two steps.  A null `m_fp` that is closed or
written to ends the process (`Dies`).  What `init()` was given is the variable
`option`, which no step changes: so one run covers an asynchronous log, one
without a flush thread, and files that fail to open.  The queue is the sequence
`BlockQueue` shows it to be.

**`HttpParse`** is the read side of a slot, over tokens: CR, LF, a blank, and the
words the parser compares with.

| Definition | Code |
|---|---|
| `ReadOnce`, `ReadFails` | `read_once`, level- and edge-triggered, the full buffer included |
| `LineStop`, `parse_line`, `LineText` | `parse_line`, `get_line` |
| `PathsIn`, `Page` | `parse_request_line` (`strpbrk`, `strspn`, the scheme, the inverted test of the version) |
| `KeepAlive`, `HasLength`, `LengthOf` | `parsr_headers` |
| `RequestLine`, `Header`, `Content`, `NoRequest` | a round of the loop in `process_read` for each check state, and its end |
| `do_request` | `do_request`: the alias pages and what `stat()` finds |
| `Kept`, `Closed`, `Missed` | what becomes of the slot when the reply is out: `init()`, or the failed write that `WS_short` shows to be overlooked |

`process_read()` has no `return` after its loop.  The model takes what the Debug
build does (0, which is NO_REQUEST).  `rounds` counts the rounds of the call
that runs; it is an observation, which makes a loop without end a state that
can be seen.

**`HttpReply`** is the write side.  A byte is named for the reply, the piece and
the place in it that it comes from, so that what the peer receives can be
compared with what it was promised.

| Definition | Code |
|---|---|
| `Fits`, `add_response`, `add_headers`, `Headed` | `add_response` (`vsnprintf` against the room left), `add_headers`, and the ignored results |
| `TextReply`, `FileReply`, `Fails` | the branches of `process_write`, with `mmap` of `do_request` |
| `Stat` | `stat()` in `do_request`, which overwrites `m_file_stat` also for a file that is then refused |
| `Process` | the end of `process()` |
| `Writable`, `Writev`, `Eagain`, `WriteFails` | `write()`: the empty reply, one `writev` each, EAGAIN with the iovec moved on, other errors; `newadd` is the local of that name |
| `init`, `unmap` | what they do to this part of the slot; `munmap` with the `st_size` of the moment |
| `Accept`, `Close`, `Missed`, `HangUp`, `Drain` | the owner of the slot, the timer, and the peer that reads |

`smooth` is an observation: it becomes FALSE where the code does something it is
not made for (a header cut by `writev`, a short `writev` that is not followed by
EAGAIN, a slot that goes on without `init()`); section 5 says what happens then.
So are `extent`, the length of the mapping that `m_file_address` points to,
`maps`, the number of mappings the slot has made and that still exist, and
`cutoffs`, the connections cut off while they were sent a file.  Which verdict a
request gets is open in `HttpReply` and decided in `HttpParse`.

The `MC...` modules add symmetry sets and the instances that are too long for a
cfg: the token streams of `MCHttpParse`, the options of `MCLog`, the sizes of
pieces of `MCHttpReply`.  An operator that is called like another one with a
suffix (`modfd_omitted` before `modfd`) is a plausible mistake in that piece of
code, used to see that a property notices it.

The `..._proofs` modules extend the module they are about (section 6);
**`SharedLemmas`** has what several of them need: a set of natural numbers has a
least one, induction over an interval with a set in place of the predicate, and
queues without duplicates.

## 4. Runs

| Run | What it asks | Instance |
|---|---|---|
| `WS_proactor` | `OneOwner`, `NoneStranded`, `OneTimer`, `ShortClosed` | 3 descriptors, 2 workers, 2 timers, at most 2 users and 3 clients, queue of 1, edge-triggered connections |
| `WS_live_proactor` | `ConnSpec`, `BacklogNoticed`, `IdleClosed`, `RefusedClosed`, `Served` | 2 descriptors, 1 worker, 2 users, queue of 1, edge-triggered listening |
| `WS_reactor` | `TimerSafe`, `Handshake`, `NeverAborts`, `UserCount`, `MainReturns`, `StopHonoured` | 1 descriptor, 1 worker, 2 timers, queue of 1, SIGTERM, tasks may outlast timers |
| `WS_short` | violated: `ShortClosed` | reactor, 2 workers |
| `TL_list` | `WellLinked`, `SetSpec` | 4 timers, lifetime 2, time to 5 |
| `TP_pool` | `OnePlace`, `Awake`, `QueuedIsRun` | 4 requests, 3 workers, queue of 2 |
| `BQ_queue` | `NoSleeper`, `PushedIsPopped`, `QueueSpec` | 4 items, 3 consumers, 3 cells |
| `CP_pool` | `Exclusive`, `Covered`, `OnlyInterrupted`, `WaitersServed` | 4 threads, 2 connections, 2 interrupts |
| `LG_files` | `FileBounded`, `WrittenOnce`, `FileNamed`, `InOrder` | 2 threads, files of 2 lines; 3 lines each with a queue of 1 or none, 2 lines each with a queue of 2, a midnight and files that fail to open |
| `HP_lines` | `EveryLine`, `Remembered`, `Earned`, `RoundsBounded`, `Returns` | whole requests with up to two headers and a body, refused ones, and all mixtures of up to 4 CR, LF and words; buffer of 18 tokens; both trigger modes |
| `HP_get` | violated: `GetAnswered` | one GET with one header |
| `HR_write` | `Delivered`, `Complete`, `Released`, `Finished` | 2 replies on a connection, buffer of 14 bytes, header of 5, file of 4 or none, socket of 7, one connection cut off while it is sent a file |

No run checks a type invariant: types are proved instead, as `TypeCorrect` of
`WebServer_proofs` and as part of the inductive invariants of section 6.

What they show:

- In proactor mode, as long as a task ends before the timer of its connection,
  one-shot registration does what it is there for: a connection is never in two
  hands, has exactly one timer, and is in nobody's hands only when `append_p`
  refused it, which nobody looks at; then its timer closes it.  The server
  implements `Connection`.
- In both modes the main thread never follows `users_timer[fd].timer` to a freed
  timer, although it is never reset, and although a worker's `close_conn` and a
  late task break other agreements.  Nor does it ever count more connections
  than there are, although two kinds of thread count down, some connections
  twice: it would turn clients away for ever.
- The main thread comes back to `epoll_wait`, SIGTERM ends the loop, and silent
  connections are closed, unless a `write()` never returns: that is the one way
  to stop the server.
- In reactor mode the main thread always waits for exactly one request, and the
  queue never holds more than one, so `append()` cannot throw and one queue
  place is enough.  The price is finding `WS_short`.
- `block_queue` is first-in first-out with its capacity; on it and in the worker
  pool whoever has something to pop is awake, in spite of interrupted and
  spurious wake-ups.
- The MySQL pool pops from an empty list only if a signal interrupted a wait,
  and no more often than that; connections stay exclusive even then, and
  through `DestroyPool`.
- The log writes each line at most once, overruns a file by no more than what
  was under way, and only a line that found the queue full overtakes another.
- However a request is cut up on its way, the parser takes each line once and
  skips none, remembers exactly what the lines since `init()` said, and always
  returns, after no more rounds than the bytes allow.  But by finding `HP_get`
  it answers the first header line of every request with a 400; `do_request` is
  reached only by a slot that should have been closed twice.
- A reply reaches the peer byte by byte in order while the header is not cut;
  the text of a 400 never goes out without its headers although all results on
  the way are ignored; a mapping is lost only with a connection that is cut off
  while it is sent a file.

Bounds and why they are enough.  `MaxClients` bounds the clients present at one
time and `MaxDrift` stops new ones once the count has drifted below it (in
reactor mode it can for ever); descriptors and timers are reused, so histories
are unbounded.  Two connections are enough for a batch with two entries, two
events for a queue of one, and a descriptor reused while the other lives; the
user limit and a third client make the busy branch happen.  The code's limits
have the same order: `max_requests` is 10000 and `MAX_FD` 65536, so the request
queue can be full.  In reactor mode the main thread handles one request at a
time, and one descriptor with two timers gives stale answers, stale timers and
descriptor reuse; the proofs lift the safety properties to any number of
descriptors, workers and timers.  `Lifetime` is 1, in `WS_short` 2: a timer is
running or due; that a tick takes only the due ones of many is `TimerList`'s
matter.  In `WS_live_proactor` one worker is enough to have the queue full while
a second connection is read.  Four timers make every branch of the list (head,
middle, tail, only node) happen.  Queues are small enough to be full, circular
arrays small enough to wrap.  Log calls and days are bounded by `Calls` and
`LastDay`: enough lines to fill more files than the bound of `FileBounded`
allows for, and one midnight. The read buffer is shorter than the longest
requests, so that it fills; the mixtures of CR, LF and words hold every way to
end or not to end two lines. The write buffer has room for one reply and not for
two, the socket for a header and part of a file; `MaxReplies` bounds the replies
of one connection and `MaxCutoffs` the mappings that may be lost.

Symmetry is used in runs without liveness only.  Deadlock is checked except
where the system really stops: a log whose threads have made their calls, a
MySQL pool whose threads are all undefined, a slot whose client has nothing more
to send or whose replies are used up.  `WebServer` does not deadlock even when
the loop has ended, because clients and time go on.

Fairness.  The main thread, every worker and every consumer that is not asleep
are scheduled weakly fairly (pthreads under Linux; each has one step to take at
a time).  A call of `process_read()` that was entered runs on (`HttpParse`), and
a `write()` that epoll asked for is made (`HttpReply`); there the peer reads
what it is sent, without which no reply need ever end.  Nothing else forces a
client, a signal, an interrupted wait or a spurious wake-up.  Time passes; where
a run assumes that tasks end before their timers (`Stalls` FALSE), `Elapse` is
strongly fair, which says only that time is not held up by one short task after
another.  `Served` leaves out a peer that goes on for ever taking its reply bit
by bit: every such write adjusts the timer.  No thread is assumed to come back
from a `write()` that loops (its action is not enabled): the liveness properties
of the server say `Stuck \/ ...`, where `Stuck` is that from some time on there
is always a thread in such a `write()` on an open connection (`WriteLoops`).  In
proactor mode the main thread itself is then in `EndlessWrite`, in reactor mode
it spins for the worker.

## 5. Disagreements with the code's own words

`WS_short`: a worker sets `improv` before `timer_flag` (`threadpool.h:157-158` and `169-170`),
and the main thread that sees the first may miss the second; a short connection
whose reply was sent, or one whose read failed, then stays open, although
`note/http.md:101` says that a short connection is closed at once.

`HP_get`: `if(ret=BAD_REQUEST)` (`http_conn.cpp:363`) assigns.  The comment two
lines below says that a GET which has been parsed is answered.

Changing one constant or one assumption shows more of this kind; they bound what
the passing runs claim.  In the server:

- `OneOwner` with `Stalls` TRUE: `tick()` closes a connection that is queued or
  in a worker's hands, and its descriptor is reused under the worker.
- `append_p` returns false when the queue is full and `dealwith_read` does not
  look: that connection is in nobody's hands, whatever its peer sends, until its
  timer fires.  `NoneStranded` and `RefusedClosed` say this and no more.
- In reactor mode a worker's `close_conn` leaves the timer, which closes the
  connection again or the next one with that descriptor: `OneTimer` fails, and
  `m_user_count` drifts down, so that more than `MAX_FD` users may be let in.
  `UserCount` says that it does not drift up.
- `close_conn` closes the descriptor before it sets `m_sockfd = -1`
  (`http_conn.cpp:77-78`); when `accept()` returns the same descriptor in
  between, the new connection's slot loses its `m_sockfd`, and nothing but its
  timer reaches it.
- `MainReturns` and `StopHonoured` without `Stuck`: the `write()` that loops (see
  below) takes the main thread with it, in either mode.
- The busy branch of the edge-triggered accept loop leaves it with clients in
  the backlog and no edge to come (`webserver.cpp:229-233`); `BacklogNoticed` is
  checked below the user limit.
- `GetConnection` returns NULL when the list is empty although the notes say
  that it waits; with more threads than connections callers get NULL.
- If the wall clock is set back the timer list is no longer sorted.
- `block_queue::front()` reads the cell popped last; nobody calls it.

In the log:

- `full()` and `push()` are two sections and nobody looks at what `push()`
  returns: a line that finds the queue full in between is lost.
- A thread held up over midnight takes the log back to the day before, and
  `FileBounded` holds only within a day.

In the parser:

- The comparison of the version is the wrong way round: HTTP/1.1 is refused and
  every other version accepted.
- A body is measured from `m_checked_idx`, which later calls move on while they
  look for a line; a body that arrives in pieces may be waited for too long.
- `init()` drops whatever else had been read: of pipelined requests only the
  first is seen.
- A connection whose failed write was missed (`WS_short`) goes on with the parser
  in the middle of the old request.

In the reply:

- After EAGAIN within the header the iovec goes on at `m_write_buf +
  bytes_to_send` instead of `m_write_buf + bytes_have_send`, and on the next
  round `write()` may loop without an end, `writev` having nothing to send; also
  after a second reply of a slot, whose `bytes_have_send` is the first one's.
- A short `writev` that is not followed by EAGAIN (the peer took bytes in
  between) sends the same bytes again: only the EAGAIN branch moves the iovec.
- `m_write_idx` is reset by `init()` only: a missed short connection's next reply
  has the earlier one before it.
- An empty file (its branch has no `break`) and a missing one (`NO_RESOURCE` has
  no branch) close the connection without a reply.
- A 403 goes out with status 500 and a 404 with status 400; the text of a 403 and
  of a 500 is the name of the variable that holds it.
- A connection that is cut off while its file is mapped leaves the mapping to the
  slot; if the slot's next reply is a file, that mapping is never undone, and
  if `m_file_stat` is another file's by then, `munmap` may leave part of it.

## 6. Proofs

All theorems are `Spec => []P` or `Spec => AbstractSpec`, for all values of the
constants that satisfy the assumptions named in the modules (finite sets of
descriptors, threads and timers, the extra values no members, positive sizes,
streams that are sequences of tokens), unless more is assumed below.

| Module | Theorems | Assumed besides |
|---|---|---|
| `WebServer_proofs` | `TypeCorrect`, `TimersSafe`, `HandshakeHolds`, `AppendNeverThrows`, `UserCountHolds` | - (both actor models, all trigger modes, stalling or not) |
| the same | `OneOwnerHolds`, `NoneStrandedHolds`, `OneTimerHolds`, `ShortClosedHolds`, `ServerIsConnection`, `BacklogNoticedHolds` | proactor; tasks end before timers; for `BacklogNoticedHolds`: no more clients than `MaxUsers` and descriptors (`Welcome`) |
| `ThreadPool_proofs` | `TypeCorrect`, `OnePlaceHolds`, `AwakeHolds` | - |
| `ConnectionPool_proofs` | `ExclusiveHolds`, `CoveredHolds`, `OnlyInterruptedHolds` | - |
| `Containers_proofs` | `NoSleeperHolds`, `ArrayIsQueue` (`BlockQueue`); `WellLinkedHolds`, `ListIsSet` (`TimerList`) | - |
| `Log_proofs` | `FileNamedHolds`, `FileBoundedHolds`, `WrittenOnceHolds`, `InOrderHolds` | - |
| `HttpReply_proofs` | `ReleasedHolds`, `DeliveredHolds`, `CompleteHolds` | for `DeliveredHolds`: the status line and the headers fit into an empty `m_write_buf` (`Ample`) |
| `HttpParse_proofs` | `EveryLineHolds`, `RememberedHolds`, `EarnedHolds`, `RoundsBoundedHolds` | - |

**`WebServer`, both actor models.** `TimerSafe` alone is not inductive: what the
main thread may do next depends on the entries of the batch, and a worker may
close what an entry names.  The inductive invariant is `IInv == TypeOK /\ Places
/\ TimerSafe`.  `Places` ties the program counters to the data: a worker holds a
descriptor exactly when it is not idle, the main thread has one exactly in
`"write"`, `"spin"` and `"flag"`, and the entry of that one is in the batch in
the first and no longer in the others.  With it a step either leaves the timers
and opens no descriptor (all of the workers', the environment's and most of the
main thread's: lemma `TimerSafeKept`), or is `Admit`, `DealTimer` or
`TimerHandler`.  `Admit` takes a timer that nobody uses and sets
`users_timer[f]`; the other two free exactly the timers of descriptors they
close and whose entry of the batch is consumed.  It is needed there that two
descriptors in use have two timers, which follows from `TimerSafe` itself:
`user[timer[f]] = f`.

The handshake is proved as `HInv == Handshake /\ NeverAborts`, inductive given
`IInv` before and after the step.  `Handshake` is stated in three phases so that
it is: while the main thread spins its request is the only thing in the queue,
or the only one a worker runs, or answered, and between requests nothing is
queued, nothing is running and no `improv` is set.
Each action moves from one phase to the next (`Delegate`, `Take`, `WorkerRead`
or `WorkerWrite`, `SpinEnds`, `ReadTimerFlag`) or leaves the phase alone.
`NeverAborts` follows, because `Delegate` finds the queue empty and the capacity
is positive.

`UserCount` is inductive once a worker's `close_conn` is counted in two parts:
the connection is no longer open after the first and subtracted by the second,
in between the worker is at `"close"`.  Every step subtracts at least what it
closes (`CountStep`): `TimerHandler` closes no more descriptors than there are
timers due, and fewer when two of them name the same.

**The proactor.**  `OneOwner` is the statement that the four ways to reach a
connection exclude each other.  It is not inductive: that `modfd` does not arm a
closed descriptor needs that tasks end before timers, that a worker's
`close_conn` is never reached needs that no reply was built since `init()`.
`PInv == Plain /\ Sole /\ Safe /\ Once /\ Unreplied /\ OneTimer /\ Counted /\
Unheld`, on top of `IInv`, is: `Plain`, the parts of the code that belong to the
reactor are not reached; `Sole`, of the four things that lead a thread to `f`
there is the one that belongs to `owner[f]` and no other; `Safe`, a held
connection is open and the timer of one that is queued or being worked on has
time left; `Once`, it is queued once and by one worker; `Unreplied`, what is on
its way to `process()` has no reply since `init()`; `Counted`, the count is
exact; `Unheld`, of the open connections nobody holds those that were refused.
Each action moves one descriptor along an arrow of `Connection` and leaves the
owners of all others alone, which gives `ServerIsConnection` from the same case
analysis.  `NoneStranded` follows from `Sole` and `Unheld`: that a refused
connection is not armed, queued or reported, and so stays refused until it is
closed, is what `Sole` says of `"nobody"`.  `BacklogNoticed` needs that the
accept loop is never left with somebody in the backlog: the clients that wait
and those that are counted are together no more than `MaxClients`, so while one
waits `accept()` neither fails nor is the server busy.

**The pools.**  `OnePlace` is proved request by request (`Placed`), with the
queue free of duplicates.  `Awake` and `Covered` are inductive equations between
a semaphore, a queue length and the number of threads at one step of the code;
each step moves one unit from one term to another, an interrupted wait takes one
from the semaphore's side.  `Exclusive` needs that what the list holds is not
closed (`Owned`).

**`block_queue`.**  The invariant is that the `m_size` cells after `m_front`
hold the abstract queue (`Joined`, `Stored`).  All index arithmetic is reduced to
remainders below three times the divisor (`Round`), where it is linear.

**The timer list.**  `WellLinked` does not say enough to show what a tick takes.
The invariant is `Holds(lst, expire, heap)`: there is a numbering `s[1]` to
`s[n]` of the live timers without repetition (`Order`, `Members`) such that
`head`, `tail` and all links are what it says (`Links`), the deadlines grow along
it (`Sorted`), and a timer that is not allocated has no links (`Loose`).  The
code is compared with two operations on the numbering, a timer put in and a
timer taken out: `Inserted` covers the four cases of `add_timer` (empty list,
before the head, within, after the tail), `Unlinked` those of `del_timer`;
`Adjusted` is one after the other, and needs that `adjust_timer` only moves a
timer back in the list, for which `TimerInv` adds that no deadline is later than
one set now.  `Ticked` takes off the first timers of the numbering: those are
the due ones because it is sorted.  `WellLinked` and `SetSpec` follow, the second
with the set of live timers and their deadlines as mapping.  Traversals are
recursive functions over the number of steps; that such a function exists
(`WalkDef`), and that the walk from `s[k]` meets `s[k + i]` after `i` steps
(`Walked`), is shown without an induction theorem, from the least number at
which it fails.

**`Log`.**  `Order` says that the lines of one thread are ordered along the path
file, hand, queue, but for those put in directly; `WrittenOnce` and `InOrder`
follow from it.  For `FileBounded` a line that is counted and not yet put is
added to the lines of the file that is open (`Filled`): the sum is at most what
was counted since it was opened and what was under way then, and `fputs` moves
one from one side to the other.

**`HttpReply`.**  `Released` needs `Framed` (while a reply is sent there is
something left of it and the second vector is the mapped file, and `newadd` is
the place in it once something was sent) and `Mapped` (the mapping that is sent
from is as long as `st_size` says, so that `unmap` undoes it, and there are no
more mappings than that one and those that were lost).  `Delivered` is
proved from `DInv`: what was received is a prefix of what was promised, what is
left is what `bytes_to_send` says, and the vectors describe just that.
`Complete` needs `Numbered`: no piece of a reply that is not yet counted is in
the buffer of a slot in use.

**`HttpParse`.**  The properties compare a scanner that remembers how far it got
with lines defined over the whole buffer.  `ParsedLine` relates the two for one
call of `parse_line`: what is complete is the next line, and its text is what
`get_line` gives; otherwise no line is left.  It needs `Scanned` (the line being
received starts where a line ends, and what was looked at of it holds no CR or
LF), and that a stray CR or LF, which ends all lines, is never passed.
`BufferGrown` says that what `read_once` appends moves no line and changes none,
wherever it was cut.  `ParseInv` is then `Scanned`, `Counted` (the number of
lines taken is that of the replies, and one for the request line) and
`Remembered` while no body is awaited, and `Answered` always: a slot that awaits
a body has taken the blank line of an accepted request and made two replies, the
first to the header that announced the body, the second to that line.  `EveryLine` and `Earned`
follow.  `RoundsBounded` is inductive once the first look at a body, which passes
no line, is accounted for beforehand (`RoundsInv`).

Every invariant and every refinement that a passing run checks is stated by a
theorem above.  Only model-checked are the liveness properties: `IdleClosed`,
`RefusedClosed`, `Served`, `MainReturns`, `StopHonoured`, `QueuedIsRun`,
`PushedIsPopped`, `WaitersServed`, `Returns` and `Finished`.  They rest on
fairness and ENABLED, which the prover does not handle.  For `Returns` its
safety part is proved: `RoundsBounded`.

## 7. Not modelled

- `initMySQL_result`: runs once before the workers exist.
- Start-up (`Config`, `main`, socket set-up): it leaves the initial state.
- The locks: their meaning is in the modules that use them.
- Of the parser: the lengths of words, the zero bytes it writes (one of them
  possibly past the buffer, `http_conn.cpp:319`), a negative Content-length, an
  absolute URL without a path, and versions of another length than HTTP/1.1.
- Of the reply: its wording, an `mmap` that fails for a file that is not empty, and what
  else a `munmap` with a greater length than the mapping's takes with it.
- The text of log lines, the log's directory, an uninitialised log (the macros
  ignore `m_close_log`, so a closed log still calls `fclose` on a null `m_fp`).
- A full signal pipe, which would lose an alarm, and a process that exits while
  detached workers still use `users[]`.
- Torn or lost updates of the shared ints.
- `root/`: static pages.
