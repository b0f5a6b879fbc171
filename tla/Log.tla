--------------------------------- MODULE Log ---------------------------------
(***************************************************************************)
(* log.cpp: write_log() called by the threads of the server, and, when the *)
(* log is asynchronous, the thread that takes lines from m_log_queue.  The *)
(* queue is used through what BlockQueue shows it to be.  A section under   *)
(* m_mutex is one step; write_log() has three, with unlocked steps before, *)
(* between and after them.  Of a time only its day is kept.                *)
(***************************************************************************)
EXTENDS Integers, Sequences, FiniteSets

CONSTANTS Thread,   \* threads that call write_log()
          Options,  \* what init() may be given, and the bounds that go with it
          NULL,
          Nobody    \* the flush thread has no line in hand

ASSUME ThreadAssumption == IsFiniteSet(Thread)
ASSUME NobodyAssumption == Nobody \notin Thread \X Nat
ASSUME NullAssumption == NULL \notin [day : Nat, suffix : Nat]

(* OpenFails: fopen() may fail.  Bounds: each thread makes Calls calls of  *)
(* write_log(), and the clock's days are 0 .. LastDay.                     *)
ASSUME OptionsAssumption ==
    Options \subseteq [m_is_async : BOOLEAN, max_queue_size : Nat \ {0},
                       m_max_lines : Nat \ {0}, OpenFails : BOOLEAN,
                       Calls : Nat, LastDay : Nat]

VARIABLES option,       \* the member of Options init() was given
          day,          \* what gettimeofday() says
          tm,           \* localtime()'s static buffer
          pc, calls,    \* per thread: where in write_log(), which call
          now, my_tm,   \* per thread: its now_time, its copy of the buffer; 0
                        \* when it is not read again
          m_today, m_count, m_fp,
          m_log_queue,
          single_log,   \* the line the flush thread has popped
          written,      \* the lines put in files, in the order of fputs(),
                        \* and whether the line's own thread put it there
          crashed       \* a null m_fp was closed or written to

timeVars == <<tm, now, my_tm>>
fileVars == <<m_today, m_count, m_fp>>
vars == <<option, day, tm, pc, calls, now, my_tm, m_today, m_count, m_fp,
          m_log_queue, single_log, written, crashed>>

m_is_async == option.m_is_async
max_queue_size == option.max_queue_size
m_max_lines == option.m_max_lines

\* What fopen() may return: nobody looks whether it is NULL.
fopen(file) == {file} \cup (IF option.OpenFails THEN {NULL} ELSE {})

(* init(): today's file is open, nothing is counted.                       *)
Init ==
    /\ option \in Options
    /\ day = 0 /\ tm = 0
    /\ pc = [t \in Thread |-> "idle"] /\ calls = [t \in Thread |-> 0]
    /\ now = [t \in Thread |-> 0] /\ my_tm = [t \in Thread |-> 0]
    /\ m_today = 0 /\ m_count = 0
    /\ m_fp \in fopen([day |-> 0, suffix |-> 0])
    /\ m_log_queue = <<>> /\ single_log = Nobody /\ written = <<>>
    /\ crashed = FALSE

Go(t, from, to) == pc[t] = from /\ pc' = [pc EXCEPT ![t] = to]
line(t) == <<t, calls[t]>>

-----------------------------------------------------------------------------
(* write_log() *)

\* gettimeofday()
GetTime(t) ==
    /\ Go(t, "idle", "localtime") /\ calls[t] < option.Calls
    /\ calls' = [calls EXCEPT ![t] = @ + 1]
    /\ now' = [now EXCEPT ![t] = day]
    /\ UNCHANGED <<day, tm, my_tm, fileVars, m_log_queue, single_log, written>>

(* localtime() fills the one buffer all threads share ...                  *)
LocalTime(t) ==
    /\ Go(t, "localtime", "copy")
    /\ tm' = now[t] /\ now' = [now EXCEPT ![t] = 0]
    /\ UNCHANGED <<day, calls, my_tm, fileVars, m_log_queue, single_log,
                   written>>

(* ... and the thread copies what is in it by then.                        *)
Copy(t) ==
    /\ Go(t, "copy", "count")
    /\ my_tm' = [my_tm EXCEPT ![t] = tm]
    /\ UNCHANGED <<day, tm, calls, now, fileVars, m_log_queue, single_log,
                   written>>

\* Mutant: a file is never full.
FileFull_never == FALSE

FileFull == (m_count + 1) % m_max_lines = 0

\* Mutant: the count goes on.
NewDay_counting(t) ==
    /\ m_today # my_tm[t] /\ m_fp # NULL
    /\ m_today' = my_tm[t]
    /\ m_count' = m_count + 1
    /\ m_fp' \in fopen([day |-> my_tm[t], suffix |-> 0])

(* Section one: the line is counted, and a new day or a full file closes   *)
(* the file and opens another.                                             *)
NewDay(t) ==
    /\ m_today # my_tm[t] /\ m_fp # NULL
    /\ m_today' = my_tm[t]
    /\ m_count' = 0
    /\ m_fp' \in fopen([day |-> my_tm[t], suffix |-> 0])

NextFile(t) ==
    /\ m_today = my_tm[t] /\ FileFull /\ m_fp # NULL
    /\ m_count' = m_count + 1
    /\ m_fp' \in fopen([day |-> my_tm[t], suffix |-> m_count' \div m_max_lines])
    /\ UNCHANGED m_today

SameFile(t) ==
    /\ m_today = my_tm[t] /\ ~FileFull
    /\ m_count' = m_count + 1
    /\ UNCHANGED <<m_today, m_fp>>

Count(t) ==
    /\ Go(t, "count", "format")
    /\ NewDay(t) \/ NextFile(t) \/ SameFile(t)
    /\ my_tm' = [my_tm EXCEPT ![t] = 0]
    /\ UNCHANGED <<day, tm, now, calls, m_log_queue, single_log, written>>

\* Section two: the line is put together in m_buf and copied to log_str.
Format(t) ==
    /\ Go(t, "format", IF m_is_async THEN "full" ELSE "put")
    /\ UNCHANGED <<day, timeVars, calls, fileVars, m_log_queue, single_log,
                   written>>

room == Len(m_log_queue) < max_queue_size

\* m_log_queue->full()
Full(t) ==
    /\ Go(t, "full", IF room THEN "push" ELSE "put")
    /\ UNCHANGED <<day, timeVars, calls, fileVars, m_log_queue, single_log,
                   written>>

\* Mutant: at the wrong end.
PushLine_front(t) == room /\ m_log_queue' = <<line(t)>> \o m_log_queue

PushLine(t) == room /\ m_log_queue' = Append(m_log_queue, line(t))

(* m_log_queue->push(): may find the queue full after all, and then the    *)
(* line is gone, for nobody looks at what push() returns.                  *)
Push(t) ==
    /\ Go(t, "push", "idle")
    /\ \/ PushLine(t)
       \/ ~room /\ UNCHANGED m_log_queue
    /\ UNCHANGED <<day, timeVars, calls, fileVars, single_log, written>>

fputs(l, direct) ==
    /\ m_fp # NULL
    /\ written' = Append(written,
                         [line |-> l, file |-> m_fp, direct |-> direct])

(* Section three, when the line is not queued: fputs().                    *)
Put(t) ==
    /\ Go(t, "put", "idle")
    /\ fputs(line(t), TRUE)
    /\ UNCHANGED <<day, timeVars, calls, fileVars, m_log_queue, single_log>>

WriteLog(t) ==
    \/ GetTime(t) \/ LocalTime(t) \/ Copy(t) \/ Count(t) \/ Format(t)
    \/ Full(t) \/ Push(t) \/ Put(t)

-----------------------------------------------------------------------------
(* async_write_log(), and the clock *)

PopLog ==
    /\ single_log = Nobody /\ m_log_queue # <<>>
    /\ single_log' = Head(m_log_queue) /\ m_log_queue' = Tail(m_log_queue)
    /\ UNCHANGED <<day, timeVars, pc, calls, fileVars, written>>

\* Mutant: the line stays in hand.
PutLog_again ==
    /\ single_log # Nobody
    /\ fputs(single_log, FALSE)
    /\ UNCHANGED <<day, timeVars, pc, calls, fileVars, m_log_queue, single_log>>

PutLog ==
    /\ single_log # Nobody
    /\ fputs(single_log, FALSE)
    /\ single_log' = Nobody
    /\ UNCHANGED <<day, timeVars, pc, calls, fileVars, m_log_queue>>

Midnight ==
    /\ day < option.LastDay
    /\ day' = day + 1
    /\ UNCHANGED <<timeVars, pc, calls, fileVars, m_log_queue, single_log,
                   written>>

(* fclose() or fputs() is given a null m_fp: the process dies.             *)
Dies ==
    /\ m_fp = NULL /\ crashed' = TRUE
    /\ UNCHANGED <<day, timeVars, pc, calls, fileVars, m_log_queue, single_log,
                   written>>

Crash(t) ==
    /\ Dies
    /\ \/ pc[t] = "put"
       \/ pc[t] = "count" /\ (m_today # my_tm[t] \/ FileFull)

CrashFlush == Dies /\ single_log # Nobody

Flush ==
    /\ ~crashed
    /\ \/ (PopLog \/ PutLog) /\ UNCHANGED crashed
       \/ CrashFlush

Next ==
    /\ \/ Flush
       \/ /\ ~crashed
          /\ \/ Midnight /\ UNCHANGED crashed
             \/ \E t \in Thread : \/ WriteLog(t) /\ UNCHANGED crashed
                                  \/ Crash(t)
    /\ UNCHANGED option

Spec == Init /\ [][Next]_vars

-----------------------------------------------------------------------------
(* Correctness *)

(* The file that is open is named for m_today and for the number of full   *)
(* files counted, however stale the day a thread brought.                  *)
FileNamed ==
    m_fp # NULL => m_fp = [day |-> m_today, suffix |-> m_count \div m_max_lines]

(* Within one day a file gets more lines than m_max_lines by no more than  *)
(* were under way when it was opened: in the queue, in the flush thread's  *)
(* hand and in the other threads'.                                         *)
LinesIn(file) == Cardinality({i \in 1 .. Len(written) : written[i].file = file})

FileBounded ==
    day = 0 => \A i \in 1 .. Len(written) :
        LinesIn(written[i].file) <= m_max_lines + Cardinality(Thread)
                                    + (IF m_is_async THEN max_queue_size ELSE 0)

(* A line is in one place: a file gets it once, and not while it is still  *)
(* in the queue or in the flush thread's hand.                             *)
Pending == {m_log_queue[i] : i \in 1 .. Len(m_log_queue)}
           \cup ({single_log} \ {Nobody})
InFiles == {written[i].line : i \in 1 .. Len(written)}

WrittenOnce ==
    /\ \A i, j \in 1 .. Len(written) : written[i].line = written[j].line => i = j
    /\ Pending \cap InFiles = {}

(* The lines of one thread stand in the files in the order it wrote them,  *)
(* but for the one way the code allows: a line that found the queue full   *)
(* and was put in the file directly may overtake lines that were queued.   *)
InOrder ==
    \A i, j \in 1 .. Len(written) :
        LET a == written[i]
            b == written[j]
        IN  (i < j /\ a.line[1] = b.line[1] /\ a.line[2] > b.line[2])
            => a.direct /\ ~b.direct

=============================================================================
