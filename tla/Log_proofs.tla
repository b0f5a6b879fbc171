------------------------------ MODULE Log_proofs ------------------------------
(***************************************************************************)
(* Theorems about Log: for any threads, lines, days and options, the log   *)
(* being asynchronous or not and fopen() failing or not.                   *)
(***************************************************************************)
EXTENDS Log, SequenceTheorems, FiniteSetTheorems, TLAPS

-----------------------------------------------------------------------------
(* Types *)

Line == Thread \X Nat
File == [day : Nat, suffix : Nat]
Entry == [line : Line, file : File, direct : BOOLEAN]

Steps == {"idle", "localtime", "copy", "count", "format", "full", "push", "put"}

TypeOK ==
    /\ option \in Options
    /\ day \in Nat /\ tm \in Nat
    /\ pc \in [Thread -> Steps] /\ calls \in [Thread -> Nat]
    /\ now \in [Thread -> Nat] /\ my_tm \in [Thread -> Nat]
    /\ m_today \in Nat /\ m_count \in Nat /\ m_fp \in File \cup {NULL}
    /\ m_log_queue \in Seq(Line) /\ single_log \in Line \cup {Nobody}
    /\ written \in Seq(Entry)

(* The number of a file changes only when FileFull says so.                *)
LEMMA Division ==
  ASSUME NEW n \in Nat, NEW m \in Nat \ {0}
  PROVE  /\ n \div m \in Nat /\ 0 \div m = 0
         /\ (n + 1) % m # 0 => (n + 1) \div m = n \div m
<1>1. n \div m \in Nat /\ 0 \div m = 0
  BY SMT
<1>2. ASSUME (n + 1) % m # 0 PROVE (n + 1) \div m = n \div m
  BY <1>2, SMT
<1> QED
  BY <1>1, <1>2

(* fopen() returns that file or NULL.                                      *)
LEMMA Opened ==
  ASSUME NEW file \in File, NEW fp \in fopen(file)
  PROVE  fp \in File \cup {NULL} /\ (fp # NULL => fp = file)
  BY DEF fopen

LEMMA TypeInit == Init => TypeOK
<1> SUFFICES ASSUME Init PROVE TypeOK
  OBVIOUS
<1>1. m_fp \in File \cup {NULL}
  BY Opened DEF Init, File
<1>2. <<>> \in Seq(Line) /\ <<>> \in Seq(Entry)
  BY EmptySeq
<1> QED
  BY <1>1, <1>2 DEF Init, TypeOK, Steps

(* fputs() adds one entry for a line that is one.                          *)
LEMMA PutEntry ==
  ASSUME TypeOK, NEW l \in Line, NEW d \in BOOLEAN, fputs(l, d)
  PROVE  /\ m_fp \in File /\ written' \in Seq(Entry)
         /\ Len(written') = Len(written) + 1 /\ Len(written) \in Nat
         /\ written'[Len(written) + 1] = [line |-> l, file |-> m_fp, direct |-> d]
         /\ \A i \in 1 .. Len(written) : written'[i] = written[i]
<1> DEFINE e == [line |-> l, file |-> m_fp, direct |-> d]
<1>1. m_fp \in File /\ e \in Entry /\ written \in Seq(Entry)
  BY DEF TypeOK, fputs, Entry
<1>2. written' = Append(written, e)
  BY DEF fputs
<1> HIDE DEF e
<1>3. /\ Append(written, e) \in Seq(Entry) /\ Len(written) \in Nat
      /\ Len(Append(written, e)) = Len(written) + 1
      /\ Append(written, e)[Len(written) + 1] = e
      /\ \A i \in 1 .. Len(written) : Append(written, e)[i] = written[i]
  BY <1>1, AppendProperties, LenProperties
<1> QED
  BY <1>1, <1>2, <1>3 DEF e

(* PushLine() adds the line at the end.                                    *)
LEMMA PushEntry ==
  ASSUME TypeOK, NEW t \in Thread, PushLine(t)
  PROVE  /\ line(t) \in Line /\ m_log_queue' \in Seq(Line)
         /\ Len(m_log_queue') = Len(m_log_queue) + 1 /\ Len(m_log_queue) \in Nat
         /\ m_log_queue'[Len(m_log_queue) + 1] = line(t)
         /\ \A i \in 1 .. Len(m_log_queue) : m_log_queue'[i] = m_log_queue[i]
<1>1. line(t) \in Line /\ m_log_queue \in Seq(Line)
  BY DEF TypeOK, line, Line
<1>2. m_log_queue' = Append(m_log_queue, line(t))
  BY DEF PushLine
<1> QED
  BY <1>1, <1>2, AppendProperties, LenProperties

(* PopLog takes the first line and moves the others up.                    *)
LEMMA PopEntry ==
  ASSUME TypeOK, PopLog
  PROVE  /\ single_log' = m_log_queue[1] /\ single_log' \in Line
         /\ m_log_queue' \in Seq(Line) /\ 1 \in 1 .. Len(m_log_queue)
         /\ Len(m_log_queue') = Len(m_log_queue) - 1 /\ Len(m_log_queue) \in Nat
         /\ \A i \in 1 .. Len(m_log_queue) - 1 : m_log_queue'[i] = m_log_queue[i + 1]
<1>1. m_log_queue \in Seq(Line) /\ m_log_queue # <<>>
  BY DEF TypeOK, PopLog
<1>2. /\ m_log_queue' = Tail(m_log_queue) /\ single_log' = Head(m_log_queue)
  BY DEF PopLog
<1>3. /\ Len(m_log_queue) \in Nat \ {0} /\ Head(m_log_queue) = m_log_queue[1]
  BY <1>1, EmptySeq
<1>4. /\ Tail(m_log_queue) \in Seq(Line) /\ Head(m_log_queue) \in Line
      /\ Len(Tail(m_log_queue)) = Len(m_log_queue) - 1
      /\ \A i \in 1 .. Len(m_log_queue) - 1 :
            Tail(m_log_queue)[i] = m_log_queue[i + 1]
  BY <1>1, HeadTailProperties
<1> QED
  BY <1>2, <1>3, <1>4

LEMMA TypeStep == TypeOK /\ [Next]_vars => TypeOK'
<1> SUFFICES ASSUME TypeOK, [Next]_vars PROVE TypeOK'
  OBVIOUS
<1> USE DEF TypeOK
<1>1. ASSUME NEW t \in Thread, UNCHANGED option,
             GetTime(t) \/ LocalTime(t) \/ Copy(t) \/ Format(t) \/ Full(t)
      PROVE  TypeOK'
  <2>1. CASE GetTime(t)
    BY <1>1, <2>1 DEF GetTime, Go, Steps, fileVars
  <2>2. CASE LocalTime(t)
    BY <1>1, <2>2 DEF LocalTime, Go, Steps, fileVars
  <2>3. CASE Copy(t)
    BY <1>1, <2>3 DEF Copy, Go, Steps, fileVars
  <2>4. CASE Format(t)
    BY <1>1, <2>4 DEF Format, Go, Steps, fileVars, timeVars
  <2>5. CASE Full(t)
    BY <1>1, <2>5 DEF Full, Go, Steps, fileVars, timeVars
  <2> QED
    BY <1>1, <2>1, <2>2, <2>3, <2>4, <2>5
<1>2. ASSUME NEW t \in Thread, UNCHANGED option, Count(t) PROVE TypeOK'
  <2>1. m_max_lines \in Nat \ {0}
    BY OptionsAssumption DEF m_max_lines
  <2>2. m_today' \in Nat /\ m_count' \in Nat /\ m_fp' \in File \cup {NULL}
    <3>1. CASE NewDay(t)
      <4>1. [day |-> my_tm[t], suffix |-> 0] \in File
        BY DEF File
      <4> QED
        BY <3>1, <4>1, Opened DEF NewDay
    <3>2. CASE NextFile(t)
      <4>1. m_count' = m_count + 1 /\ m_today' = m_today
        BY <3>2 DEF NextFile
      <4>2. m_count' \div m_max_lines \in Nat
        <5>1. m_count' \in Nat
          BY <4>1
        <5> HIDE DEF TypeOK
        <5> QED
          BY <2>1, <5>1, Division, Zenon
      <4>3. [day |-> my_tm[t], suffix |-> m_count' \div m_max_lines] \in File
        BY <4>2 DEF File
      <4>4. m_fp' \in fopen([day |-> my_tm[t], suffix |-> m_count' \div m_max_lines])
        BY <3>2 DEF NextFile
      <4> QED
        BY <4>1, <4>3, <4>4, Opened
    <3>3. CASE SameFile(t)
      BY <3>3 DEF SameFile
    <3> QED
      BY <1>2, <3>1, <3>2, <3>3 DEF Count
  <2> QED
    BY <1>2, <2>2 DEF Count, Go, Steps
<1>3. ASSUME NEW t \in Thread, UNCHANGED option, Push(t) PROVE TypeOK'
  <2>1. m_log_queue' \in Seq(Line)
    BY <1>3, PushEntry DEF Push
  <2> QED
    BY <1>3, <2>1 DEF Push, Go, Steps, fileVars, timeVars
<1>4. ASSUME NEW t \in Thread, UNCHANGED option, Put(t) PROVE TypeOK'
  <2>1. line(t) \in Line
    BY DEF line, Line
  <2>2. written' \in Seq(Entry)
    BY <1>4, <2>1, PutEntry DEF Put
  <2> QED
    BY <1>4, <2>2 DEF Put, Go, Steps, fileVars, timeVars
<1>5. CASE PopLog /\ UNCHANGED option
  <2>1. single_log' \in Line /\ m_log_queue' \in Seq(Line)
    BY <1>5, PopEntry
  <2> QED
    BY <1>5, <2>1 DEF PopLog, fileVars, timeVars
<1>6. CASE PutLog /\ UNCHANGED option
  <2>1. written' \in Seq(Entry)
    BY <1>6, PutEntry DEF PutLog
  <2> QED
    BY <1>6, <2>1 DEF PutLog, fileVars, timeVars
<1>7. CASE Midnight /\ UNCHANGED option
  BY <1>7 DEF Midnight, fileVars, timeVars
<1>8. CASE Dies /\ UNCHANGED option
  BY <1>8 DEF Dies, fileVars, timeVars
<1>9. CASE UNCHANGED vars
  BY <1>9 DEF vars
<1> QED
  BY <1>1, <1>2, <1>3, <1>4, <1>5, <1>6, <1>7, <1>8, <1>9
  DEF Next, Flush, WriteLog, Crash, CrashFlush

-----------------------------------------------------------------------------
(* FileNamed *)

(* write_log() opens files by the day a thread brought and by m_count:     *)
(* the one that is open always fits m_today and m_count (log.cpp).         *)
THEOREM FileNamedHolds == Spec => []FileNamed
<1>1. Init => TypeOK /\ FileNamed
  <2> SUFFICES ASSUME Init PROVE FileNamed
    BY TypeInit
  <2>1. m_max_lines \in Nat \ {0}
    BY OptionsAssumption DEF m_max_lines, Init
  <2>2. 0 \div m_max_lines = 0
    BY <2>1, Division, Zenon
  <2> QED
    BY <2>2 DEF Init, FileNamed, fopen
<1>2. TypeOK /\ FileNamed /\ [Next]_vars => FileNamed'
  <2> SUFFICES ASSUME TypeOK, FileNamed, [Next]_vars PROVE FileNamed'
    OBVIOUS
  <2>1. /\ m_max_lines \in Nat \ {0} /\ m_max_lines' = m_max_lines
        /\ m_count \in Nat
    BY OptionsAssumption DEF TypeOK, m_max_lines, Next, vars
  <2> HIDE DEF m_max_lines
  <2>2. ASSUME NEW t \in Thread, NewDay(t) PROVE FileNamed'
    <3>1. 0 \div m_max_lines = 0
      BY <2>1, Division, Zenon
    <3> QED
      BY <2>1, <2>2, <3>1 DEF NewDay, FileNamed, fopen
  <2>3. ASSUME NEW t \in Thread, NextFile(t) PROVE FileNamed'
    BY <2>1, <2>3 DEF NextFile, FileNamed, fopen
  <2>4. ASSUME NEW t \in Thread, SameFile(t) PROVE FileNamed'
    <3>1. m_count' = m_count + 1 /\ UNCHANGED <<m_today, m_fp>>
          /\ (m_count + 1) % m_max_lines # 0
      BY <2>4 DEF SameFile, FileFull
    <3>2. m_count' \div m_max_lines = m_count \div m_max_lines
      BY <2>1, <3>1, Division
    <3> QED
      BY <2>1, <3>1, <3>2 DEF FileNamed
  <2>5. CASE UNCHANGED fileVars
    BY <2>1, <2>5 DEF FileNamed, fileVars
  <2>6. \/ UNCHANGED fileVars
        \/ \E t \in Thread : NewDay(t) \/ NextFile(t) \/ SameFile(t)
    BY DEF Next, vars, Flush, PopLog, PutLog, CrashFlush, Crash, Dies, Midnight,
           WriteLog, GetTime, LocalTime, Copy, Count, Format, Full, Push, Put,
           fileVars
  <2> QED
    BY <2>2, <2>3, <2>4, <2>5, <2>6
<1> QED
  BY <1>1, <1>2, TypeStep, PTL DEF Spec

-----------------------------------------------------------------------------
(* The order of lines *)

(* The calls of a thread whose line has left its hand.                     *)
finished(t) == IF pc[t] = "idle" THEN calls[t] ELSE calls[t] - 1

Old(l) == l[2] <= finished(l[1])

(* Old(l)', written so that l may be the line of a primed variable.        *)
finishedNext(t) == IF pc'[t] = "idle" THEN calls'[t] ELSE calls'[t] - 1
OldNext(l) == l[2] <= finishedNext(l[1])
Before(k, l) == k[1] = l[1] => k[2] < l[2]
NotAfter(k, l) == k[1] = l[1] => ~(k[2] > l[2])

(* What the files may already hold when a line is still to come.           *)
Ahead(e, l) == e.line[1] = l[1] => /\ e.line[2] # l[2]
                                   /\ e.line[2] > l[2] => e.direct

(* Every line that has left its thread is of a finished call; the queue    *)
(* is in the order of the calls; and so are the flush thread's line and    *)
(* the files, but for lines put there directly.                            *)
QueueOrder ==
    /\ \A i \in 1 .. Len(m_log_queue) : Old(m_log_queue[i])
    /\ \A i, j \in 1 .. Len(m_log_queue) :
          i < j => Before(m_log_queue[i], m_log_queue[j])

HandOrder ==
    single_log # Nobody =>
        /\ Old(single_log)
        /\ \A i \in 1 .. Len(m_log_queue) : Before(single_log, m_log_queue[i])
        /\ \A i \in 1 .. Len(written) : Ahead(written[i], single_log)

FileOrder ==
    /\ \A i \in 1 .. Len(written) : Old(written[i].line)
    /\ \A i \in 1 .. Len(written), j \in 1 .. Len(m_log_queue) :
          Ahead(written[i], m_log_queue[j])
    /\ \A i, j \in 1 .. Len(written) :
          i < j => /\ Ahead(written[i], written[j].line)
                   /\ written[i].line[1] = written[j].line[1]
                        => (written[i].line[2] > written[j].line[2]
                              => ~written[j].direct)

Order == QueueOrder /\ HandOrder /\ FileOrder

LEMMA OrderInit == Init => Order
<1> SUFFICES ASSUME Init PROVE Order
  OBVIOUS
<1>1. 1 .. Len(m_log_queue) = {} /\ 1 .. Len(written) = {}
  BY DEF Init
<1> QED
  BY <1>1 DEF Init, Order, QueueOrder, HandOrder, FileOrder

(* Steps that move no line: no call becomes unfinished again.              *)
LEMMA OrderKept ==
  ASSUME TypeOK, TypeOK', Order, UNCHANGED <<m_log_queue, single_log, written>>,
         \A t \in Thread : finished(t)' >= finished(t)
  PROVE  Order'
<1>1. ASSUME NEW l \in Line, Old(l) PROVE Old(l)'
  <2>1. l[1] \in Thread /\ l[2] \in Nat
    BY DEF Line
  <2>2. finished(l[1]) \in Int /\ finished(l[1])' >= finished(l[1])
    BY <2>1 DEF TypeOK, finished
  <2>3. finished(l[1])' \in Int
    BY <2>1 DEF TypeOK, finished
  <2> QED
    BY <1>1, <2>1, <2>2, <2>3 DEF Old
<1>2. \A i \in 1 .. Len(m_log_queue) : m_log_queue[i] \in Line
  BY DEF TypeOK
<1>3. ASSUME NEW i \in 1 .. Len(written) PROVE written[i].line \in Line
  <2>1. written[i] \in Entry
    BY DEF TypeOK
  <2> QED
    BY <2>1 DEF Entry
<1>4. single_log # Nobody => single_log \in Line
  BY DEF TypeOK
<1>5. QueueOrder'
  BY <1>1, <1>2 DEF Order, QueueOrder, Before
<1>6. HandOrder'
  BY <1>1, <1>4 DEF Order, HandOrder, Before, Ahead
<1>7. FileOrder'
  BY <1>1, <1>3 DEF Order, FileOrder, Ahead
<1> QED
  BY <1>5, <1>6, <1>7 DEF Order

(* Steps that move a line take it where Order wants it.                    *)
LEMMA OrderPopped == TypeOK /\ Order /\ PopLog => Order'
<1> SUFFICES ASSUME TypeOK, Order, PopLog PROVE Order'
  OBVIOUS
<1> DEFINE n == Len(m_log_queue)
<1>1. /\ single_log' = m_log_queue[1] /\ 1 \in 1 .. n /\ n \in Nat
      /\ Len(m_log_queue') = n - 1
      /\ \A i \in 1 .. n - 1 : m_log_queue'[i] = m_log_queue[i + 1]
  BY PopEntry
<1>2. \A i \in 1 .. n - 1 : i + 1 \in 1 .. n
  BY <1>1
<1>3. UNCHANGED <<pc, calls, written>>
  BY DEF PopLog
<1> HIDE DEF n
<1>4. /\ \A i \in 1 .. n : Old(m_log_queue[i])
      /\ \A i, j \in 1 .. n : i < j => Before(m_log_queue[i], m_log_queue[j])
      /\ \A i \in 1 .. Len(written), j \in 1 .. n : Ahead(written[i], m_log_queue[j])
  BY DEF Order, QueueOrder, FileOrder, n
<1>5. QueueOrder'
  <2>1. ASSUME NEW i \in 1 .. n - 1 PROVE m_log_queue'[i][2] <= finished(m_log_queue'[i][1])
    BY <1>1, <1>2, <1>4 DEF Old
  <2>2. ASSUME NEW i \in 1 .. n - 1, NEW j \in 1 .. n - 1, i < j
        PROVE  Before(m_log_queue'[i], m_log_queue'[j])
    <3>1. i + 1 \in 1 .. n /\ j + 1 \in 1 .. n /\ i + 1 < j + 1
      BY <1>2, <2>2
    <3>2. Before(m_log_queue[i + 1], m_log_queue[j + 1])
      BY <1>4, <3>1
    <3> QED
      BY <1>1, <3>2
  <2> QED
    BY <1>1, <1>3, <2>1, <2>2 DEF QueueOrder, Old, finished
<1>6. HandOrder'
  <2>1. single_log'[2] <= finished(single_log'[1])
    BY <1>1, <1>4 DEF Old
  <2>2. ASSUME NEW i \in 1 .. n - 1 PROVE Before(single_log', m_log_queue'[i])
    <3>1. i + 1 \in 1 .. n /\ 1 < i + 1
      BY <1>2
    <3>2. Before(m_log_queue[1], m_log_queue[i + 1])
      BY <1>1, <1>4, <3>1
    <3> QED
      BY <1>1, <3>2
  <2>3. ASSUME NEW i \in 1 .. Len(written) PROVE Ahead(written'[i], single_log')
    BY <1>1, <1>3, <1>4
  <2> QED
    BY <1>1, <1>3, <2>1, <2>2, <2>3 DEF HandOrder, Old, finished
<1>7. FileOrder'
  <2>1. ASSUME NEW i \in 1 .. Len(written), NEW j \in 1 .. n - 1
        PROVE  Ahead(written'[i], m_log_queue'[j])
    BY <1>1, <1>2, <1>3, <1>4
  <2> QED
    BY <1>1, <1>3, <2>1 DEF Order, FileOrder, Old, finished
<1> QED
  BY <1>5, <1>6, <1>7 DEF Order

(* A thread's line is younger than every line of its that is on its way.   *)
LEMMA Youngest ==
  ASSUME TypeOK, Order, NEW t \in Thread, pc[t] # "idle"
  PROVE  /\ line(t) \in Line /\ line(t)[1] = t /\ line(t)[2] = calls[t]
         /\ \A i \in 1 .. Len(m_log_queue) : Before(m_log_queue[i], line(t))
         /\ single_log # Nobody => Before(single_log, line(t))
         /\ \A i \in 1 .. Len(written) : Before(written[i].line, line(t))
<1>1. /\ line(t) = <<t, calls[t]>> /\ calls[t] \in Nat
      /\ finished(t) = calls[t] - 1
  BY DEF TypeOK, line, finished
<1>2. ASSUME NEW l \in Line, Old(l) PROVE Before(l, line(t))
  BY <1>1, <1>2 DEF Old, Before, Line
<1>3. ASSUME NEW i \in 1 .. Len(written) PROVE written[i].line \in Line
  <2>1. written[i] \in Entry
    BY DEF TypeOK
  <2> QED
    BY <2>1 DEF Entry
<1>4. /\ \A i \in 1 .. Len(m_log_queue) : m_log_queue[i] \in Line
      /\ single_log # Nobody => single_log \in Line
  BY DEF TypeOK
<1> QED
  BY <1>1, <1>2, <1>3, <1>4 DEF Order, QueueOrder, HandOrder, FileOrder, Line

(* When a thread's call ends its line is old, and old lines stay old.      *)
LEMMA Ages ==
  ASSUME TypeOK, NEW t \in Thread, pc[t] # "idle",
         pc' = [pc EXCEPT ![t] = "idle"], calls' = calls
  PROVE  /\ Old(line(t))'
         /\ \A l \in Line : Old(l) => Old(l)'
<1>1. /\ finished(t)' = calls[t] /\ finished(t) = calls[t] - 1
      /\ \A u \in Thread : u # t => finished(u)' = finished(u)
      /\ calls \in [Thread -> Nat] /\ line(t)' = line(t)
  BY DEF TypeOK, finished, line
<1>2. Old(line(t))'
  BY <1>1 DEF Old, line
<1>3. ASSUME NEW l \in Line, Old(l) PROVE Old(l)'
  <2>1. l[1] \in Thread /\ l[2] \in Nat
    BY DEF Line
  <2>2. CASE l[1] = t
    BY <1>1, <1>3, <2>1, <2>2 DEF Old
  <2>3. CASE l[1] # t
    BY <1>1, <1>3, <2>1, <2>3 DEF Old
  <2> QED
    BY <2>2, <2>3
<1> QED
  BY <1>2, <1>3

LEMMA OrderPushed ==
  ASSUME TypeOK, Order, NEW t \in Thread, Push(t) PROVE Order'
<1> DEFINE n == Len(m_log_queue)
           l == line(t)
<1>1. /\ pc[t] # "idle" /\ pc' = [pc EXCEPT ![t] = "idle"]
      /\ UNCHANGED <<calls, single_log, written>>
  BY DEF Push, Go
<1>2. /\ l \in Line /\ \A i \in 1 .. n : Before(m_log_queue[i], l)
      /\ single_log # Nobody => Before(single_log, l)
      /\ \A i \in 1 .. Len(written) : Before(written[i].line, l)
      /\ l[1] = t /\ l[2] \in Nat
  BY <1>1, Youngest DEF TypeOK
<1>3. \A k \in Line : Old(k) => OldNext(k)
  BY <1>1, Ages DEF Old, finished, OldNext, finishedNext
<1>4. OldNext(l)
  BY <1>1, Ages DEF Old, finished, OldNext, finishedNext, line
<1>5. /\ \A i \in 1 .. n : m_log_queue[i] \in Line
      /\ single_log # Nobody => single_log \in Line
  BY DEF TypeOK
<1>6. ASSUME NEW i \in 1 .. Len(written)
      PROVE  written[i].line \in Line /\ Ahead(written[i], l)
  <2>1. written[i] \in Entry
    BY DEF TypeOK
  <2>2. written[i].line \in Line
    BY <2>1 DEF Entry
  <2> QED
    BY <1>2, <2>2 DEF Before, Ahead, Line
<1>7. \/ UNCHANGED m_log_queue
      \/ /\ Len(m_log_queue') = n + 1 /\ n \in Nat /\ m_log_queue'[n + 1] = l
         /\ \A i \in 1 .. n : m_log_queue'[i] = m_log_queue[i]
  BY PushEntry DEF Push
<1> HIDE DEF n, l
<1>8. CASE UNCHANGED m_log_queue
  BY <1>1, <1>3, <1>5, <1>6, <1>8
  DEF Order, QueueOrder, HandOrder, FileOrder, Old, finished, OldNext, finishedNext, n
<1>9. CASE /\ Len(m_log_queue') = n + 1 /\ n \in Nat /\ m_log_queue'[n + 1] = l
           /\ \A i \in 1 .. n : m_log_queue'[i] = m_log_queue[i]
  <2>1. ASSUME NEW i \in 1 .. n + 1 PROVE i = n + 1 \/ i \in 1 .. n
    BY <1>9
  <2>2. QueueOrder'
    <3>1. ASSUME NEW i \in 1 .. n + 1
          PROVE  OldNext(m_log_queue'[i])
      BY <1>3, <1>4, <1>5, <1>9, <2>1 DEF Order, QueueOrder, n
    <3>2. ASSUME NEW i \in 1 .. n + 1, NEW j \in 1 .. n + 1, i < j
          PROVE  Before(m_log_queue'[i], m_log_queue'[j])
      <4>1. i \in 1 .. n
        BY <1>9, <3>2
      <4>2. CASE j = n + 1
        BY <1>2, <1>9, <4>1, <4>2
      <4>3. CASE j \in 1 .. n
        BY <1>9, <3>2, <4>1, <4>3 DEF Order, QueueOrder, n
      <4> QED
        BY <4>2, <4>3, <2>1
    <3> QED
      BY <1>9, <3>1, <3>2 DEF QueueOrder, Old, finished, OldNext, finishedNext
  <2>3. HandOrder'
    <3> SUFFICES ASSUME single_log # Nobody PROVE HandOrder'
      BY <1>1 DEF HandOrder
    <3>1. OldNext(single_log)
      BY <1>3, <1>5 DEF Order, HandOrder
    <3>2. ASSUME NEW i \in 1 .. n + 1 PROVE Before(single_log, m_log_queue'[i])
      BY <1>2, <1>9, <2>1 DEF Order, HandOrder, n
    <3> QED
      BY <1>1, <1>9, <3>1, <3>2 DEF Order, HandOrder, Old, finished, OldNext,
                                      finishedNext
  <2>4. FileOrder'
    <3>1. ASSUME NEW i \in 1 .. Len(written)
          PROVE  OldNext(written[i].line)
      BY <1>3, <1>6 DEF Order, FileOrder
    <3>2. ASSUME NEW i \in 1 .. Len(written), NEW j \in 1 .. n + 1
          PROVE  Ahead(written[i], m_log_queue'[j])
      BY <1>6, <1>9, <2>1 DEF Order, FileOrder, n
    <3> QED
      BY <1>1, <1>9, <3>1, <3>2 DEF Order, FileOrder, Old, finished, OldNext,
                                      finishedNext
  <2> QED
    BY <2>2, <2>3, <2>4 DEF Order
<1> QED
  BY <1>7, <1>8, <1>9

(* fputs() of line l, which no line in a file comes after, but for those   *)
(* put there directly, and which every pending line comes after.           *)
LEMMA FilePut ==
  ASSUME TypeOK, FileOrder, NEW l \in Line, NEW d \in BOOLEAN, fputs(l, d),
         UNCHANGED m_log_queue,
         \A i \in 1 .. Len(written) :
            /\ Ahead(written[i], l)
            /\ d => NotAfter(written[i].line, l),
         \A i \in 1 .. Len(m_log_queue) :
            Ahead([line |-> l, file |-> m_fp, direct |-> d], m_log_queue[i]),
         OldNext(l),
         \A k \in Line : Old(k) => OldNext(k)
  PROVE  FileOrder'
<1> DEFINE n == Len(written)
           e == [line |-> l, file |-> m_fp, direct |-> d]
<1>1. /\ Len(written') = n + 1 /\ n \in Nat /\ written'[n + 1] = e
      /\ \A i \in 1 .. n : written'[i] = written[i]
  BY PutEntry
<1>2. e.line = l /\ e.direct = d
  OBVIOUS
<1>3. ASSUME NEW i \in 1 .. n PROVE written[i].line \in Line
  <2>1. written[i] \in Entry
    BY DEF TypeOK
  <2> QED
    BY <2>1 DEF Entry
<1> HIDE DEF n, e
<1>4. ASSUME NEW i \in 1 .. n + 1 PROVE i = n + 1 \/ i \in 1 .. n
  BY <1>1
<1>5. ASSUME NEW i \in 1 .. n + 1
      PROVE  OldNext(written'[i].line)
  BY <1>1, <1>2, <1>3, <1>4 DEF FileOrder, n
<1>6. ASSUME NEW i \in 1 .. n + 1, NEW j \in 1 .. Len(m_log_queue)
      PROVE  Ahead(written'[i], m_log_queue[j])
  BY <1>1, <1>4 DEF FileOrder, n, e
<1>7. ASSUME NEW i \in 1 .. n + 1, NEW j \in 1 .. n + 1, i < j
      PROVE  /\ Ahead(written'[i], written'[j].line)
             /\ (/\ written'[i].line[1] = written'[j].line[1]
                 /\ written'[i].line[2] > written'[j].line[2])
                 => ~written'[j].direct
  <2>1. i \in 1 .. n
    BY <1>1, <1>7
  <2>2. CASE j \in 1 .. n
    BY <1>1, <1>7, <2>1, <2>2 DEF FileOrder, n
  <2>3. CASE j = n + 1
    <3>1. /\ written'[i] = written[i] /\ written'[j] = e
      BY <1>1, <2>1, <2>3 DEF n
    <3>2. Ahead(written[i], l) /\ (d => NotAfter(written[i].line, l))
      BY <2>1, Zenon DEF n
    <3>3. Ahead(written'[i], written'[j].line)
      BY <1>2, <3>1, <3>2, Zenon
    <3>4. CASE d = TRUE
      BY <1>2, <3>1, <3>2, <3>4, Zenon DEF NotAfter
    <3>5. CASE d = FALSE
      BY <1>2, <3>1, <3>3, <3>5, Zenon
    <3> QED
      BY <3>3, <3>4, <3>5, Zenon
  <2> QED
    BY <1>4, <2>2, <2>3
<1> QED
  BY <1>1, <1>5, <1>6, <1>7 DEF FileOrder, Old, finished, OldNext, finishedNext

(* The thread's own line, put there directly.                              *)
LEMMA OrderPut ==
  ASSUME TypeOK, Order, NEW t \in Thread, Put(t) PROVE Order'
<1> DEFINE l == line(t)
<1>1. /\ pc[t] # "idle" /\ pc' = [pc EXCEPT ![t] = "idle"]
      /\ UNCHANGED <<calls, m_log_queue, single_log>> /\ fputs(l, TRUE)
  BY DEF Put, Go
<1>2. /\ l \in Line /\ \A i \in 1 .. Len(m_log_queue) : Before(m_log_queue[i], l)
      /\ single_log # Nobody => Before(single_log, l)
      /\ \A i \in 1 .. Len(written) : Before(written[i].line, l)
      /\ l[2] \in Nat
  BY <1>1, Youngest DEF TypeOK
<1>3. \A k \in Line : Old(k) => OldNext(k)
  BY <1>1, Ages DEF Old, finished, OldNext, finishedNext
<1>4. OldNext(l)
  BY <1>1, Ages DEF Old, finished, OldNext, finishedNext, line
<1> HIDE DEF l
<1>5. /\ \A i \in 1 .. Len(m_log_queue) : m_log_queue[i] \in Line
      /\ single_log # Nobody => single_log \in Line
  BY DEF TypeOK
<1>6. ASSUME NEW i \in 1 .. Len(written)
      PROVE  Ahead(written[i], l) /\ NotAfter(written[i].line, l)
  <2>1. written[i] \in Entry
    BY DEF TypeOK
  <2>2. written[i].line \in Line
    BY <2>1 DEF Entry
  <2> QED
    BY <1>2, <2>2 DEF Before, NotAfter, Ahead, Line
<1>7. ASSUME NEW k \in Line, Before(k, l)
      PROVE  Ahead([line |-> l, file |-> m_fp, direct |-> TRUE], k)
  BY <1>2, <1>7 DEF Before, Ahead, Line
<1>8. FileOrder'
  <2>1. FileOrder /\ TRUE \in BOOLEAN
    BY DEF Order
  <2>2. \A i \in 1 .. Len(m_log_queue) :
           Ahead([line |-> l, file |-> m_fp, direct |-> TRUE], m_log_queue[i])
    BY <1>2, <1>5, <1>7
  <2> QED
    BY <1>1, <1>2, <1>3, <1>4, <1>6, <2>1, <2>2, FilePut
<1>9. QueueOrder'
  BY <1>1, <1>3, <1>5 DEF Order, QueueOrder, Old, finished, OldNext, finishedNext
<1>10. HandOrder'
  <2> SUFFICES ASSUME single_log # Nobody PROVE HandOrder'
    BY <1>1 DEF HandOrder
  <2>1. /\ Len(written') = Len(written) + 1 /\ Len(written) \in Nat
        /\ written'[Len(written) + 1] = [line |-> l, file |-> m_fp, direct |-> TRUE]
        /\ \A i \in 1 .. Len(written) : written'[i] = written[i]
    BY <1>1, <1>2, PutEntry
  <2>2. ASSUME NEW i \in 1 .. Len(written) + 1 PROVE Ahead(written'[i], single_log)
    <3>1. CASE i = Len(written) + 1
      BY <1>2, <1>5, <1>7, <2>1, <3>1
    <3>2. CASE i \in 1 .. Len(written)
      BY <2>1, <3>2 DEF Order, HandOrder
    <3> QED
      BY <2>1, <3>1, <3>2
  <2>3. OldNext(single_log)
    BY <1>3, <1>5 DEF Order, HandOrder
  <2> QED
    BY <1>1, <2>1, <2>2, <2>3
    DEF Order, HandOrder, Old, finished, OldNext, finishedNext
<1> QED
  BY <1>8, <1>9, <1>10 DEF Order

(* The flush thread's line.                                                *)
LEMMA OrderFlushed == TypeOK /\ Order /\ PutLog => Order'
<1> SUFFICES ASSUME TypeOK, Order, PutLog PROVE Order'
  OBVIOUS
<1> DEFINE l == single_log
<1>1. /\ l \in Line /\ l # Nobody /\ single_log' = Nobody /\ fputs(l, FALSE)
      /\ UNCHANGED <<pc, calls, m_log_queue>>
  BY DEF PutLog, TypeOK
<1>2. /\ Old(l) /\ \A i \in 1 .. Len(m_log_queue) : Before(l, m_log_queue[i])
      /\ \A i \in 1 .. Len(written) : Ahead(written[i], l)
  BY <1>1 DEF Order, HandOrder
<1> HIDE DEF l
<1>3. \A k : Old(k) => OldNext(k)
  BY <1>1 DEF Old, finished, OldNext, finishedNext
<1>4. ASSUME NEW i \in 1 .. Len(m_log_queue)
      PROVE  Ahead([line |-> l, file |-> m_fp, direct |-> FALSE], m_log_queue[i])
  <2>1. m_log_queue[i] \in Line
    BY DEF TypeOK
  <2> QED
    BY <1>1, <1>2, <2>1 DEF Before, Ahead, Line
<1>5. FileOrder'
  <2>1. FileOrder /\ FALSE \in BOOLEAN
    BY DEF Order
  <2> QED
    BY <1>1, <1>2, <1>3, <1>4, <2>1, FilePut
<1>6. QueueOrder'
  BY <1>1, <1>3 DEF Order, QueueOrder, Old, finished, OldNext, finishedNext
<1>7. HandOrder'
  BY <1>1 DEF HandOrder
<1> QED
  BY <1>5, <1>6, <1>7 DEF Order

LEMMA OrderStep == TypeOK /\ TypeOK' /\ Order /\ [Next]_vars => Order'
<1> SUFFICES ASSUME TypeOK, TypeOK', Order, [Next]_vars PROVE Order'
  OBVIOUS
<1> USE OrderKept
<1>1. ASSUME NEW t \in Thread,
             GetTime(t) \/ LocalTime(t) \/ Copy(t) \/ Count(t) \/ Format(t) \/ Full(t)
      PROVE  Order'
  <2>1. UNCHANGED <<m_log_queue, single_log, written>>
    BY <1>1 DEF GetTime, LocalTime, Copy, Count, Format, Full
  <2>2. ASSUME NEW u \in Thread PROVE finished(u)' >= finished(u)
    <3>1. CASE GetTime(t)
      BY <3>1 DEF GetTime, Go, TypeOK, finished
    <3>2. CASE LocalTime(t) \/ Copy(t) \/ Count(t)
      BY <3>2 DEF LocalTime, Copy, Count, Go, TypeOK, finished
    <3>3. CASE Format(t) \/ Full(t)
      <4>1. /\ pc[t] # "idle" /\ calls' = calls
            /\ \E to \in Steps \ {"idle"} : pc' = [pc EXCEPT ![t] = to]
        BY <3>3 DEF Format, Full, Go, Steps
      <4>2. pc'[u] = "idle" <=> pc[u] = "idle"
        BY <4>1 DEF TypeOK
      <4>3. finished(u)' = finished(u) /\ finished(u) \in Int
        BY <4>1, <4>2 DEF TypeOK, finished
      <4> QED
        BY <4>3
    <3> QED
      BY <1>1, <3>1, <3>2, <3>3
  <2> QED
    BY <2>1, <2>2
<1>2. CASE Midnight \/ Dies \/ UNCHANGED vars
  <2>1. UNCHANGED <<pc, calls, m_log_queue, single_log, written>>
    BY <1>2 DEF Midnight, Dies, vars
  <2>2. ASSUME NEW u \in Thread PROVE finished(u)' >= finished(u)
    <3>1. finished(u) \in Int /\ finished(u)' = finished(u)
      BY <2>1 DEF finished, TypeOK
    <3> QED
      BY <3>1
  <2> QED
    BY <2>1, <2>2
<1> QED
  BY <1>1, <1>2, OrderPushed, OrderPut, OrderPopped, OrderFlushed
  DEF Next, Flush, WriteLog, Crash, CrashFlush

LEMMA OrderInductive == Spec => [](TypeOK /\ Order)
<1>1. Init => TypeOK /\ Order
  BY TypeInit, OrderInit
<1> QED
  BY <1>1, TypeStep, OrderStep, PTL DEF Spec

(* A line is in the queue, in the flush thread's hand or once in a file,   *)
(* and never in two of these.                                              *)
THEOREM WrittenOnceHolds == Spec => []WrittenOnce
<1>1. TypeOK /\ Order => WrittenOnce
  <2> SUFFICES ASSUME TypeOK, Order PROVE WrittenOnce
    OBVIOUS
  <2>1. ASSUME NEW i \in 1 .. Len(written), NEW j \in 1 .. Len(written), i < j
        PROVE  written[i].line # written[j].line
    BY <2>1 DEF Order, FileOrder, Ahead
  <2>2. \A i, j \in 1 .. Len(written) : written[i].line = written[j].line => i = j
    BY <2>1
  <2>3. ASSUME NEW i \in 1 .. Len(written), NEW j \in 1 .. Len(m_log_queue)
        PROVE  written[i].line # m_log_queue[j]
    BY DEF Order, FileOrder, Ahead
  <2>4. ASSUME NEW i \in 1 .. Len(written), single_log # Nobody
        PROVE  written[i].line # single_log
    BY <2>4 DEF Order, HandOrder, Ahead
  <2> QED
    BY <2>2, <2>3, <2>4 DEF WrittenOnce, Pending, InFiles
<1> QED
  BY <1>1, OrderInductive, PTL

(* The lines of a thread stand in the files in the order of its calls, but *)
(* for those that found the queue full and overtook queued ones.           *)
THEOREM InOrderHolds == Spec => []InOrder
<1>1. TypeOK /\ Order => InOrder
  BY DEF Order, FileOrder, Ahead, InOrder
<1> QED
  BY <1>1, OrderInductive, PTL

-----------------------------------------------------------------------------
(* FileBounded: every line under way adds to the file that is open when it *)
(* arrives, so what is under way counts with what is in that file.         *)

(* Threads whose line is counted and not yet handed on.                    *)
Past == {t \in Thread : pc[t] \in {"format", "full", "push", "put"}}
InHand == IF single_log = Nobody THEN 0 ELSE 1
Flight == Cardinality(Past) + Len(m_log_queue) + InHand

Places == IF m_is_async THEN max_queue_size ELSE 0
Bound == m_max_lines + Cardinality(Thread) + Places

(* The queue holds what it may, and nothing when there is no flush thread. *)
QueueUsed ==
    /\ Len(m_log_queue) <= Places
    /\ ~m_is_async => /\ single_log = Nobody
                      /\ \A t \in Thread : pc[t] \notin {"full", "push"}

(* Until midnight nobody brings another day.                               *)
Today == /\ tm = 0 /\ m_today = 0
         /\ \A t \in Thread : now[t] = 0 /\ my_tm[t] = 0

(* When a file is opened at most Cardinality(Thread) + Slack are under way. *)
Slack == IF m_is_async THEN max_queue_size + 1 ELSE 0
Filled ==
    \A f \in File :
        /\ LinesIn(f) <= Bound
        /\ f.suffix > m_count \div m_max_lines => LinesIn(f) = 0
        /\ f = m_fp => LinesIn(f) + Flight
                       <= (m_count % m_max_lines) + Cardinality(Thread) + Slack

BInv == QueueUsed /\ (day = 0 => Today /\ Filled)

LEMMA Sizes ==
  ASSUME TypeOK
  PROVE  /\ m_max_lines \in Nat \ {0} /\ max_queue_size \in Nat \ {0}
         /\ m_is_async \in BOOLEAN /\ Places \in Nat /\ Slack \in Nat
         /\ Cardinality(Thread) \in Nat /\ Bound \in Nat
         /\ Slack = (IF m_is_async THEN Places + 1 ELSE 0)
<1>1. /\ m_max_lines \in Nat \ {0} /\ max_queue_size \in Nat \ {0}
      /\ m_is_async \in BOOLEAN
  BY OptionsAssumption DEF TypeOK, m_max_lines, max_queue_size, m_is_async
<1>2. Cardinality(Thread) \in Nat
  BY ThreadAssumption, FS_CardinalityType
<1> QED
  BY <1>1, <1>2 DEF Places, Slack, Bound

LEMMA Remainder ==
  ASSUME NEW n \in Nat, NEW m \in Nat \ {0}
  PROVE  /\ n % m \in 0 .. m - 1 /\ 0 % m = 0
         /\ (n + 1) % m # 0 => (n + 1) % m = (n % m) + 1
         /\ (n + 1) % m = 0 => (n + 1) \div m = n \div m + 1
<1>1. n % m \in 0 .. m - 1 /\ 0 % m = 0
  BY SMT
<1> DEFINE q == n \div m
           p == (n + 1) \div m
           r == n % m
           s == (n + 1) % m
<1>2. /\ q \in Nat /\ p \in Nat /\ r \in 0 .. m - 1 /\ s \in 0 .. m - 1
      /\ n = m * q + r /\ n + 1 = m * p + s
  BY SMT
<1> HIDE DEF q, p, r, s
<1>3. m * (p - q) = r + 1 - s
  <2>1. m * p - m * q = r + 1 - s /\ m * (p - q) = m * p - m * q
    BY <1>2
  <2> QED
    BY <2>1
<1>4. PICK d \in Int : d = p - q
  BY <1>2
<1>5. m * d = r + 1 - s
  BY <1>3, <1>4
<1>6. d \in {0, 1}
  <2>1. d >= 2 => m * d >= 2 * m
    BY SMT
  <2>2. d <= -1 => m * d <= -m
    BY SMT
  <2> QED
    BY <1>2, <1>4, <1>5, <2>1, <2>2
<1>7. CASE d = 0
  <2>1. m * d = 0
    BY <1>7
  <2>2. s = r + 1 /\ s # 0
    BY <1>2, <1>5, <2>1
  <2> QED
    BY <1>1, <2>2 DEF r, s
<1>8. CASE d = 1
  <2>1. m * d = m
    BY <1>8
  <2>2. s = 0 /\ p = q + 1
    BY <1>2, <1>4, <1>5, <1>8, <2>1
  <2> QED
    BY <1>1, <2>2 DEF p, q, s
<1> QED
  BY <1>6, <1>7, <1>8

LEMMA PastSize ==
  ASSUME TypeOK
  PROVE  /\ IsFiniteSet(Past) /\ Cardinality(Past) \in Nat
         /\ Cardinality(Past) <= Cardinality(Thread)
         /\ Len(m_log_queue) \in Nat /\ InHand \in {0, 1} /\ Flight \in Nat
<1>1. Past \subseteq Thread
  BY DEF Past
<1>2. /\ IsFiniteSet(Past) /\ Cardinality(Past) \in Nat
      /\ Cardinality(Past) <= Cardinality(Thread)
  BY <1>1, ThreadAssumption, FS_Subset, FS_CardinalityType
<1>3. Len(m_log_queue) \in Nat /\ InHand \in {0, 1}
  BY LenProperties DEF TypeOK, InHand
<1> QED
  BY <1>2, <1>3 DEF Flight

LEMMA PastBounds ==
  TypeOK => /\ Cardinality(Past) <= Cardinality(Thread)
            /\ InHand \in {0, 1} /\ Cardinality(Past) \in Nat
            /\ Len(m_log_queue) \in Nat
  BY PastSize

LEMMA FlightType == TypeOK => Flight \in Nat
  BY PastSize

(* How a thread's step changes the number of those past the count.         *)
LEMMA PastStep ==
  ASSUME TypeOK, TypeOK', NEW t \in Thread, NEW from \in Steps, NEW to \in Steps,
         Go(t, from, to)
  PROVE  LET Late == {"format", "full", "push", "put"}
         IN  /\ from \in Late <=> to \in Late =>
                   Cardinality(Past') = Cardinality(Past)
             /\ from \notin Late /\ to \in Late =>
                   Cardinality(Past') = Cardinality(Past) + 1
             /\ from \in Late /\ to \notin Late =>
                   Cardinality(Past') = Cardinality(Past) - 1
<1> DEFINE Late == {"format", "full", "push", "put"}
<1>1. pc[t] = from /\ pc' = [pc EXCEPT ![t] = to] /\ pc \in [Thread -> Steps]
  BY DEF Go, TypeOK
<1>2. \A u \in Thread : pc'[u] = IF u = t THEN to ELSE pc[u]
  BY <1>1
<1>3. IsFiniteSet(Past) /\ Cardinality(Past) \in Nat
  BY PastSize
<1>4. CASE from \in Late <=> to \in Late
  <2>1. Past' = Past
    BY <1>1, <1>2, <1>4 DEF Past
  <2> QED
    BY <1>4, <2>1
<1>5. CASE from \notin Late /\ to \in Late
  <2>1. Past' = Past \cup {t} /\ t \notin Past
    BY <1>1, <1>2, <1>5 DEF Past
  <2>2. Cardinality(Past \cup {t}) = Cardinality(Past) + 1
    BY <1>3, <2>1, FS_AddElement
  <2> QED
    BY <1>5, <2>1, <2>2
<1>6. CASE from \in Late /\ to \notin Late
  <2>1. Past' = Past \ {t} /\ t \in Past
    BY <1>1, <1>2, <1>6 DEF Past
  <2>2. Cardinality(Past \ {t}) = Cardinality(Past) - 1
    BY <1>3, <2>1, FS_RemoveElement
  <2> QED
    BY <1>6, <2>1, <2>2
<1> QED
  BY <1>4, <1>5, <1>6

LEMMA LinesType ==
  ASSUME TypeOK, NEW f
  PROVE  /\ IsFiniteSet({i \in 1 .. Len(written) : written[i].file = f})
         /\ LinesIn(f) \in Nat
<1>1. Len(written) \in Nat
  BY LenProperties DEF TypeOK
<1>2. IsFiniteSet(1 .. Len(written))
  BY <1>1, FS_Interval
<1> QED
  BY <1>2, FS_Subset, FS_CardinalityType DEF LinesIn

(* fputs() adds a line to the file that is open, and to no other.          *)
LEMMA LinesPut ==
  ASSUME TypeOK, NEW l \in Line, NEW d \in BOOLEAN, fputs(l, d), NEW f \in File
  PROVE  LinesIn(f)' = IF f = m_fp THEN LinesIn(f) + 1 ELSE LinesIn(f)
<1> DEFINE S == {i \in 1 .. Len(written) : written[i].file = f}
           n == Len(written) + 1
<1>1. /\ written'[n].file = m_fp /\ Len(written') = n /\ n \in Nat \ {0}
      /\ \A i \in 1 .. Len(written) : written'[i] = written[i]
  <2>1. /\ Len(written') = n /\ Len(written) \in Nat
        /\ written'[n] = [line |-> l, file |-> m_fp, direct |-> d]
        /\ \A i \in 1 .. Len(written) : written'[i] = written[i]
    BY PutEntry, Zenon
  <2> QED
    BY <2>1
<1>2. IsFiniteSet(S) /\ n \notin S
  <2>1. n \notin 1 .. Len(written)
    BY LenProperties DEF TypeOK
  <2> QED
    BY <2>1, LinesType
<1>3. {i \in 1 .. Len(written') : written'[i].file = f}
      = IF f = m_fp THEN S \cup {n} ELSE S
  <2>1. 1 .. Len(written') = 1 .. Len(written) \cup {n}
    BY <1>1
  <2> QED
    BY <1>1, <2>1
<1>4. Cardinality(S \cup {n}) = Cardinality(S) + 1
  BY <1>2, FS_AddElement
<1> QED
  BY <1>3, <1>4 DEF LinesIn

(* What leaves the files alone and adds nothing to what is under way.      *)
LEMMA FilledKept ==
  ASSUME TypeOK, TypeOK', Filled, UNCHANGED <<option, m_count, m_fp, written>>,
         Flight' <= Flight
  PROVE  Filled'
<1>1. /\ m_max_lines' = m_max_lines /\ Bound' = Bound /\ Slack' = Slack
  BY DEF m_max_lines, Bound, Slack, Places, m_is_async, max_queue_size
<1>2. Flight \in Nat /\ Flight' \in Nat
  <2>1. (Flight \in Nat)'
    BY FlightType, PTL
  <2> QED
    BY <2>1, FlightType
<1>3. \A f \in File : LinesIn(f)' = LinesIn(f) /\ LinesIn(f) \in Nat
  BY LinesType DEF LinesIn
<1>4. m_count % m_max_lines \in Int /\ Slack \in Nat /\ Cardinality(Thread) \in Nat
  <2>1. m_count \in Nat /\ m_max_lines \in Nat \ {0}
    BY Sizes DEF TypeOK
  <2> HIDE DEF m_max_lines
  <2>2. m_count % m_max_lines \in 0 .. m_max_lines - 1
    BY <2>1, Remainder, Zenon
  <2> QED
    BY <2>2, Sizes
<1> QED
  BY <1>1, <1>2, <1>3, <1>4 DEF Filled

(* A line that is put was under way before.                                *)
LEMMA FilledPut ==
  ASSUME TypeOK, TypeOK', Filled, NEW l \in Line, NEW d \in BOOLEAN, fputs(l, d),
         FileNamed, UNCHANGED <<option, fileVars>>, Flight' = Flight - 1
  PROVE  Filled'
<1>1. /\ m_max_lines' = m_max_lines /\ Bound' = Bound /\ Slack' = Slack
      /\ m_count' = m_count /\ m_fp' = m_fp
  BY DEF m_max_lines, Bound, Slack, Places, m_is_async, max_queue_size, fileVars
<1>2. Flight \in Nat /\ Flight' \in Nat
  <2>1. (Flight \in Nat)'
    BY FlightType, PTL
  <2> QED
    BY <2>1, FlightType
<1>3. /\ m_count % m_max_lines \in 0 .. m_max_lines - 1 /\ Slack \in Nat
      /\ Cardinality(Thread) \in Nat /\ m_max_lines \in Nat \ {0}
      /\ m_count \div m_max_lines \in Nat
  <2>1. m_count \in Nat /\ m_max_lines \in Nat \ {0}
    BY Sizes DEF TypeOK
  <2> HIDE DEF m_max_lines
  <2> QED
    BY <2>1, Sizes, Remainder, Division, Zenon
<1>4. ASSUME NEW f \in File
      PROVE  /\ LinesIn(f)' <= Bound
             /\ f.suffix > m_count \div m_max_lines => LinesIn(f)' = 0
             /\ f = m_fp => LinesIn(f)' + Flight'
                            <= (m_count % m_max_lines) + Cardinality(Thread) + Slack
  <2>1. /\ LinesIn(f)' = IF f = m_fp THEN LinesIn(f) + 1 ELSE LinesIn(f)
        /\ LinesIn(f) \in Nat
    BY LinesPut, LinesType
  <2>2. /\ LinesIn(f) <= Bound
        /\ f.suffix > m_count \div m_max_lines => LinesIn(f) = 0
        /\ f = m_fp => LinesIn(f) + Flight
                       <= (m_count % m_max_lines) + Cardinality(Thread) + Slack
    BY DEF Filled
  <2>3. CASE f # m_fp
    BY <2>1, <2>2, <2>3
  <2>4. CASE f = m_fp
    <3>1. LinesIn(f)' + Flight' <= (m_count % m_max_lines) + Cardinality(Thread) + Slack
      BY <1>2, <1>3, <2>1, <2>2, <2>4
    <3>2. LinesIn(f)' <= Bound
      <4>1. Slack <= Places + 1 /\ Places \in Nat
        BY Sizes
      <4> QED
        BY <1>2, <1>3, <2>1, <3>1, <4>1 DEF Bound
    <3>3. ~(f.suffix > m_count \div m_max_lines)
      <4>1. f.suffix = m_count \div m_max_lines
        BY <2>4, NullAssumption DEF FileNamed, File
      <4> HIDE DEF m_max_lines
      <4> QED
        BY <1>3, <4>1
    <3> QED
      BY <3>1, <3>2, <3>3
  <2> QED
    BY <2>3, <2>4
<1> QED
  BY <1>1, <1>4 DEF Filled

LEMMA QueueUsedStep ==
  ASSUME TypeOK, TypeOK', QueueUsed, [Next]_vars PROVE QueueUsed'
<1>1. /\ option' = option /\ m_is_async' = m_is_async /\ Places' = Places
      /\ Places \in Nat /\ m_is_async \in BOOLEAN
      /\ Places = IF m_is_async THEN max_queue_size ELSE 0
      /\ max_queue_size \in Nat
  BY Sizes DEF Next, vars, m_is_async, Places, max_queue_size
<1>2. /\ pc \in [Thread -> Steps] /\ Len(m_log_queue) \in Nat
  BY LenProperties DEF TypeOK
<1> HIDE DEF m_is_async, Places, max_queue_size
<1>3. ASSUME NEW t \in Thread,
             GetTime(t) \/ LocalTime(t) \/ Copy(t) \/ Count(t) \/ Put(t)
      PROVE  QueueUsed'
  <2>1. /\ UNCHANGED <<m_log_queue, single_log>>
        /\ \E to \in {"localtime", "copy", "count", "format", "idle"} :
              pc' = [pc EXCEPT ![t] = to]
    BY <1>3 DEF GetTime, LocalTime, Copy, Count, Put, Go
  <2> QED
    BY <1>1, <1>2, <2>1 DEF QueueUsed
<1>4. ASSUME NEW t \in Thread, Format(t) PROVE QueueUsed'
  BY <1>1, <1>2, <1>4 DEF Format, Go, QueueUsed
<1>5. ASSUME NEW t \in Thread, Full(t) \/ Push(t) PROVE QueueUsed'
  <2>1. m_is_async /\ single_log' = single_log
    BY <1>2, <1>5 DEF Full, Push, Go, QueueUsed
  <2>2. CASE m_log_queue' = m_log_queue
    BY <1>1, <2>1, <2>2 DEF QueueUsed
  <2>3. CASE PushLine(t)
    <3>1. Len(m_log_queue') = Len(m_log_queue) + 1
      BY <2>3, PushEntry
    <3>2. Len(m_log_queue) < max_queue_size
      BY <2>3 DEF PushLine, room
    <3> QED
      BY <1>1, <1>2, <2>1, <3>1, <3>2 DEF QueueUsed
  <2> QED
    BY <1>5, <2>2, <2>3 DEF Full, Push
<1>6. CASE PopLog
  <2>1. Len(m_log_queue') = Len(m_log_queue) - 1 /\ 1 \in 1 .. Len(m_log_queue)
    BY <1>6, PopEntry
  <2>2. pc' = pc /\ m_is_async
    BY <1>1, <1>2, <1>6, <2>1 DEF PopLog, QueueUsed
  <2> QED
    BY <1>1, <1>2, <2>1, <2>2 DEF QueueUsed
<1>7. CASE PutLog
  BY <1>1, <1>7 DEF PutLog, QueueUsed
<1>8. CASE Midnight \/ Dies \/ UNCHANGED vars
  BY <1>1, <1>8 DEF Midnight, Dies, vars, QueueUsed
<1> QED
  BY <1>3, <1>4, <1>5, <1>6, <1>7, <1>8
  DEF Next, Flush, WriteLog, Crash, CrashFlush

(* The line that is counted may be the one that opens the next file.       *)
LEMMA FilledCounted ==
  ASSUME TypeOK, TypeOK', FileNamed, QueueUsed', Today, Filled,
         UNCHANGED option, NEW t \in Thread, Count(t)
  PROVE  Filled'
<1> DEFINE m == m_max_lines
           base == Cardinality(Thread) + Slack
<1>1. /\ m \in Nat \ {0} /\ m_count \in Nat /\ base \in Nat /\ Bound \in Nat
      /\ m' = m /\ Bound' = Bound /\ base' = base
      /\ m_today = my_tm[t]
  BY Sizes DEF TypeOK, Today, m_max_lines, Bound, Slack, Places, m_is_async,
               max_queue_size
<1>2. \A f : LinesIn(f)' = LinesIn(f) /\ LinesIn(f) \in Nat
  BY LinesType DEF Count, LinesIn
<1>3. /\ Flight' = Flight + 1 /\ Flight \in Nat
  <2>1. Cardinality(Past') = Cardinality(Past) + 1
    BY PastStep DEF Count, Steps
  <2>2. Len(m_log_queue') = Len(m_log_queue) /\ InHand' = InHand
    BY DEF Count, InHand
  <2> QED
    BY <2>1, <2>2, PastSize DEF Flight
<1>4. /\ \A f \in File : LinesIn(f) <= Bound
      /\ \A f \in File : f.suffix > m_count \div m => LinesIn(f) = 0
      /\ \A f \in File : f = m_fp => LinesIn(f) + Flight <= (m_count % m) + base
  <2>1. /\ Flight \in Int /\ m_count % m \in Int
        /\ Cardinality(Thread) \in Int /\ Slack \in Int
    BY <1>1, <1>3, Sizes
  <2> QED
    BY <1>2, <2>1 DEF Filled
<1>5. Flight' <= base
  <2>1. /\ (Cardinality(Past) <= Cardinality(Thread))' /\ (InHand \in {0, 1})'
        /\ (Cardinality(Past) \in Nat)' /\ (Len(m_log_queue) \in Nat)'
    BY PastBounds, PTL
  <2>2. /\ Len(m_log_queue') <= Places' /\ (~m_is_async' => single_log' = Nobody)
    BY DEF QueueUsed
  <2>3. /\ Places' = Places /\ m_is_async' = m_is_async
    BY DEF Places, m_is_async, max_queue_size
  <2>4. /\ Slack = (IF m_is_async THEN Places + 1 ELSE 0) /\ Places \in Nat
        /\ Places = (IF m_is_async THEN Places ELSE 0)
        /\ Cardinality(Thread) \in Nat
    BY Sizes DEF Places
  <2> HIDE DEF Places, Slack, m_is_async
  <2>5. ~m_is_async => InHand' = 0
    BY <2>2, <2>3 DEF InHand
  <2>6. Flight' = Cardinality(Past)' + Len(m_log_queue') + InHand'
    BY DEF Flight
  <2> QED
    BY <2>1, <2>2, <2>3, <2>4, <2>5, <2>6
<1> HIDE DEF m, base
<1>6. /\ m_count % m \in 0 .. m - 1 /\ (m_count + 1) % m \in 0 .. m - 1
      /\ (m_count + 1) % m # 0 => /\ (m_count + 1) % m = (m_count % m) + 1
                                  /\ (m_count + 1) \div m = m_count \div m
      /\ (m_count + 1) % m = 0 => (m_count + 1) \div m = m_count \div m + 1
      /\ m_count \div m \in Nat
  <2>1. m_count + 1 \in Nat
    BY <1>1
  <2> QED
    BY <1>1, <2>1, Remainder, Division, Zenon
<1> DEFINE Counted(f) ==
             /\ LinesIn(f)' <= Bound'
             /\ f.suffix > m_count' \div m' => LinesIn(f)' = 0
             /\ f = m_fp' => LinesIn(f)' + Flight' <= (m_count' % m') + base'
<1>7. ASSUME m_count' % m' \in Int, \A f \in File : Counted(f) PROVE Filled'
  <2>1. /\ Cardinality(Thread) \in Int /\ Slack' \in Int
    BY Sizes, <1>1 DEF Slack, m_is_async, max_queue_size
  <2>2. (m_count' % m') + base' = (m_count' % m') + Cardinality(Thread) + Slack'
    BY <1>7, <2>1 DEF base
  <2>3. \A f \in File :
           f = m_fp' => LinesIn(f)' + Flight'
                        <= (m_count' % m') + Cardinality(Thread) + Slack'
    BY <1>7, <2>2
  <2> QED
    BY <1>7, <2>3 DEF Filled, m
<1>8. CASE SameFile(t)
  <2>1. /\ (m_count + 1) % m # 0 /\ m_count' = m_count + 1 /\ m_fp' = m_fp
    BY <1>8 DEF SameFile, FileFull, m
  <2>2. ASSUME NEW f \in File
        PROVE  Counted(f)
    <3>1. LinesIn(f)' = LinesIn(f) /\ LinesIn(f) \in Nat
      BY <1>2
    <3>2. f.suffix > m_count' \div m' => LinesIn(f)' = 0
      BY <1>1, <1>4, <1>6, <2>1, <3>1
    <3>3. f = m_fp' => LinesIn(f)' + Flight' <= (m_count' % m') + base'
      <4>1. f = m_fp => LinesIn(f) + Flight <= (m_count % m) + base
        BY <1>4
      <4>2. m_count' % m' = (m_count % m) + 1 /\ m_count % m \in Int
        BY <1>1, <1>6, <2>1
      <4> QED
        BY <1>1, <1>3, <2>1, <3>1, <4>1, <4>2
    <3> QED
      BY <1>1, <1>4, <3>1, <3>2, <3>3
  <2>3. m_count' % m' \in Int
    BY <1>1, <1>6, <2>1
  <2> QED
    BY <1>7, <2>2, <2>3
<1>9. CASE NextFile(t)
  <2>1. /\ (m_count + 1) % m = 0 /\ m_count' = m_count + 1
        /\ m_fp' \in fopen([day |-> my_tm[t], suffix |-> m_count' \div m])
    BY <1>9 DEF NextFile, FileFull, m
  <2>2. m_count' \div m = m_count \div m + 1
    BY <1>6, <2>1
  <2>3. ASSUME NEW f \in File
        PROVE  Counted(f)
    <3>1. LinesIn(f)' = LinesIn(f) /\ LinesIn(f) \in Nat /\ f.suffix \in Nat
      BY <1>2 DEF File
    <3>2. f.suffix > m_count' \div m' => LinesIn(f)' = 0
      BY <1>1, <1>4, <1>6, <2>2, <3>1
    <3>3. f = m_fp' => LinesIn(f)' + Flight' <= (m_count' % m') + base'
      <4>1. ASSUME f = m_fp' PROVE f.suffix = m_count \div m + 1
        <5>1. f # NULL
          BY NullAssumption DEF File
        <5> QED
          BY <2>1, <2>2, <4>1, <5>1 DEF fopen
      <4>2. ASSUME f = m_fp' PROVE LinesIn(f) = 0
        BY <1>4, <1>6, <4>1, <4>2
      <4>3. m_count' % m' \in Nat
        BY <1>1, <1>6, <2>1
      <4>4. Flight' \in Nat
        BY <1>3
      <4> QED
        BY <1>1, <1>5, <3>1, <4>2, <4>3, <4>4
    <3> QED
      BY <1>1, <1>4, <3>1, <3>2, <3>3
  <2>4. m_count' % m' \in Int
    BY <1>1, <1>6, <2>1
  <2> HIDE DEF Counted
  <2> QED
    BY <1>7, <2>3, <2>4
<1> QED
  BY <1>1, <1>8, <1>9 DEF Count, NewDay

LEMMA FilledStep ==
  ASSUME TypeOK, TypeOK', FileNamed, BInv, QueueUsed', [Next]_vars PROVE BInv'
<1> SUFFICES ASSUME day' = 0 PROVE Today' /\ Filled'
  BY DEF BInv
<1>1. day = 0 /\ Today /\ Filled /\ option' = option
  <2>1. day \in Nat /\ option' = option
    BY DEF TypeOK, Next, vars
  <2>2. CASE Midnight
    BY <2>1, <2>2 DEF Midnight
  <2>3. CASE ~Midnight
    <3>1. ASSUME NEW t \in Thread, WriteLog(t) PROVE day' = day
      BY <3>1 DEF WriteLog, GetTime, LocalTime, Copy, Count, Format, Full, Push, Put
    <3> QED
      BY <2>3, <3>1, <2>1 DEF BInv, Next, Flush, PopLog, PutLog, Crash, CrashFlush,
                              Dies, vars
  <2> QED
    BY <2>1, <2>2, <2>3 DEF BInv
<1>2. /\ now \in [Thread -> Nat] /\ my_tm \in [Thread -> Nat]
      /\ Flight \in Nat /\ Cardinality(Past) \in Nat /\ Len(m_log_queue) \in Nat
      /\ InHand \in {0, 1}
  BY PastSize DEF TypeOK
<1>3. ASSUME NEW t \in Thread, GetTime(t) \/ LocalTime(t) \/ Copy(t)
      PROVE  Today' /\ Filled'
  <2>1. Today'
    BY <1>1, <1>2, <1>3 DEF GetTime, LocalTime, Copy, Today, fileVars
  <2>2. Cardinality(Past') = Cardinality(Past)
    BY <1>3, PastStep DEF GetTime, LocalTime, Copy, Steps
  <2>3. UNCHANGED <<m_count, m_fp, written, m_log_queue, single_log>>
    BY <1>3 DEF GetTime, LocalTime, Copy, fileVars
  <2>4. Flight' <= Flight
    BY <1>2, <2>2, <2>3 DEF Flight, InHand
  <2> QED
    BY <1>1, <2>1, <2>3, <2>4, FilledKept
<1>4. ASSUME NEW t \in Thread, Count(t) PROVE Today' /\ Filled'
  <2>1. Today'
    BY <1>1, <1>2, <1>4 DEF Count, NewDay, NextFile, SameFile, Today
  <2>2. QueueUsed'
    OBVIOUS
  <2> QED
    BY <1>1, <1>4, <2>1, <2>2, FilledCounted
<1>5. ASSUME NEW t \in Thread, Format(t) \/ Full(t) PROVE Today' /\ Filled'
  <2>1. Today'
    BY <1>1, <1>5 DEF Format, Full, Today, fileVars, timeVars
  <2>2. Cardinality(Past') = Cardinality(Past)
    BY <1>5, PastStep DEF Format, Full, Steps
  <2>3. UNCHANGED <<m_count, m_fp, written, m_log_queue, single_log>>
    BY <1>5 DEF Format, Full, fileVars
  <2>4. Flight' <= Flight
    BY <1>2, <2>2, <2>3 DEF Flight, InHand
  <2> QED
    BY <1>1, <2>1, <2>3, <2>4, FilledKept
<1>6. ASSUME NEW t \in Thread, Push(t) PROVE Today' /\ Filled'
  <2>1. Today'
    BY <1>1, <1>6 DEF Push, Today, fileVars, timeVars
  <2>2. Cardinality(Past') = Cardinality(Past) - 1
    BY <1>6, PastStep DEF Push, Steps
  <2>3. UNCHANGED <<m_count, m_fp, written, single_log>>
    BY <1>6 DEF Push, fileVars
  <2>4. Len(m_log_queue') \in {Len(m_log_queue), Len(m_log_queue) + 1}
    BY <1>6, PushEntry DEF Push
  <2>5. Flight' <= Flight
    BY <1>2, <2>2, <2>3, <2>4 DEF Flight, InHand
  <2> QED
    BY <1>1, <2>1, <2>3, <2>5, FilledKept
<1>7. ASSUME NEW t \in Thread, Put(t) PROVE Today' /\ Filled'
  <2>1. Today'
    BY <1>1, <1>7 DEF Put, Today, fileVars, timeVars
  <2>2. Cardinality(Past') = Cardinality(Past) - 1
    BY <1>7, PastStep DEF Put, Steps
  <2>3. UNCHANGED <<fileVars, m_log_queue, single_log>>
    BY <1>7 DEF Put
  <2>4. Flight' = Flight - 1
    BY <1>2, <2>2, <2>3 DEF Flight, InHand
  <2>5. line(t) \in Line /\ fputs(line(t), TRUE)
    BY <1>7 DEF Put, TypeOK, line, Line
  <2> QED
    BY <1>1, <2>1, <2>3, <2>4, <2>5, FilledPut
<1>8. CASE PopLog
  <2>1. Today'
    BY <1>1, <1>8 DEF PopLog, Today, fileVars, timeVars
  <2>2. /\ UNCHANGED <<pc, m_count, m_fp, written>>
        /\ single_log = Nobody
    BY <1>8 DEF PopLog, fileVars
  <2>3. Len(m_log_queue') = Len(m_log_queue) - 1 /\ Past' = Past
    BY <1>8, <2>2, PopEntry DEF Past
  <2>4. InHand = 0 /\ InHand' \in {0, 1}
    BY <2>2 DEF InHand
  <2>5. Flight' <= Flight
    BY <1>2, <2>3, <2>4 DEF Flight
  <2> QED
    BY <1>1, <2>1, <2>2, <2>5, FilledKept
<1>9. CASE PutLog
  <2>1. Today'
    BY <1>1, <1>9 DEF PutLog, Today, fileVars, timeVars
  <2>2. /\ UNCHANGED <<pc, fileVars, m_log_queue>>
        /\ single_log \in Line /\ single_log # Nobody /\ single_log' = Nobody
        /\ fputs(single_log, FALSE)
    BY <1>9 DEF PutLog, TypeOK
  <2>3. Past' = Past /\ InHand = 1 /\ InHand' = 0
    BY <2>2 DEF Past, InHand
  <2>4. Flight' = Flight - 1
    BY <1>2, <2>2, <2>3 DEF Flight
  <2> QED
    BY <1>1, <2>1, <2>2, <2>4, FilledPut
<1>10. CASE Dies \/ UNCHANGED vars
  <2>1. UNCHANGED <<timeVars, pc, fileVars, m_log_queue, single_log, written>>
    BY <1>10 DEF Dies, vars, timeVars, fileVars
  <2>2. Today' /\ Flight' = Flight
    BY <1>1, <2>1 DEF Today, timeVars, fileVars, Flight, Past, InHand
  <2> QED
    BY <1>1, <1>2, <2>1, <2>2, FilledKept DEF fileVars
<1>11. ~Midnight
  BY <1>1 DEF Midnight
<1> QED
  BY <1>3, <1>4, <1>5, <1>6, <1>7, <1>8, <1>9, <1>10, <1>11
  DEF Next, Flush, WriteLog, Crash, CrashFlush

LEMMA BInvInit == Init => BInv
<1> SUFFICES ASSUME Init PROVE BInv
  OBVIOUS
<1>1. TypeOK
  BY TypeInit
<1>2. /\ Places \in Nat /\ Slack \in Nat /\ Bound \in Nat
      /\ Cardinality(Thread) \in Nat
      /\ m_max_lines \in Nat \ {0}
  BY <1>1, Sizes
<1>3. Past = {} /\ Len(m_log_queue) = 0 /\ InHand = 0 /\ Len(written) = 0
  BY DEF Init, Past, InHand
<1>4. Flight = 0
  BY <1>3, FS_EmptySet DEF Flight
<1>5. \A f : LinesIn(f) = 0
  BY <1>3, FS_EmptySet DEF LinesIn
<1>6. m_count % m_max_lines = 0
  <2> HIDE DEF m_max_lines
  <2> QED
    BY <1>2, Remainder DEF Init
<1>7. Filled
  BY <1>2, <1>4, <1>5, <1>6 DEF Filled
<1>8. QueueUsed
  BY <1>2, <1>3 DEF QueueUsed, Init
<1> QED
  BY <1>7, <1>8 DEF BInv, Today, Init

(* Within the first day no file gets more lines than m_max_lines and as    *)
(* many as can be under way: one for each thread, and the queue's.         *)
THEOREM FileBoundedHolds == Spec => []FileBounded
<1>1. Init => TypeOK /\ BInv
  BY TypeInit, BInvInit
<1>2. TypeOK /\ TypeOK' /\ FileNamed /\ BInv /\ [Next]_vars => BInv'
  <2> SUFFICES ASSUME TypeOK, TypeOK', FileNamed, BInv, [Next]_vars PROVE BInv'
    OBVIOUS
  <2>1. QueueUsed'
    BY QueueUsedStep DEF BInv
  <2> QED
    BY <2>1, FilledStep
<1>3. TypeOK /\ BInv => FileBounded
  <2> SUFFICES ASSUME TypeOK, BInv, day = 0, NEW i \in 1 .. Len(written)
               PROVE  LinesIn(written[i].file) <= Bound
    BY DEF FileBounded, Bound, Places
  <2>1. written[i].file \in File
    <3>1. written[i] \in Entry
      BY DEF TypeOK
    <3> QED
      BY <3>1 DEF Entry
  <2> QED
    BY <2>1 DEF BInv, Filled
<1> QED
  BY <1>1, <1>2, <1>3, TypeStep, FileNamedHolds, PTL DEF Spec
=============================================================================
