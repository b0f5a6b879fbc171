----------------------------- MODULE HttpParse -----------------------------
(***************************************************************************)
(* The read side of a connection slot (http_conn.cpp): read_once() appends *)
(* what recv() gives to m_read_buf, process_read() takes it apart, one     *)
(* line after the other, and remembers in the slot how far it got.         *)
(*                                                                         *)
(* Abstractions.  The buffer holds tokens, not characters: CR, LF, SP (a   *)
(* blank or a tab) and words.  recv() may stop after any token.  The zero  *)
(* bytes that end a line or a word in place are not stored: a consumed     *)
(* line is not read again.  An absolute URL has a path, Content-length is  *)
(* not negative, and a version is as long as "HTTP/1.1", so that           *)
(* judge.html, appended in place, ends where the line does.                *)
(***************************************************************************)
EXTENDS Integers, Sequences, FiniteSets

CONSTANTS
    Streams,           \* what a client may send, sequences of tokens
    READ_BUFFER_SIZE,  \* in tokens
    Files,             \* per path: "absent", "hidden", "directory" or "file"
    Missable           \* TRUE: a failed write() may be overlooked (ShortClosed)

ASSUME StreamsAssumption == Streams \subseteq Seq(STRING)
ASSUME SizeAssumption == READ_BUFFER_SIZE \in Nat \ {0}
ASSUME MissableAssumption == Missable \in BOOLEAN

VARIABLES
    inbox,             \* tokens on their way to the server
    m_TRIGmode,        \* 1: edge-triggered
    m_read_buf,        \* the first m_read_idx places of the buffer
    m_checked_idx, m_start_line,
    m_check_state, m_linger, m_content_length, m_url,
    line_state, ret,   \* locals of process_read()
    rounds,            \* of the loop of the call that runs
    pc,                \* what the owner of the slot does
    replies            \* replies made since init()

requestVars == <<m_check_state, m_linger, m_content_length, m_url>>
lineVars == <<m_checked_idx, m_start_line>>
vars == <<inbox, m_TRIGmode, m_read_buf, m_checked_idx, m_start_line,
          m_check_state, m_linger, m_content_length, m_url, line_state, ret,
          rounds, pc, replies>>

m_read_idx == Len(m_read_buf)

\* A new connection, after init().
Init ==
    /\ m_checked_idx = 0 /\ m_start_line = 0
    /\ m_check_state = "REQUESTLINE" /\ m_linger = FALSE
    /\ m_content_length = 0 /\ m_url = "none" /\ m_read_buf = <<>>
    /\ inbox \in Streams /\ m_TRIGmode \in {0, 1}
    /\ line_state = "LINE_OK" /\ ret = "NO_REQUEST" /\ rounds = 0
    /\ pc = "read" /\ replies = 0

-----------------------------------------------------------------------------
(* parse_line() *)

\* The first place at or after m_checked_idx with a CR or LF; the end if none.
LineStop ==
    LET ends == {i \in m_checked_idx + 1 .. m_read_idx :
                    m_read_buf[i] \in {"CR", "LF"}}
    IN  IF ends = {} THEN m_read_idx + 1
        ELSE CHOOSE i \in ends : \A j \in ends : i <= j

Line(state, idx) == [state |-> state, checked |-> idx]

\* Mutant: only the CR is stepped over.
parse_line_short ==
    LET i == LineStop
    IN  IF i > m_read_idx THEN Line("LINE_OPEN", m_read_idx)
        ELSE IF m_read_buf[i] = "CR" /\ i = m_read_idx THEN Line("LINE_OPEN", i - 1)
        ELSE IF m_read_buf[i] = "CR" /\ m_read_buf[i + 1] = "LF"
             THEN Line("LINE_OK", i)
        ELSE Line("LINE_BAD", i - 1)

(* The state of the line and the new m_checked_idx.  A CR at the very end  *)
(* is looked at again when more has come; a stray CR or LF is never passed.*)
parse_line ==
    LET i == LineStop
        at(j) == m_read_buf[j]
    IN  IF i > m_read_idx THEN Line("LINE_OPEN", m_read_idx)
        ELSE IF at(i) = "CR" /\ i = m_read_idx THEN Line("LINE_OPEN", i - 1)
        ELSE IF at(i) = "CR" /\ at(i + 1) = "LF" THEN Line("LINE_OK", i + 1)
        ELSE IF at(i) = "LF" /\ i > 2 /\ at(i - 1) = "CR" THEN Line("LINE_OK", i)
        ELSE Line("LINE_BAD", i - 1)

-----------------------------------------------------------------------------
(* What a line says *)

\* strspn(): the first place from k on that is not a blank.
FirstWord(s, k) == CHOOSE j \in k .. Len(s) + 1 :
                      /\ \A i \in k .. j - 1 : s[i] = "SP"
                      /\ j <= Len(s) => s[j] # "SP"
Trim(s) == SubSeq(s, FirstWord(s, 1), Len(s))

\* strpbrk() and strspn(): s cut at its first blank, nothing without a blank.
Cut(s) == {[before |-> SubSeq(s, 1, k - 1),
            after |-> SubSeq(s, FirstWord(s, k), Len(s))] :
              k \in {j \in 1 .. Len(s) : /\ s[j] = "SP"
                                         /\ \A i \in 1 .. j - 1 : s[i] # "SP"}}

\* The URL without scheme and host.
Path(url) == IF url[1] \in {"http://host", "https://host"} THEN Tail(url) ELSE url

(* The path parse_request_line() finds; none when it returns BAD_REQUEST.  *)
(* The comparison of the version is the wrong way round: it is HTTP/1.1    *)
(* that is refused.                                                        *)
PathsIn(text) ==
    {p \in UNION {{Path(v.before) : v \in {u \in Cut(m.after) :
                                              u.after # <<"HTTP/1.1">>}} :
                  m \in {u \in Cut(text) : u.before = <<"GET">>}} :
        p # <<>> /\ p[1] \in DOMAIN Files}

RequestLineOK(text) == PathsIn(text) # {}

\* "/" stands for the welcome page.
Page(p) == IF p[1] = "/" THEN "/judge.html" ELSE p[1]

KeepAlive(text) ==
    text # <<>> /\ text[1] = "Connection:" /\ Trim(Tail(text)) = <<"keep-alive">>

HasLength(text) == text # <<>> /\ text[1] = "Content-length:"

\* atol() of what follows Content-length:
Number == [w \in {"2", "9"} |-> IF w = "2" THEN 2 ELSE 9]
LengthOf(text) ==
    LET arg == Trim(Tail(text))
    IN  IF arg # <<>> /\ arg[1] \in DOMAIN Number THEN Number[arg[1]] ELSE 0

(* do_request(): a one-digit page is replaced by the file it stands for,   *)
(* then stat() decides.                                                    *)
Alias == [p \in {"/0", "/1", "/5", "/6", "/7"} |->
            CASE p = "/0" -> "/register.html" [] p = "/1" -> "/log.html"
              [] p = "/5" -> "/picture.html"  [] p = "/6" -> "/video.html"
              [] p = "/7" -> "/fans.html"]

do_request ==
    LET file == IF m_url \in DOMAIN Alias THEN Alias[m_url] ELSE m_url
        kind == IF file \in DOMAIN Files THEN Files[file] ELSE "absent"
    IN  CASE kind = "absent"    -> "NO_RESOURCE"
          [] kind = "hidden"    -> "FORBIDDEN_REQUEST"
          [] kind = "directory" -> "BAD_REQUEST"
          [] kind = "file"      -> "FILE_REQUEST"

-----------------------------------------------------------------------------
(* read_once().  Level-triggered, it takes what one recv() gives; edge-    *)
(* triggered, it reads until EAGAIN, and a buffer it fills looks like the  *)
(* end of the file, for recv() was asked for no bytes.                     *)
ReadTrue(n) ==
    /\ n <= READ_BUFFER_SIZE - m_read_idx
    /\ m_TRIGmode = 1 => m_read_idx + n < READ_BUFFER_SIZE

ReadOnce ==
    /\ pc = "read"
    /\ \E n \in 1 .. Len(inbox) :
         /\ ReadTrue(n)
         /\ m_read_buf' = m_read_buf \o SubSeq(inbox, 1, n)
         /\ inbox' = SubSeq(inbox, n + 1, Len(inbox))
    /\ pc' = "process"
    /\ line_state' = "LINE_OK" /\ ret' = "NO_REQUEST"
    /\ UNCHANGED <<m_TRIGmode, lineVars, requestVars, rounds, replies>>

ReadFails ==
    /\ pc = "read" /\ inbox # <<>>
    /\ m_read_idx + (IF m_TRIGmode = 1 THEN Len(inbox) ELSE 0) >= READ_BUFFER_SIZE
    /\ pc' = "closed"
    /\ UNCHANGED <<inbox, m_TRIGmode, m_read_buf, lineVars, requestVars,
                   line_state, ret, rounds, replies>>

-----------------------------------------------------------------------------
(* process_read(): one round of its loop per step *)

\* The condition of the loop: the body is not cut into lines at first.
NextLine ==
    IF m_check_state = "CONTENT" /\ line_state = "LINE_OK"
    THEN Line("LINE_OK", m_checked_idx)
    ELSE parse_line

\* get_line(): the text from m_start_line to the CR LF before NextLine.checked.
LineText == SubSeq(m_read_buf, m_start_line + 1, NextLine.checked - 2)

\* A round of the loop, in check state s.
Round(s) ==
    /\ pc = "process" /\ m_check_state = s
    /\ NextLine.state = "LINE_OK"
    /\ m_checked_idx' = NextLine.checked /\ m_start_line' = NextLine.checked
    /\ UNCHANGED <<inbox, m_TRIGmode, m_read_buf, replies>>

Return(code) == pc' = "reply" /\ ret' = code /\ rounds' = 0

\* rounds is not counted past a bound that RoundsBounded never lets it reach.
GoOn == /\ UNCHANGED <<pc, ret>>
        /\ rounds' = IF rounds < READ_BUFFER_SIZE + 2 THEN rounds + 1 ELSE rounds

RequestLine ==
    /\ Round("REQUESTLINE") /\ line_state' = "LINE_OK"
    /\ \/ \E path \in PathsIn(LineText) :
            m_check_state' = "HEADER" /\ m_url' = Page(path) /\ GoOn
       \/ /\ ~RequestLineOK(LineText)
          /\ Return("BAD_REQUEST") /\ UNCHANGED <<m_check_state, m_url>>
    /\ UNCHANGED <<m_linger, m_content_length>>

\* Mutant: = is == as it was meant.
HeaderVerdict_meant(text) ==
    IF text = <<>> /\ m_content_length = 0 THEN Return(do_request) ELSE GoOn

(* `if(ret=BAD_REQUEST)' is an assignment: whatever parsr_headers() found, *)
(* BAD_REQUEST is returned.                                                *)
HeaderVerdict(text) == Return("BAD_REQUEST")

Header ==
    /\ Round("HEADER") /\ line_state' = "LINE_OK"
    /\ \E text \in {LineText} :
         /\ m_check_state' = IF text = <<>> /\ m_content_length # 0
                             THEN "CONTENT" ELSE "HEADER"
         /\ m_linger' = (m_linger \/ KeepAlive(text))
         /\ m_content_length' = IF HasLength(text) THEN LengthOf(text)
                                ELSE m_content_length
         /\ HeaderVerdict(text)
    /\ UNCHANGED m_url

\* Mutant: line_state is left at LINE_OK.
AfterContent_again == "LINE_OK"

\* line_state = LINE_OPEN, so that the loop is not entered again.
AfterContent == "LINE_OPEN"

(* parser_content(): the body is there when m_content_length tokens follow *)
(* m_checked_idx, which later calls move while they look for a line.       *)
Content ==
    /\ Round("CONTENT")
    /\ IF m_read_idx >= m_content_length + NextLine.checked
       THEN Return(do_request) /\ line_state' = "LINE_OK"
       ELSE GoOn /\ line_state' = AfterContent
    /\ UNCHANGED requestVars

(* No complete line, or one with a stray CR or LF: process() waits for     *)
(* more.  The code has no return here.  Its Debug build (g++ without       *)
(* optimisation) gives the 0 of the loop's condition, which is NO_REQUEST. *)
NoRequest ==
    /\ pc = "process" /\ NextLine.state # "LINE_OK"
    /\ m_checked_idx' = NextLine.checked
    /\ line_state' = NextLine.state
    /\ pc' = "read" /\ ret' = "NO_REQUEST" /\ rounds' = 0
    /\ UNCHANGED <<inbox, m_TRIGmode, m_read_buf, m_start_line, requestVars,
                   replies>>

ProcessRead == RequestLine \/ Header \/ Content \/ NoRequest

-----------------------------------------------------------------------------
(* What becomes of the slot when the reply is out *)

\* Mutant: m_linger is left as it is.
init_lingering ==
    /\ m_checked_idx' = 0 /\ m_start_line' = 0
    /\ m_check_state' = "REQUESTLINE" /\ m_linger' = m_linger
    /\ m_content_length' = 0 /\ m_url' = "none" /\ m_read_buf' = <<>>

\* init(): whatever else had been read is gone.
init ==
    /\ m_checked_idx' = 0 /\ m_start_line' = 0
    /\ m_check_state' = "REQUESTLINE" /\ m_linger' = FALSE
    /\ m_content_length' = 0 /\ m_url' = "none" /\ m_read_buf' = <<>>

\* write() has sent the reply of a connection to be kept.
Kept ==
    /\ pc = "reply" /\ m_linger /\ ret # "NO_RESOURCE"
    /\ init
    /\ pc' = "read" /\ ret' = "NO_REQUEST" /\ replies' = 0
    /\ UNCHANGED <<inbox, m_TRIGmode, line_state, rounds>>

\* process_write() or write() returns false, or the peer is gone.
Closed ==
    /\ pc = "reply"
    /\ pc' = "closed"
    /\ UNCHANGED <<inbox, m_TRIGmode, m_read_buf, lineVars, requestVars,
                   line_state, ret, rounds, replies>>

\* In reactor mode that may be overlooked: the slot is read into as it is.
Missed ==
    /\ pc = "reply" /\ ~m_linger /\ ret # "NO_RESOURCE" /\ Missable
    /\ pc' = "read" /\ replies' = replies + 1
    /\ UNCHANGED <<inbox, m_TRIGmode, m_read_buf, lineVars, requestVars,
                   line_state, ret, rounds>>

Next == ReadOnce \/ ReadFails \/ ProcessRead \/ Kept \/ Closed \/ Missed

Spec == Init /\ [][Next]_vars

\* A call of process_read() runs on until it returns.
FairSpec == Spec /\ WF_vars(ProcessRead)
-----------------------------------------------------------------------------
(* Correctness.  The lines of the buffer, by a definition that does not    *)
(* scan: where they end, and what each one says.                           *)

Stray(j) ==
    \/ m_read_buf[j] = "LF" /\ (j = 1 \/ m_read_buf[j - 1] # "CR")
    \/ m_read_buf[j] = "CR" /\ j < m_read_idx /\ m_read_buf[j + 1] # "LF"

LineEnds == {e \in 2 .. m_read_idx :
                /\ m_read_buf[e - 1] = "CR" /\ m_read_buf[e] = "LF"
                /\ \A j \in 1 .. e : ~Stray(j)}

TextOf(e) ==
    LET start == CHOOSE d \in 0 .. e - 1 :
                    /\ d = 0 \/ m_read_buf[d] = "LF"
                    /\ \A c \in d + 1 .. e - 1 : m_read_buf[c] # "LF"
    IN  SubSeq(m_read_buf, start + 1, e - 2)

Consumed == {e \in LineEnds : e <= m_start_line}

\* The header lines: those after a request line that is accepted.
HeadersOf(L) == {e \in L : \E d \in L : d < e /\ RequestLineOK(TextOf(d))}

(* However the bytes of a request are cut into pieces by recv(): each      *)
(* reply takes one line, the request line one more, and process_read()     *)
(* asks for more only when it has taken every line there is.               *)
EveryLine ==
    m_check_state # "CONTENT" =>
        LET lines == LineEnds
            taken == {e \in lines : e <= m_start_line}
        IN  /\ m_start_line \in lines \cup {0}
            /\ pc = "read" =>
                 Cardinality(taken)
                 = replies + (IF m_check_state = "HEADER" THEN 1 ELSE 0)
            /\ (pc = "read" /\ ret = "NO_REQUEST") => taken = lines

(* What the slot remembers between calls is what the lines it has taken    *)
(* since init() say, and nothing of an earlier request.                    *)
Remembered ==
    m_check_state # "CONTENT" =>
        LET taken == Consumed
            headers == HeadersOf(taken)
            lengths == {e \in headers : HasLength(TextOf(e))}
        IN  /\ m_check_state = "HEADER"
               <=> \E e \in taken : RequestLineOK(TextOf(e))
            /\ m_linger <=> \E e \in headers : KeepAlive(TextOf(e))
            /\ IF lengths = {} THEN m_content_length = 0
               ELSE \E e \in lengths : /\ \A d \in lengths : d <= e
                                       /\ m_content_length = LengthOf(TextOf(e))

(* do_request() is reached only with the whole body in the buffer, and     *)
(* only in a slot that made two replies since init(): one to a header, one *)
(* to the blank line.  (WebServer's CannotReply relies on it.)             *)
Earned ==
    (pc = "reply" /\ ret # "BAD_REQUEST") =>
        /\ replies >= 2
        /\ \E e \in HeadersOf(LineEnds) : /\ TextOf(e) = <<>>
                                          /\ e + m_content_length <= m_read_idx

(* The loop of process_read() ends, however the bytes fall: each round but *)
(* one, the first look at a body, passes a line that no round passes again.*)
RoundsBounded == rounds <= m_checked_idx + 1

(* process_read() returns: its loop does not go round for ever.            *)
Returns == pc = "process" ~> pc # "process"

(* A GET whose blank line has arrived, and that announces no body, is      *)
(* answered with what do_request() finds.                                  *)
GetAnswered ==
    LET headers == HeadersOf(LineEnds)
    IN  (/\ pc = "reply" /\ m_check_state = "HEADER"
         /\ \E e \in headers : TextOf(e) = <<>>
         /\ \A e \in headers : ~HasLength(TextOf(e)))
        => ret = do_request
=============================================================================
