-------------------------- MODULE HttpParse_proofs --------------------------
(***************************************************************************)
(* Theorems about HttpParse, for any streams of tokens, cut anywhere, any  *)
(* files and any size of the buffer.                                       *)
(***************************************************************************)
EXTENDS HttpParse, FiniteSetTheorems, SharedLemmas

-----------------------------------------------------------------------------
(* parse_line() *)

Plain(j) == m_read_buf[j] \notin {"CR", "LF"}

\* The indices are in order and within the buffer.
Indices ==
    /\ m_read_buf \in Seq(STRING)
    /\ m_start_line \in 0 .. m_checked_idx /\ m_checked_idx \in 0 .. m_read_idx

(* The line being received starts after a line or at the start of the      *)
(* buffer, and what has been looked at of it holds no CR or LF.            *)
Scanned ==
    /\ m_start_line \in LineEnds \cup {0}
    /\ \A j \in m_start_line + 1 .. m_checked_idx : Plain(j)

LEMMA StopIs ==
  ASSUME Indices
  PROVE  /\ LineStop \in m_checked_idx + 1 .. m_read_idx + 1
         /\ \A j \in m_checked_idx + 1 .. LineStop - 1 : j <= m_read_idx => Plain(j)
         /\ LineStop <= m_read_idx => ~Plain(LineStop)
<1> DEFINE ends == {i \in m_checked_idx + 1 .. m_read_idx :
                      m_read_buf[i] \in {"CR", "LF"}}
<1>1. m_checked_idx \in Nat /\ m_read_idx \in Nat /\ m_checked_idx <= m_read_idx
  BY LenProperties DEF Indices, m_read_idx
<1>2. LineStop = IF ends = {} THEN m_read_idx + 1
                 ELSE CHOOSE i \in ends : \A j \in ends : i <= j
  BY DEF LineStop
<1>3. \A i : i \in ends <=> i \in m_checked_idx + 1 .. m_read_idx /\ ~Plain(i)
  BY DEF Plain
<1>4. ends \subseteq Nat
  BY <1>1
<1> HIDE DEF ends
<1>5. CASE ends = {}
  BY <1>1, <1>2, <1>3, <1>5
<1>6. CASE ends # {}
  <2>1. \E i \in ends : \A j \in ends : i <= j
    BY <1>4, <1>6, LeastNat
  <2>2. LineStop \in ends /\ \A j \in ends : LineStop <= j
    BY <1>2, <1>6, <2>1
  <2> QED
    BY <1>1, <1>3, <2>2
<1> QED
  BY <1>5, <1>6

(* What parse_line() finds.                                                *)
LEMMA ParsedIs ==
  ASSUME Indices
  PROVE  LET i == LineStop
         IN  \/ /\ i = m_read_idx + 1
                /\ parse_line = Line("LINE_OPEN", m_read_idx)
             \/ /\ i = m_read_idx /\ m_read_buf[i] = "CR"
                /\ parse_line = Line("LINE_OPEN", i - 1)
             \/ /\ i < m_read_idx /\ m_read_buf[i] = "CR" /\ m_read_buf[i + 1] = "LF"
                /\ parse_line = Line("LINE_OK", i + 1)
             \/ /\ i <= m_read_idx /\ i > 2
                /\ m_read_buf[i] = "LF" /\ m_read_buf[i - 1] = "CR"
                /\ parse_line = Line("LINE_OK", i)
             \/ /\ i <= m_read_idx /\ parse_line = Line("LINE_BAD", i - 1)
                /\ \/ m_read_buf[i] = "CR" /\ i < m_read_idx /\ m_read_buf[i + 1] # "LF"
                   \/ m_read_buf[i] = "LF" /\ (i <= 2 \/ m_read_buf[i - 1] # "CR")
<1> DEFINE i == LineStop
<1>1. m_checked_idx \in Nat /\ m_read_idx \in Nat /\ m_checked_idx <= m_read_idx
  BY LenProperties DEF Indices, m_read_idx
<1>2. /\ i \in m_checked_idx + 1 .. m_read_idx + 1
      /\ i <= m_read_idx => m_read_buf[i] \in {"CR", "LF"}
  BY StopIs DEF Plain
<1>3. parse_line =
        IF i > m_read_idx THEN Line("LINE_OPEN", m_read_idx)
        ELSE IF m_read_buf[i] = "CR" /\ i = m_read_idx THEN Line("LINE_OPEN", i - 1)
        ELSE IF m_read_buf[i] = "CR" /\ m_read_buf[i + 1] = "LF"
             THEN Line("LINE_OK", i + 1)
        ELSE IF m_read_buf[i] = "LF" /\ i > 2 /\ m_read_buf[i - 1] = "CR"
             THEN Line("LINE_OK", i)
        ELSE Line("LINE_BAD", i - 1)
  BY DEF parse_line
<1> HIDE DEF i
<1> QED
  BY <1>1, <1>2, <1>3 DEF i

LEMMA LineFields ==
  ASSUME NEW state, NEW idx
  PROVE  Line(state, idx).state = state /\ Line(state, idx).checked = idx
  BY DEF Line

(* It stays in the buffer and never goes back.                             *)
LEMMA ParsedChecked ==
  ASSUME Indices
  PROVE  parse_line.checked \in m_checked_idx .. m_read_idx
<1>1. m_checked_idx \in Nat /\ m_read_idx \in Nat /\ m_checked_idx <= m_read_idx
  BY LenProperties DEF Indices, m_read_idx
<1>2. LineStop \in m_checked_idx + 1 .. m_read_idx + 1
  BY StopIs
<1> QED
  BY <1>1, <1>2, ParsedIs, LineFields

(* What is complete when it says LINE_OK is the next line, and there is no *)
(* other line when it says anything else.                                  *)
LEMMA ParsedLine ==
  ASSUME Indices, Scanned
  PROVE  LET e == parse_line.checked
         IN  IF parse_line.state = "LINE_OK"
             THEN /\ e \in LineEnds /\ e > m_start_line
                  /\ \A d \in LineEnds : d < e => d <= m_start_line
                  /\ TextOf(e) = SubSeq(m_read_buf, m_start_line + 1, e - 2)
             ELSE /\ \A d \in LineEnds : d <= m_start_line
                  /\ \A j \in m_start_line + 1 .. e : Plain(j)
<1> DEFINE i == LineStop
           buf == m_read_buf
           e == parse_line.checked
<1>1. /\ m_checked_idx \in Nat /\ m_read_idx \in Nat /\ m_checked_idx <= m_read_idx
      /\ m_start_line \in Nat /\ m_start_line <= m_checked_idx
  BY LenProperties DEF Indices, m_read_idx
<1>2. /\ i \in m_checked_idx + 1 .. m_read_idx + 1
      /\ i <= m_read_idx => ~Plain(i)
      /\ \A j \in m_start_line + 1 .. i - 1 : Plain(j)
  BY <1>1, StopIs DEF Scanned
<1>3. \A j \in m_start_line + 1 .. i - 1 : buf[j] # "CR" /\ buf[j] # "LF"
  BY <1>2 DEF Plain
<1>4. m_start_line > 0 => buf[m_start_line] = "LF" /\ m_start_line >= 2
  BY <1>1 DEF Scanned, LineEnds
<1>5. \A d \in LineEnds : /\ d \in 2 .. m_read_idx /\ buf[d] = "LF" /\ buf[d - 1] = "CR"
                         /\ \A j \in 1 .. d : ~Stray(j)
  BY DEF LineEnds
<1>6. \A d \in LineEnds : d < i => d <= m_start_line
  BY <1>1, <1>2, <1>3, <1>5
<1> HIDE DEF i
<1>7. ~(i <= m_read_idx /\ i > 2 /\ buf[i] = "LF" /\ buf[i - 1] = "CR")
  <2> SUFFICES ASSUME i <= m_read_idx, i > 2, buf[i] = "LF", buf[i - 1] = "CR"
               PROVE  FALSE
    OBVIOUS
  <2>1. i - 1 = m_start_line
    BY <1>1, <1>2, <1>3
  <2>2. m_start_line > 0 /\ buf[m_start_line] = "CR"
    BY <1>1, <1>2, <2>1
  <2> QED
    BY <1>4, <2>2
<1>8. CASE i = m_read_idx + 1 /\ parse_line = Line("LINE_OPEN", m_read_idx)
  <2>1. e = m_read_idx /\ parse_line.state = "LINE_OPEN"
    BY <1>8, LineFields
  <2> QED
    BY <1>1, <1>2, <1>5, <1>6, <1>8, <2>1
<1>9. CASE i = m_read_idx /\ buf[i] = "CR" /\ parse_line = Line("LINE_OPEN", i - 1)
  <2>1. e = i - 1 /\ parse_line.state = "LINE_OPEN"
    BY <1>9, LineFields
  <2> QED
    BY <1>1, <1>2, <1>5, <1>6, <1>9, <2>1
<1>10. CASE /\ i <= m_read_idx /\ parse_line = Line("LINE_BAD", i - 1)
            /\ \/ buf[i] = "CR" /\ i < m_read_idx /\ buf[i + 1] # "LF"
               \/ buf[i] = "LF" /\ (i <= 2 \/ buf[i - 1] # "CR")
  <2>1. e = i - 1 /\ parse_line.state = "LINE_BAD"
    BY <1>10, LineFields
  <2>2. Stray(i)
    <3>1. CASE i = 2 /\ buf[i] = "LF" /\ buf[i - 1] = "CR"
      <4>1. m_start_line = 0 \/ m_start_line = 1
        BY <1>1, <1>2, <3>1
      <4>2. m_start_line = 0
        BY <1>1, <1>4, <4>1
      <4>3. 1 \in m_start_line + 1 .. i - 1
        BY <3>1, <4>2
      <4> QED
        BY <1>3, <3>1, <4>3
    <3>2. CASE ~(i = 2 /\ buf[i] = "LF" /\ buf[i - 1] = "CR")
      BY <1>1, <1>2, <1>10, <3>2 DEF Stray
    <3> QED
      BY <3>1, <3>2
  <2>3. \A d \in LineEnds : d < i
    BY <1>1, <1>2, <1>5, <2>2
  <2> QED
    BY <1>1, <1>2, <1>6, <2>1, <2>3
<1>11. CASE /\ i < m_read_idx /\ buf[i] = "CR" /\ buf[i + 1] = "LF"
            /\ parse_line = Line("LINE_OK", i + 1)
  <2>1. e = i + 1 /\ parse_line.state = "LINE_OK" /\ (i + 1) - 1 = i /\ i \in 1 .. m_read_idx
    BY <1>1, <1>2, <1>11, LineFields
  <2>2. \A j \in 1 .. e : ~Stray(j)
    <3> TAKE j \in 1 .. e
    <3>1. CASE j <= m_start_line
      <4>1. m_start_line \in LineEnds /\ j \in 1 .. m_start_line
        BY <1>1, <3>1 DEF Scanned
      <4> QED
        BY <1>5, <4>1
    <3>2. CASE j > m_start_line /\ j < i
      <4>1. j \in m_start_line + 1 .. i - 1
        BY <1>1, <1>2, <3>2
      <4> QED
        BY <1>3, <4>1 DEF Stray
    <3>3. CASE j = i
      BY <1>11, <3>3 DEF Stray
    <3>4. CASE j = i + 1
      BY <1>1, <1>2, <1>11, <2>1, <3>4 DEF Stray
    <3> QED
      BY <1>1, <1>2, <2>1, <3>1, <3>2, <3>3, <3>4
  <2>3. e \in LineEnds
    BY <1>1, <1>2, <1>11, <2>1, <2>2 DEF LineEnds
  <2>4. \A d \in LineEnds : d < e => d <= m_start_line
    <3> SUFFICES ASSUME NEW d \in LineEnds, d < i + 1
                 PROVE  d <= m_start_line
      BY <2>1
    <3>1. d # i
      BY <1>5, <1>11
    <3>2. d < i
      BY <1>2, <1>5, <3>1
    <3> QED
      BY <1>6, <3>2
  <2>5. TextOf(e) = SubSeq(buf, m_start_line + 1, e - 2)
    <3> DEFINE Starts(d) == /\ d = 0 \/ buf[d] = "LF"
                            /\ \A c \in d + 1 .. e - 1 : buf[c] # "LF"
    <3>1. m_start_line \in 0 .. e - 1 /\ Starts(m_start_line)
      BY <1>1, <1>2, <1>3, <1>4, <1>11, <2>1
    <3>2. ASSUME NEW d \in 0 .. e - 1, Starts(d)
          PROVE  d = m_start_line
      <4>1. CASE d < m_start_line
        <5>1. m_start_line \in d + 1 .. e - 1 /\ buf[m_start_line] = "LF"
          BY <1>1, <1>2, <1>4, <2>1, <4>1
        <5> QED
          BY <3>2, <5>1
      <4>2. CASE d > m_start_line
        <5>1. buf[d] = "LF" /\ d \in m_start_line + 1 .. e - 1
          BY <1>1, <2>1, <3>2, <4>2
        <5> QED
          BY <3>1, <5>1
      <4> QED
        BY <1>1, <4>1, <4>2
    <3> DEFINE start == CHOOSE d \in 0 .. e - 1 : Starts(d)
    <3>3. TextOf(e) = SubSeq(buf, start + 1, e - 2)
      BY DEF TextOf
    <3> HIDE DEF Starts
    <3>4. start = m_start_line
      BY <3>1, <3>2
    <3> QED
      BY <3>3, <3>4
  <2> QED
    BY <1>1, <1>2, <2>1, <2>3, <2>4, <2>5
<1> QED
  BY <1>7, <1>8, <1>9, <1>10, <1>11, ParsedIs DEF i
-----------------------------------------------------------------------------
(* The lines in the buffer *)

LEMMA BufferSame ==
  ASSUME m_read_buf' = m_read_buf
  PROVE  /\ LineEnds' = LineEnds /\ m_read_idx' = m_read_idx
         /\ \A e : TextOf(e)' = TextOf(e)
<1>1. m_read_idx' = m_read_idx /\ \A j : Stray(j)' <=> Stray(j)
  BY DEF m_read_idx, Stray
<1> QED
  BY <1>1 DEF LineEnds, TextOf


\* Where the line that ends at e starts.
StartOf(e) == CHOOSE d \in 0 .. e - 1 : /\ d = 0 \/ m_read_buf[d] = "LF"
                                       /\ \A c \in d + 1 .. e - 1 : m_read_buf[c] # "LF"

LEMMA StartIs ==
  ASSUME NEW e \in LineEnds, m_read_idx \in Nat
  PROVE  StartOf(e) \in 0 .. e - 1
<1> DEFINE From(d) == /\ d = 0 \/ m_read_buf[d] = "LF"
                      /\ \A c \in d + 1 .. e - 1 : m_read_buf[c] # "LF"
           B == {k \in 0 .. e - 1 : e - 1 - k = 0 \/ m_read_buf[e - 1 - k] = "LF"}
<1>1. e \in Nat /\ e >= 2
  BY DEF LineEnds
<1>2. e - 1 \in B /\ B \subseteq Nat
  BY <1>1
<1>3. PICK k \in B : \A h \in B : k <= h
  <2> HIDE DEF B
  <2> QED
    BY <1>2, LeastNat
<1> DEFINE d == e - 1 - k
<1>4. d \in 0 .. e - 1 /\ (d = 0 \/ m_read_buf[d] = "LF")
  BY <1>1
<1>5. ASSUME NEW c \in d + 1 .. e - 1, m_read_buf[c] = "LF"
      PROVE  FALSE
  <2> DEFINE h == e - 1 - c
  <2>1. h \in 0 .. e - 1 /\ e - 1 - h = c /\ ~(k <= h)
    BY <1>1
  <2>2. h \in B
    BY <1>5, <2>1
  <2> QED
    BY <1>3, <2>1, <2>2
<1>6. d \in 0 .. e - 1 /\ From(d)
  BY <1>4, <1>5
<1>7. StartOf(e) = CHOOSE c \in 0 .. e - 1 : From(c)
  BY DEF StartOf
<1> HIDE DEF From, d
<1> QED
  BY <1>6, <1>7

(* A longer buffer holds the same lines in the places of the old one.      *)
LEMMA LinesKept ==
  ASSUME m_read_idx \in Nat, m_read_idx' \in Nat, m_read_idx' >= m_read_idx,
         \A j \in 1 .. m_read_idx : m_read_buf'[j] = m_read_buf[j]
  PROVE  /\ \A e \in 1 .. m_read_idx : e \in LineEnds' <=> e \in LineEnds
         /\ \A e \in LineEnds : e \in 1 .. m_read_idx /\ StartOf(e)' = StartOf(e)
<1>1. ASSUME NEW j \in 1 .. m_read_idx, j < m_read_idx \/ m_read_buf[j] = "LF"
      PROVE  Stray(j)' <=> Stray(j)
  <2>1. m_read_buf'[j] = m_read_buf[j]
        /\ (j # 1 => m_read_buf'[j - 1] = m_read_buf[j - 1])
    OBVIOUS
  <2>2. CASE j < m_read_idx
    <3>1. j < m_read_idx' /\ m_read_buf'[j + 1] = m_read_buf[j + 1]
      BY <2>2
    <3> QED
      BY <2>1, <2>2, <3>1 DEF Stray
  <2>3. CASE m_read_buf[j] = "LF"
    BY <2>1, <2>3 DEF Stray
  <2> QED
    BY <1>1, <2>2, <2>3
<1>2. ASSUME NEW e \in 1 .. m_read_idx
      PROVE  e \in LineEnds' <=> e \in LineEnds
  <2>1. m_read_buf'[e] = m_read_buf[e]
    OBVIOUS
  <2>2. CASE e = 1 \/ m_read_buf[e] # "LF"
    BY <2>1, <2>2 DEF LineEnds
  <2>3. CASE e \in 2 .. m_read_idx /\ m_read_buf[e] = "LF"
    <3>1. \A j \in 1 .. e : Stray(j)' <=> Stray(j)
      <4> TAKE j \in 1 .. e
      <4>1. j \in 1 .. m_read_idx /\ (j < m_read_idx \/ m_read_buf[j] = "LF")
        BY <2>3
      <4> QED
        BY <1>1, <4>1
    <3>2. m_read_buf'[e - 1] = m_read_buf[e - 1] /\ e \in 2 .. m_read_idx'
      BY <2>3
    <3> QED
      BY <2>1, <2>3, <3>1, <3>2 DEF LineEnds
  <2> QED
    BY <2>2, <2>3
<1>3. ASSUME NEW e \in LineEnds
      PROVE  e \in 1 .. m_read_idx /\ StartOf(e)' = StartOf(e)
  <2>1. e \in 2 .. m_read_idx
    BY DEF LineEnds
  <2>2. \A d \in 0 .. e - 1 :
           (/\ d = 0 \/ m_read_buf'[d] = "LF"
            /\ \A c \in d + 1 .. e - 1 : m_read_buf'[c] # "LF")
           <=> (/\ d = 0 \/ m_read_buf[d] = "LF"
                /\ \A c \in d + 1 .. e - 1 : m_read_buf[c] # "LF")
    BY <2>1
  <2> QED
    BY <2>1, <2>2 DEF StartOf
<1> QED
  BY <1>2, <1>3

(* What read_once() appends moves no line and changes none.                *)
LEMMA BufferGrown ==
  ASSUME m_read_buf \in Seq(STRING), NEW x \in Seq(STRING),
         m_read_buf' = m_read_buf \o x
  PROVE  /\ m_read_buf' \in Seq(STRING) /\ m_read_idx' >= m_read_idx
         /\ m_read_idx \in Nat /\ m_read_idx' \in Nat
         /\ \A j \in 1 .. m_read_idx : m_read_buf'[j] = m_read_buf[j]
         /\ \A e \in 1 .. m_read_idx : e \in LineEnds' <=> e \in LineEnds
         /\ \A e \in LineEnds : e \in 1 .. m_read_idx /\ TextOf(e)' = TextOf(e)
<1>1. /\ m_read_buf' \in Seq(STRING) /\ Len(m_read_buf') = Len(m_read_buf) + Len(x)
      /\ \A j \in 1 .. Len(m_read_buf) : m_read_buf'[j] = m_read_buf[j]
      /\ Len(m_read_buf) \in Nat /\ Len(x) \in Nat
  BY ConcatProperties, LenProperties
<1>2. /\ m_read_idx = Len(m_read_buf) /\ m_read_idx \in Nat
      /\ m_read_idx' \in Nat /\ m_read_idx' >= m_read_idx
      /\ \A j \in 1 .. m_read_idx : m_read_buf'[j] = m_read_buf[j]
  BY <1>1 DEF m_read_idx
<1>3. /\ \A e \in 1 .. m_read_idx : e \in LineEnds' <=> e \in LineEnds
      /\ \A e \in LineEnds : e \in 1 .. m_read_idx /\ StartOf(e)' = StartOf(e)
  BY <1>2, LinesKept
<1>4. ASSUME NEW e \in LineEnds
      PROVE  TextOf(e)' = TextOf(e)
  <2> DEFINE start == StartOf(e)
  <2>1. /\ TextOf(e) = SubSeq(m_read_buf, start + 1, e - 2)
        /\ TextOf(e)' = SubSeq(m_read_buf \o x, start' + 1, e - 2)
    BY DEF TextOf, StartOf
  <2>2. start' = start /\ start \in 0 .. e - 1 /\ e \in 1 .. m_read_idx
    BY <1>2, <1>3, StartIs
  <2> HIDE DEF start
  <2>3. CASE e - 2 < start + 1
    <3>1. start + 1 \in Int /\ e - 2 \in Int
      BY <2>2
    <3>2. /\ SubSeq(m_read_buf, start + 1, e - 2) = <<>>
          /\ SubSeq(m_read_buf \o x, start + 1, e - 2) = <<>>
      BY <2>3, <3>1, SubSeqEmpty
    <3> QED
      BY <2>1, <2>2, <3>2
  <2>4. CASE e - 2 >= start + 1
    <3>1. start + 1 \in 1 .. Len(m_read_buf) /\ e - 2 \in 1 .. Len(m_read_buf)
      BY <1>2, <2>2, <2>4
    <3>2. SubSeq(m_read_buf \o x, start + 1, e - 2) = SubSeq(m_read_buf, start + 1, e - 2)
      BY <3>1, SubSeqOfConcat1
    <3> QED
      BY <2>1, <2>2, <3>2
  <2> QED
    BY <1>2, <2>2, <2>3, <2>4
<1> QED
  BY <1>1, <1>2, <1>3, <1>4
-----------------------------------------------------------------------------
(* Types *)

TypeOK ==
    /\ Indices /\ inbox \in Seq(STRING)
    /\ m_content_length \in Nat /\ replies \in Nat
    /\ pc \in {"read", "process", "reply", "closed"}
    /\ m_check_state \in {"REQUESTLINE", "HEADER", "CONTENT"}

LEMMA LengthType == \A text : LengthOf(text) \in Nat
  BY DEF LengthOf, Number

LEMMA NextLineType ==
  ASSUME TypeOK
  PROVE  /\ m_read_idx \in Nat
         /\ m_start_line \in 0 .. m_checked_idx /\ m_checked_idx \in 0 .. m_read_idx
         /\ NextLine.checked \in m_checked_idx .. m_read_idx
         /\ m_check_state # "CONTENT" => NextLine = parse_line
<1>1. /\ m_read_idx \in Nat
      /\ m_start_line \in 0 .. m_checked_idx /\ m_checked_idx \in 0 .. m_read_idx
  BY LenProperties DEF TypeOK, Indices, m_read_idx
<1>2. NextLine = Line("LINE_OK", m_checked_idx) \/ NextLine = parse_line
  BY DEF NextLine
<1>3. NextLine.checked \in m_checked_idx .. m_read_idx
  BY <1>1, <1>2, ParsedChecked, LineFields DEF TypeOK
<1> QED
  BY <1>1, <1>3 DEF NextLine

LEMMA TypeInit == Init => TypeOK
  BY StreamsAssumption, EmptySeq DEF Init, TypeOK, Indices, m_read_idx

LEMMA TypeStep == TypeOK /\ [Next]_vars => TypeOK'
<1> SUFFICES ASSUME TypeOK, [Next]_vars
             PROVE  TypeOK'
  OBVIOUS
<1>1. /\ m_read_buf \in Seq(STRING) /\ inbox \in Seq(STRING)
      /\ m_content_length \in Nat /\ replies \in Nat
      /\ pc \in {"read", "process", "reply", "closed"}
      /\ m_check_state \in {"REQUESTLINE", "HEADER", "CONTENT"}
  BY DEF TypeOK, Indices
<1>2. /\ m_read_idx \in Nat
      /\ m_start_line \in 0 .. m_checked_idx /\ m_checked_idx \in 0 .. m_read_idx
      /\ NextLine.checked \in m_checked_idx .. m_read_idx
  BY NextLineType
<1>3. ASSUME m_read_buf' = m_read_buf, m_checked_idx' \in m_checked_idx .. m_read_idx,
             m_start_line' \in 0 .. m_checked_idx'
      PROVE  Indices'
  BY <1>1, <1>2, <1>3 DEF Indices, m_read_idx
<1>4. CASE ReadOnce
  <2>1. PICK n \in 1 .. Len(inbox) :
           /\ m_read_buf' = m_read_buf \o SubSeq(inbox, 1, n)
           /\ inbox' = SubSeq(inbox, n + 1, Len(inbox))
    BY <1>4 DEF ReadOnce
  <2>2. SubSeq(inbox, 1, n) \in Seq(STRING) /\ inbox' \in Seq(STRING)
    <3>1. Len(inbox) \in Nat /\ \A i \in 1 .. Len(inbox) : inbox[i] \in STRING
      BY <1>1, LenProperties, ElementOfSeq
    <3> QED
      BY <2>1, <3>1, SubSeqProperties
  <2>3. m_read_buf' \in Seq(STRING) /\ m_read_idx' \in Nat /\ m_read_idx' >= m_read_idx
    BY <1>1, <2>1, <2>2, BufferGrown
  <2>4. /\ pc' = "process" /\ m_checked_idx' = m_checked_idx
        /\ m_start_line' = m_start_line /\ m_check_state' = m_check_state
        /\ m_content_length' = m_content_length /\ replies' = replies
    BY <1>4 DEF ReadOnce, lineVars, requestVars
  <2>5. Indices'
    BY <1>2, <2>3, <2>4 DEF Indices
  <2> QED
    BY <1>1, <2>2, <2>4, <2>5 DEF TypeOK
<1>5. CASE RequestLine
  BY <1>1, <1>2, <1>3, <1>5 DEF RequestLine, Round, Return, GoOn, TypeOK
<1>6. CASE Header
  <2>1. \E text : m_content_length' = IF HasLength(text) THEN LengthOf(text)
                                      ELSE m_content_length
    BY <1>6 DEF Header
  <2>2. m_content_length' \in Nat
    BY <1>1, <2>1, LengthType
  <2>3. /\ m_check_state' \in {"HEADER", "CONTENT"} /\ pc' = "reply"
        /\ inbox' = inbox /\ replies' = replies /\ m_read_buf' = m_read_buf
        /\ m_checked_idx' = NextLine.checked /\ m_start_line' = NextLine.checked
    BY <1>6 DEF Header, Round, HeaderVerdict, Return
  <2>4. Indices'
    BY <1>2, <1>3, <2>3
  <2> QED
    BY <1>1, <2>2, <2>3, <2>4 DEF TypeOK
<1>7. CASE Content
  BY <1>1, <1>2, <1>3, <1>7 DEF Content, Round, Return, GoOn, requestVars, TypeOK
<1>8. CASE NoRequest
  BY <1>1, <1>2, <1>3, <1>8 DEF NoRequest, requestVars, TypeOK
<1>9. CASE Kept
  <2>1. Indices'
    BY <1>9, EmptySeq DEF Kept, init, Indices, m_read_idx
  <2> QED
    BY <1>1, <1>9, <2>1 DEF Kept, init, TypeOK
<1>10. CASE ReadFails \/ Closed
  BY <1>1, <1>2, <1>3, <1>10 DEF ReadFails, Closed, lineVars, requestVars, TypeOK
<1>11. CASE Missed
  BY <1>1, <1>2, <1>3, <1>11 DEF Missed, lineVars, requestVars, TypeOK
<1>12. CASE UNCHANGED vars
  BY <1>1, <1>2, <1>3, <1>12 DEF vars, TypeOK
<1> QED
  BY <1>4, <1>5, <1>6, <1>7, <1>8, <1>9, <1>10, <1>11, <1>12 DEF Next, ProcessRead
-----------------------------------------------------------------------------
(* What a step does to the lines that are taken *)

LEMMA ConsumedType ==
  ASSUME TypeOK
  PROVE  /\ IsFiniteSet(LineEnds) /\ LineEnds \subseteq Nat
         /\ IsFiniteSet(Consumed) /\ Cardinality(Consumed) \in Nat
<1>1. LineEnds \subseteq 2 .. m_read_idx /\ m_read_idx \in Nat
  BY NextLineType DEF LineEnds
<1>2. IsFiniteSet(2 .. m_read_idx)
  BY <1>1, FS_Interval
<1>3. IsFiniteSet(LineEnds) /\ Consumed \subseteq LineEnds
  BY <1>1, <1>2, FS_Subset DEF Consumed
<1>4. IsFiniteSet(Consumed)
  BY <1>3, FS_Subset
<1>5. LineEnds \subseteq Nat
  BY <1>1
<1> QED
  BY <1>3, <1>4, <1>5, FS_CardinalityType

(* A round of the loop takes the next line.                                *)
LEMMA LineTaken ==
  ASSUME TypeOK, Scanned, m_check_state # "CONTENT", Round(m_check_state)
  PROVE  LET e == NextLine.checked
         IN  /\ Scanned' /\ LineEnds' = LineEnds /\ \A d : TextOf(d)' = TextOf(d)
             /\ e \in LineEnds /\ e \notin Consumed /\ \A d \in Consumed : d < e
             /\ Consumed' = Consumed \cup {e}
             /\ Cardinality(Consumed') = Cardinality(Consumed) + 1
             /\ LineText = TextOf(e)
<1> DEFINE e == NextLine.checked
<1>1. /\ NextLine = parse_line /\ parse_line.state = "LINE_OK"
      /\ m_checked_idx' = e /\ m_start_line' = e /\ m_read_buf' = m_read_buf
  BY NextLineType DEF Round
<1>2. /\ e \in LineEnds /\ e > m_start_line
      /\ \A d \in LineEnds : d < e => d <= m_start_line
      /\ TextOf(e) = SubSeq(m_read_buf, m_start_line + 1, e - 2)
  BY <1>1, ParsedLine DEF TypeOK
<1>3. LineEnds' = LineEnds /\ \A d : TextOf(d)' = TextOf(d)
  BY <1>1, BufferSame
<1>4. LineEnds \subseteq Nat /\ m_start_line \in Nat /\ e \in Nat
  BY <1>2, ConsumedType, NextLineType
<1>5. LineText = TextOf(e)
  BY <1>2 DEF LineText
<1> HIDE DEF e
<1>6. Scanned'
  <2>1. m_start_line' \in LineEnds'
    BY <1>1, <1>2, <1>3
  <2>2. m_start_line' + 1 .. m_checked_idx' = {}
    BY <1>1, <1>4
  <2> QED
    BY <2>1, <2>2 DEF Scanned
<1>7. \A d : d \in Consumed' <=> d \in LineEnds /\ d <= e
  BY <1>1, <1>3 DEF Consumed
<1>8. Consumed' = Consumed \cup {e} /\ e \notin Consumed /\ \A d \in Consumed : d < e
  <2>1. \A d : d \in Consumed <=> d \in LineEnds /\ d <= m_start_line
    BY DEF Consumed
  <2>2. \A d \in LineEnds : d <= e <=> d <= m_start_line \/ d = e
    BY <1>2, <1>4
  <2>3. ~(e <= m_start_line)
    BY <1>2, <1>4
  <2>4. Consumed' = Consumed \cup {e}
    BY <1>2, <1>7, <2>1, <2>2
  <2>5. e \notin Consumed
    BY <2>1, <2>3
  <2>6. ASSUME NEW d \in Consumed
        PROVE  d < e
    <3>1. d \in Nat /\ d <= m_start_line
      BY <1>4, <2>1
    <3> QED
      BY <1>2, <1>4, <3>1
  <2> QED
    BY <2>4, <2>5, <2>6
<1>9. Cardinality(Consumed \cup {e}) = Cardinality(Consumed) + 1
  BY <1>8, ConsumedType, FS_AddElement
<1> QED
  BY <1>2, <1>3, <1>5, <1>6, <1>8, <1>9 DEF e

(* Without a complete line every line has been taken.                      *)
LEMMA NoneLeft ==
  ASSUME TypeOK, Scanned, m_check_state # "CONTENT", NoRequest
  PROVE  /\ Scanned' /\ LineEnds' = LineEnds /\ \A d : TextOf(d)' = TextOf(d)
         /\ Consumed = LineEnds /\ Consumed' = Consumed
<1>1. /\ NextLine = parse_line /\ parse_line.state # "LINE_OK"
      /\ m_checked_idx' = parse_line.checked /\ m_start_line' = m_start_line
      /\ m_read_buf' = m_read_buf
  BY NextLineType DEF NoRequest
<1>2. /\ \A d \in LineEnds : d <= m_start_line
      /\ \A j \in m_start_line + 1 .. parse_line.checked : Plain(j)
  BY <1>1, ParsedLine DEF TypeOK
<1>3. LineEnds' = LineEnds /\ \A d : TextOf(d)' = TextOf(d)
  BY <1>1, BufferSame
<1>4. Consumed = LineEnds /\ Consumed' = LineEnds
  BY <1>1, <1>2, <1>3 DEF Consumed
<1>5. Scanned'
  <2>1. m_start_line' \in LineEnds' \cup {0}
    BY <1>1, <1>3 DEF Scanned
  <2>2. \A j \in m_start_line' + 1 .. m_checked_idx' : Plain(j)'
    BY <1>1, <1>2 DEF Plain
  <2> QED
    BY <2>1, <2>2 DEF Scanned
<1> QED
  BY <1>3, <1>4, <1>5

(* What comes in changes nothing that has been taken.                      *)
LEMMA TakenKept ==
  ASSUME TypeOK, ReadOnce
  PROVE  /\ Scanned => Scanned'
         /\ Consumed' = Consumed
         /\ \A e \in LineEnds : e \in LineEnds' /\ TextOf(e)' = TextOf(e)
<1>1. PICK n \in 1 .. Len(inbox) : m_read_buf' = m_read_buf \o SubSeq(inbox, 1, n)
  BY DEF ReadOnce
<1>2. SubSeq(inbox, 1, n) \in Seq(STRING) /\ m_read_buf \in Seq(STRING)
  <2>1. inbox \in Seq(STRING) /\ m_read_buf \in Seq(STRING)
    BY DEF TypeOK, Indices
  <2>2. Len(inbox) \in Nat /\ \A i \in 1 .. Len(inbox) : inbox[i] \in STRING
    BY <2>1, LenProperties, ElementOfSeq
  <2> QED
    BY <2>1, <2>2, SubSeqProperties
<1>3. /\ m_read_idx \in Nat /\ m_read_idx' \in Nat /\ m_read_idx' >= m_read_idx
      /\ \A j \in 1 .. m_read_idx : m_read_buf'[j] = m_read_buf[j]
      /\ \A e \in 1 .. m_read_idx : e \in LineEnds' <=> e \in LineEnds
      /\ \A e \in LineEnds : e \in 1 .. m_read_idx /\ TextOf(e)' = TextOf(e)
  BY <1>1, <1>2, BufferGrown
<1>4. /\ m_start_line \in 0 .. m_checked_idx /\ m_checked_idx \in 0 .. m_read_idx
      /\ m_start_line' = m_start_line /\ m_checked_idx' = m_checked_idx
  BY NextLineType DEF ReadOnce, lineVars
<1>5. Consumed' = Consumed
  <2>1. \A e \in LineEnds' : e \in 2 .. m_read_idx'
    BY DEF LineEnds
  <2>2. ASSUME NEW e
        PROVE  e \in LineEnds' /\ e <= m_start_line <=> e \in LineEnds /\ e <= m_start_line
    BY <1>3, <1>4, <2>1
  <2> QED
    BY <1>4, <2>2 DEF Consumed
<1>6. ASSUME Scanned
      PROVE  Scanned'
  BY <1>3, <1>4, <1>6 DEF Scanned, Plain
<1> QED
  BY <1>3, <1>5, <1>6

-----------------------------------------------------------------------------
(* The inductive invariant: while the request has no body to wait for, the *)
(* lines taken, what they say and the replies made agree; once it has, two *)
(* replies were made, and the blank line has been passed.                  *)
HeaderState == IF m_check_state = "HEADER" THEN 1 ELSE 0

Counted ==
    /\ pc \in {"read", "process"} => Cardinality(Consumed) = replies + HeaderState
    /\ pc = "reply" => /\ Cardinality(Consumed) = replies + 1 + HeaderState
                       /\ ret = "BAD_REQUEST"
    /\ pc = "read" /\ ret = "NO_REQUEST" => Consumed = LineEnds

\* A blank line after an accepted request line, room before idx.
Blank(e) == e \in HeadersOf(LineEnds) /\ TextOf(e) = <<>>

Answered ==
    /\ pc \in {"read", "process"} /\ m_content_length # 0 => replies >= 1
    /\ m_check_state = "CONTENT" =>
         /\ \E e \in LineEnds : Blank(e) /\ e <= m_checked_idx
         /\ pc \in {"read", "process"} => replies >= 2
         /\ pc = "reply" => \/ replies >= 2
                            \/ replies >= 1 /\ ret = "BAD_REQUEST"
    /\ pc = "reply" /\ ret # "BAD_REQUEST" =>
         /\ m_check_state = "CONTENT"
         /\ \E e \in LineEnds : Blank(e) /\ e + m_content_length <= m_read_idx

ParseInv ==
    /\ TypeOK /\ Answered
    /\ m_check_state # "CONTENT" => Scanned /\ Counted /\ Remembered

LEMMA ParseInvInit == Init => ParseInv
<1> SUFFICES ASSUME Init
             PROVE  ParseInv
  OBVIOUS
<1>1. TypeOK
  BY TypeInit
<1>2. m_read_idx = 0
  BY DEF Init, m_read_idx
<1>3. LineEnds = {} /\ Consumed = {}
  BY <1>2 DEF LineEnds, Consumed
<1>4. Scanned
  BY DEF Init, Scanned
<1>5. Counted
  BY <1>3, FS_EmptySet DEF Init, Counted, HeaderState
<1>6. Remembered
  BY <1>3 DEF Init, Remembered, HeadersOf
<1>7. Answered
  BY DEF Init, Answered
<1> QED
  BY <1>1, <1>4, <1>5, <1>6, <1>7 DEF ParseInv
-----------------------------------------------------------------------------
(* Remembered, step by step *)

\* The header lines taken, in the form the proofs use.
LEMMA HeadersAre ==
  /\ \A e : e \in HeadersOf(Consumed)
              <=> e \in Consumed /\ \E d \in Consumed : d < e /\ RequestLineOK(TextOf(d))
  /\ \A e : e \in HeadersOf(LineEnds)
              <=> e \in LineEnds /\ \E d \in LineEnds : d < e /\ RequestLineOK(TextOf(d))
  BY DEF HeadersOf

LEMMA RememberedRequestLine ==
  ASSUME TypeOK, Scanned, Remembered, RequestLine
  PROVE  Remembered'
<1>1. m_check_state = "REQUESTLINE" /\ Round(m_check_state)
  BY DEF RequestLine, Round
<1>2. PICK e :
      /\ \A d : TextOf(d)' = TextOf(d)
      /\ \A d \in Consumed : d < e
      /\ Consumed' = Consumed \cup {e} /\ LineText = TextOf(e)
      /\ Consumed \subseteq Nat /\ e \in Nat
  <2>1. Consumed \subseteq LineEnds
    BY DEF Consumed
  <2> QED
    BY <1>1, <2>1, LineTaken, ConsumedType
<1>3. \A d \in Consumed : ~RequestLineOK(TextOf(d))
  BY <1>1 DEF Remembered
<1>4. HeadersOf(Consumed) = {}
  BY <1>3, HeadersAre
<1>5. m_linger = FALSE /\ m_content_length = 0
  BY <1>1, <1>4 DEF Remembered
<1>6. HeadersOf(Consumed)' = {}
  <2>1. \A d : d \in HeadersOf(Consumed)'
                 <=> d \in Consumed' /\ \E c \in Consumed' : c < d /\ RequestLineOK(TextOf(c))
    BY <1>2 DEF HeadersOf
  <2>2. ASSUME NEW d \in Consumed', NEW c \in Consumed', c < d
        PROVE  ~RequestLineOK(TextOf(c))
    BY <1>2, <1>3, <2>2
  <2> QED
    BY <2>1, <2>2
<1>7. /\ m_linger' = FALSE /\ m_content_length' = 0
      /\ m_check_state' = "HEADER" <=> RequestLineOK(LineText)
  BY <1>1, <1>5 DEF RequestLine, RequestLineOK
<1>8. m_check_state' = "HEADER" <=> \E d \in Consumed' : RequestLineOK(TextOf(d)')
  BY <1>2, <1>3, <1>7
<1> QED
  BY <1>6, <1>7, <1>8 DEF Remembered

LEMMA RememberedHeader ==
  ASSUME TypeOK, Scanned, Remembered, Header, m_check_state' # "CONTENT"
  PROVE  Remembered'
<1>1. m_check_state = "HEADER" /\ Round(m_check_state)
  BY DEF Header, Round
<1>2. PICK e :
      /\ \A d : TextOf(d)' = TextOf(d)
      /\ \A d \in Consumed : d < e
      /\ Consumed' = Consumed \cup {e} /\ LineText = TextOf(e)
      /\ Consumed \subseteq Nat /\ e \in Nat
  <2>1. Consumed \subseteq LineEnds
    BY DEF Consumed
  <2> QED
    BY <1>1, <2>1, LineTaken, ConsumedType
<1> DEFINE text == LineText
<1>3. /\ m_check_state' = "HEADER"
      /\ m_linger' = (m_linger \/ KeepAlive(text))
      /\ m_content_length' = IF HasLength(text) THEN LengthOf(text)
                             ELSE m_content_length
  BY DEF Header
<1> HIDE DEF text
<1>4. \E d \in Consumed : RequestLineOK(TextOf(d))
  BY <1>1 DEF Remembered
<1> DEFINE H == HeadersOf(Consumed)
           lengths == {d \in H : HasLength(TextOf(d))}
<1>5. HeadersOf(Consumed)' = H \cup {e}
  <2>1. \A d : d \in HeadersOf(Consumed)'
                 <=> d \in Consumed' /\ \E c \in Consumed' : c < d /\ RequestLineOK(TextOf(c))
    BY <1>2 DEF HeadersOf
  <2>2. \A d \in Consumed : ~(e < d)
    BY <1>2
  <2>3. ASSUME NEW d \in HeadersOf(Consumed)' PROVE d \in H \cup {e}
    BY <1>2, <2>1, <2>2, HeadersAre
  <2>4. ASSUME NEW d \in H PROVE d \in HeadersOf(Consumed)'
    BY <1>2, <2>1, HeadersAre
  <2>5. e \in HeadersOf(Consumed)'
    BY <1>2, <1>4, <2>1
  <2> QED
    BY <2>3, <2>4, <2>5
<1>6. H \subseteq Consumed
  BY HeadersAre
<1>7. /\ m_linger <=> \E d \in H : KeepAlive(TextOf(d))
      /\ IF lengths = {} THEN m_content_length = 0
         ELSE \E d \in lengths : /\ \A c \in lengths : c <= d
                                 /\ m_content_length = LengthOf(TextOf(d))
  BY <1>1 DEF Remembered
<1> HIDE DEF H
<1>8. m_linger' <=> \E d \in HeadersOf(Consumed)' : KeepAlive(TextOf(d)')
  BY <1>2, <1>3, <1>5, <1>7 DEF text
<1>9. m_check_state' = "HEADER" <=> \E d \in Consumed' : RequestLineOK(TextOf(d)')
  BY <1>2, <1>3, <1>4
<1> DEFINE new == {d \in HeadersOf(Consumed)' : HasLength(TextOf(d)')}
<1>10. \A d : d \in new <=> d \in lengths \/ (d = e /\ HasLength(text))
  BY <1>2, <1>5 DEF text
<1>11. lengths \subseteq Consumed
  BY <1>6
<1> HIDE DEF new, lengths
<1>12. IF new = {} THEN m_content_length' = 0
       ELSE \E d \in new : /\ \A c \in new : c <= d
                           /\ m_content_length' = LengthOf(TextOf(d)')
  <2>1. CASE HasLength(text)
    <3>1. e \in new /\ m_content_length' = LengthOf(TextOf(e)')
      BY <1>2, <1>3, <1>10, <2>1 DEF text
    <3>2. ASSUME NEW c \in new
          PROVE  c <= e
      <4>1. c = e \/ c \in Consumed
        BY <1>10, <1>11
      <4>2. c \in Nat /\ e \in Nat
        BY <1>2, <4>1
      <4>3. c = e \/ c < e
        BY <1>2, <4>1
      <4> QED
        BY <4>2, <4>3
    <3> QED
      BY <3>1, <3>2
  <2>2. CASE ~HasLength(text)
    <3>1. new = lengths /\ m_content_length' = m_content_length
      BY <1>3, <1>10, <2>2
    <3> QED
      BY <1>2, <1>7, <3>1
  <2> QED
    BY <2>1, <2>2
<1> QED
  BY <1>8, <1>9, <1>12 DEF Remembered, new
-----------------------------------------------------------------------------
(* The invariant, step by step *)

LEMMA SlotSame ==
  ASSUME UNCHANGED <<m_read_buf, lineVars, requestVars>>
  PROVE  /\ Scanned => Scanned'
         /\ Remembered => Remembered'
         /\ Consumed' = Consumed /\ LineEnds' = LineEnds /\ m_read_idx' = m_read_idx
         /\ \A e : Blank(e)' <=> Blank(e)
<1>1. /\ m_read_buf' = m_read_buf /\ m_checked_idx' = m_checked_idx
      /\ m_start_line' = m_start_line /\ m_check_state' = m_check_state
      /\ m_linger' = m_linger /\ m_content_length' = m_content_length
  BY DEF lineVars, requestVars
<1>2. /\ LineEnds' = LineEnds /\ m_read_idx' = m_read_idx
      /\ \A e : TextOf(e)' = TextOf(e)
  BY <1>1, BufferSame
<1>3. Consumed' = Consumed
  BY <1>1, <1>2 DEF Consumed
<1>4. ASSUME Scanned PROVE Scanned'
  BY <1>1, <1>2, <1>4 DEF Scanned, Plain
<1>5. ASSUME Remembered PROVE Remembered'
  BY <1>1, <1>2, <1>3, <1>5 DEF Remembered, HeadersOf
<1>6. \A e : Blank(e)' <=> Blank(e)
  BY <1>2 DEF Blank, HeadersOf
<1> QED
  BY <1>2, <1>3, <1>4, <1>5, <1>6

LEMMA BlankKept ==
  ASSUME \A e \in LineEnds : e \in LineEnds' /\ TextOf(e)' = TextOf(e),
         NEW e \in LineEnds, Blank(e)
  PROVE  Blank(e)'
  BY DEF Blank, HeadersOf

LEMMA ParseReadOnce == ParseInv /\ ReadOnce => ParseInv'
<1> SUFFICES ASSUME ParseInv, ReadOnce
             PROVE  ParseInv'
  OBVIOUS
<1>1. TypeOK /\ TypeOK' /\ Answered
  BY TypeStep DEF ParseInv, Next
<1>2. /\ pc = "read" /\ pc' = "process" /\ ret' = "NO_REQUEST"
      /\ m_check_state' = m_check_state /\ m_linger' = m_linger
      /\ m_content_length' = m_content_length /\ replies' = replies
      /\ m_checked_idx' = m_checked_idx
  BY DEF ReadOnce, lineVars, requestVars
<1>3. /\ Scanned => Scanned'
      /\ Consumed' = Consumed
      /\ \A e \in LineEnds : e \in LineEnds' /\ TextOf(e)' = TextOf(e)
  BY <1>1, TakenKept
<1>4. ASSUME m_check_state # "CONTENT"
      PROVE  Scanned' /\ Counted' /\ Remembered'
  <2>1. Scanned /\ Counted /\ Remembered
    BY <1>4 DEF ParseInv
  <2>2. Counted'
    BY <1>2, <1>3, <2>1 DEF Counted, HeaderState
  <2>3. \A e \in Consumed : TextOf(e)' = TextOf(e)
    BY <1>3 DEF Consumed
  <2>4. HeadersOf(Consumed)' = HeadersOf(Consumed)
    BY <1>3, <2>3 DEF HeadersOf
  <2>5. HeadersOf(Consumed) \subseteq Consumed
    BY HeadersAre
  <2>6. Remembered'
    <3> DEFINE H == HeadersOf(Consumed)
    <3>1. /\ m_check_state = "HEADER" <=> \E e \in Consumed : RequestLineOK(TextOf(e))
          /\ m_linger <=> \E e \in H : KeepAlive(TextOf(e))
          /\ LET lengths == {e \in H : HasLength(TextOf(e))}
             IN  IF lengths = {} THEN m_content_length = 0
                 ELSE \E e \in lengths : /\ \A d \in lengths : d <= e
                                         /\ m_content_length = LengthOf(TextOf(e))
      BY <1>4, <2>1 DEF Remembered
    <3> HIDE DEF H
    <3>2. {e \in HeadersOf(Consumed)' : HasLength(TextOf(e)')}
            = {e \in H : HasLength(TextOf(e))}
      BY <2>3, <2>4, <2>5 DEF H
    <3>3. m_check_state' = "HEADER" <=> \E e \in Consumed' : RequestLineOK(TextOf(e)')
      BY <1>2, <1>3, <2>3, <3>1
    <3>4. m_linger' <=> \E e \in HeadersOf(Consumed)' : KeepAlive(TextOf(e)')
      BY <1>2, <2>3, <2>4, <2>5, <3>1 DEF H
    <3>5. LET lengths == {e \in HeadersOf(Consumed)' : HasLength(TextOf(e)')}
          IN  IF lengths = {} THEN m_content_length' = 0
              ELSE \E e \in lengths : /\ \A d \in lengths : d <= e
                                      /\ m_content_length' = LengthOf(TextOf(e)')
      <4>1. \A e \in H : TextOf(e)' = TextOf(e)
        BY <2>3, <2>5 DEF H
      <4> QED
        BY <1>2, <3>1, <3>2, <4>1
    <3> QED
      BY <3>3, <3>4, <3>5 DEF Remembered
  <2> QED
    BY <1>3, <2>1, <2>2, <2>6
<1>5. Answered'
  <2>1. ASSUME m_check_state = "CONTENT"
        PROVE  /\ replies >= 2
               /\ \E e \in LineEnds' : Blank(e)' /\ e <= m_checked_idx'
    <3>1. PICK e \in LineEnds : Blank(e) /\ e <= m_checked_idx
      BY <1>1, <2>1 DEF Answered
    <3>2. Blank(e)'
      BY <1>3, <3>1, BlankKept
    <3> QED
      BY <1>1, <1>2, <1>3, <2>1, <3>1, <3>2 DEF Answered
  <2> QED
    BY <1>1, <1>2, <2>1 DEF Answered
<1> QED
  BY <1>1, <1>2, <1>4, <1>5 DEF ParseInv

LEMMA ParseRequestLine == ParseInv /\ RequestLine => ParseInv'
<1> SUFFICES ASSUME ParseInv, RequestLine
             PROVE  ParseInv'
  OBVIOUS
<1>1. TypeOK /\ TypeOK' /\ Answered
  BY TypeStep DEF ParseInv, Next, ProcessRead
<1>2. m_check_state = "REQUESTLINE" /\ Round(m_check_state) /\ pc = "process"
  BY DEF RequestLine, Round
<1>3. Scanned /\ Counted /\ Remembered
  BY <1>2 DEF ParseInv
<1>4. Scanned' /\ Cardinality(Consumed') = Cardinality(Consumed) + 1
  BY <1>1, <1>2, <1>3, LineTaken
<1>5. Remembered'
  BY <1>1, <1>3, RememberedRequestLine
<1>6. /\ \/ m_check_state' = "HEADER" /\ pc' = pc /\ ret' = ret
         \/ m_check_state' = m_check_state /\ pc' = "reply" /\ ret' = "BAD_REQUEST"
      /\ m_content_length' = m_content_length /\ replies' = replies
  BY DEF RequestLine, Round, Return, GoOn
<1>7. Counted'
  BY <1>1, <1>2, <1>3, <1>4, <1>6, ConsumedType DEF Counted, HeaderState, TypeOK
<1>8. Answered'
  BY <1>1, <1>2, <1>6 DEF Answered
<1> QED
  BY <1>1, <1>4, <1>5, <1>7, <1>8 DEF ParseInv

LEMMA ParseHeader == ParseInv /\ Header => ParseInv'
<1> SUFFICES ASSUME ParseInv, Header
             PROVE  ParseInv'
  OBVIOUS
<1>1. TypeOK /\ TypeOK' /\ Answered
  BY TypeStep DEF ParseInv, Next, ProcessRead
<1>2. m_check_state = "HEADER" /\ Round(m_check_state) /\ pc = "process"
  BY DEF Header, Round
<1>3. Scanned /\ Counted /\ Remembered
  BY <1>2 DEF ParseInv
<1>4. PICK e :
        /\ Scanned' /\ LineEnds' = LineEnds /\ \A d : TextOf(d)' = TextOf(d)
        /\ e \in LineEnds /\ \A d \in Consumed : d < e
        /\ Cardinality(Consumed') = Cardinality(Consumed) + 1
        /\ LineText = TextOf(e) /\ e = NextLine.checked
  BY <1>1, <1>2, <1>3, LineTaken
<1>5. /\ pc' = "reply" /\ ret' = "BAD_REQUEST" /\ replies' = replies
      /\ m_checked_idx' = NextLine.checked
      /\ \/ m_check_state' = "HEADER"
         \/ m_check_state' = "CONTENT" /\ LineText = <<>> /\ m_content_length # 0
  BY DEF Header, Round, HeaderVerdict, Return
<1>6. ASSUME m_check_state' # "CONTENT"
      PROVE  Counted'
  BY <1>1, <1>2, <1>3, <1>4, <1>5, <1>6, ConsumedType
     DEF Counted, HeaderState, TypeOK
<1>7. ASSUME m_check_state' # "CONTENT"
      PROVE  Remembered'
  BY <1>1, <1>3, <1>7, RememberedHeader
<1>8. ASSUME m_check_state' = "CONTENT"
      PROVE  replies' >= 1 /\ \E d \in LineEnds' : Blank(d)' /\ d <= m_checked_idx'
  <2>1. replies >= 1
    BY <1>1, <1>2, <1>5, <1>8 DEF Answered
  <2>2. \E d \in LineEnds : d < e /\ RequestLineOK(TextOf(d))
    <3>1. PICK d \in Consumed : RequestLineOK(TextOf(d))
      BY <1>2, <1>3 DEF Remembered
    <3> QED
      BY <1>4, <3>1 DEF Consumed
  <2>3. Blank(e)
    BY <1>4, <1>5, <1>8, <2>2, HeadersAre DEF Blank
  <2>4. Blank(e)'
    BY <1>4, <2>3, BlankKept
  <2>5. e <= m_checked_idx'
    BY <1>1, <1>4, <1>5, ConsumedType
  <2> QED
    BY <1>4, <1>5, <2>1, <2>4, <2>5
<1>9. Answered'
  BY <1>5, <1>8 DEF Answered
<1> QED
  BY <1>1, <1>4, <1>6, <1>7, <1>9 DEF ParseInv

LEMMA ParseContent == ParseInv /\ Content => ParseInv'
<1> SUFFICES ASSUME ParseInv, Content
             PROVE  ParseInv'
  OBVIOUS
<1>1. TypeOK /\ TypeOK' /\ Answered
  BY TypeStep DEF ParseInv, Next, ProcessRead
<1>2. /\ m_check_state = "CONTENT" /\ m_check_state' = "CONTENT" /\ pc = "process"
      /\ m_content_length' = m_content_length /\ replies' = replies
      /\ m_checked_idx' = NextLine.checked /\ m_read_buf' = m_read_buf
      /\ \/ pc' = "process"
         \/ pc' = "reply" /\ m_read_idx >= m_content_length + NextLine.checked
  BY DEF Content, Round, Return, GoOn, requestVars
<1>3. /\ LineEnds' = LineEnds /\ m_read_idx' = m_read_idx
      /\ \A d : TextOf(d)' = TextOf(d)
  BY <1>2, BufferSame
<1>4. PICK e \in LineEnds : Blank(e) /\ e <= m_checked_idx
  BY <1>1, <1>2 DEF Answered
<1>5. Blank(e)'
  BY <1>3, <1>4, BlankKept
<1>6. /\ e \in Nat /\ m_checked_idx \in Nat /\ m_read_idx \in Nat
      /\ NextLine.checked \in m_checked_idx .. m_read_idx /\ m_content_length \in Nat
  BY <1>1, ConsumedType, NextLineType DEF TypeOK
<1>7. /\ e <= m_checked_idx'
      /\ pc' = "reply" => e + m_content_length' <= m_read_idx'
  BY <1>2, <1>3, <1>4, <1>6
<1>8. replies >= 2 /\ replies \in Nat
  BY <1>1, <1>2 DEF Answered, TypeOK
<1>9. Answered'
  BY <1>2, <1>3, <1>5, <1>7, <1>8 DEF Answered
<1> QED
  BY <1>1, <1>2, <1>9 DEF ParseInv

LEMMA ParseNoRequest == ParseInv /\ NoRequest => ParseInv'
<1> SUFFICES ASSUME ParseInv, NoRequest
             PROVE  ParseInv'
  OBVIOUS
<1>1. TypeOK /\ TypeOK' /\ Answered
  BY TypeStep DEF ParseInv, Next, ProcessRead
<1>2. /\ pc = "process" /\ pc' = "read" /\ m_checked_idx' = NextLine.checked
      /\ m_read_buf' = m_read_buf /\ m_check_state' = m_check_state
      /\ m_linger' = m_linger /\ m_content_length' = m_content_length
      /\ replies' = replies
  BY DEF NoRequest, requestVars
<1>3. /\ LineEnds' = LineEnds /\ \A d : TextOf(d)' = TextOf(d)
  BY <1>2, BufferSame
<1>4. ASSUME m_check_state # "CONTENT"
      PROVE  Scanned' /\ Counted' /\ Remembered'
  <2>1. Scanned /\ Counted /\ Remembered
    BY <1>4 DEF ParseInv
  <2>2. Scanned' /\ Consumed = LineEnds /\ Consumed' = Consumed
    BY <1>1, <1>4, <2>1, NoneLeft
  <2>3. Counted'
    BY <1>2, <1>3, <2>1, <2>2 DEF Counted, HeaderState
  <2>4. Remembered'
    BY <1>2, <1>3, <2>1, <2>2 DEF Remembered, HeadersOf
  <2> QED
    BY <2>2, <2>3, <2>4
<1>5. ASSUME m_check_state = "CONTENT"
      PROVE  /\ replies >= 2
             /\ \E e \in LineEnds' : Blank(e)' /\ e <= m_checked_idx'
  <2>1. PICK e \in LineEnds : Blank(e) /\ e <= m_checked_idx
    BY <1>1, <1>5 DEF Answered
  <2>2. Blank(e)'
    BY <1>3, <2>1, BlankKept
  <2>3. e <= m_checked_idx'
    BY <1>1, <1>2, <2>1, ConsumedType, NextLineType
  <2> QED
    BY <1>1, <1>2, <1>3, <1>5, <2>2, <2>3 DEF Answered
<1>6. Answered'
  BY <1>1, <1>2, <1>5 DEF Answered
<1> QED
  BY <1>1, <1>2, <1>4, <1>6 DEF ParseInv

LEMMA ParseKept == ParseInv /\ Kept => ParseInv'
<1> SUFFICES ASSUME ParseInv, Kept
             PROVE  ParseInv'
  OBVIOUS
<1>1. TypeOK'
  BY TypeStep DEF ParseInv, Next
<1>2. /\ m_checked_idx' = 0 /\ m_start_line' = 0 /\ m_check_state' = "REQUESTLINE"
      /\ m_linger' = FALSE /\ m_content_length' = 0 /\ m_read_buf' = <<>>
      /\ pc' = "read" /\ replies' = 0
  BY DEF Kept, init
<1>3. m_read_idx' = 0
  BY <1>2 DEF m_read_idx
<1>4. LineEnds' = {} /\ Consumed' = {}
  BY <1>3 DEF LineEnds, Consumed
<1>5. Scanned'
  BY <1>2 DEF Scanned
<1>6. Counted'
  BY <1>2, <1>4, FS_EmptySet DEF Counted, HeaderState
<1>7. Remembered'
  BY <1>2, <1>4 DEF Remembered, HeadersOf
<1>8. Answered'
  BY <1>2 DEF Answered
<1> QED
  BY <1>1, <1>5, <1>6, <1>7, <1>8 DEF ParseInv

LEMMA ParseEnd ==
  ParseInv /\ (ReadFails \/ Closed \/ Missed \/ UNCHANGED vars) => ParseInv'
<1> SUFFICES ASSUME ParseInv, ReadFails \/ Closed \/ Missed \/ UNCHANGED vars
             PROVE  ParseInv'
  OBVIOUS
<1>1. TypeOK /\ TypeOK' /\ Answered
  BY TypeStep DEF ParseInv, Next
<1>2. /\ UNCHANGED <<m_read_buf, lineVars, requestVars>>
      /\ ret' = ret
      /\ \/ pc' = "closed" /\ replies' = replies
         \/ pc' = pc /\ replies' = replies
         \/ pc = "reply" /\ pc' = "read" /\ replies' = replies + 1
  BY DEF ReadFails, Closed, Missed, vars, lineVars, requestVars
<1>3. /\ Scanned => Scanned'
      /\ Remembered => Remembered'
      /\ Consumed' = Consumed /\ LineEnds' = LineEnds /\ m_read_idx' = m_read_idx
      /\ \A e : Blank(e)' <=> Blank(e)
  BY <1>2, SlotSame
<1>4. /\ m_check_state' = m_check_state /\ m_checked_idx' = m_checked_idx
      /\ m_content_length' = m_content_length /\ replies \in Nat
  BY <1>1, <1>2 DEF lineVars, requestVars, TypeOK
<1>5. ASSUME Counted
      PROVE  Counted'
  BY <1>2, <1>3, <1>4, <1>5 DEF Counted, HeaderState
<1>6. Answered'
  BY <1>1, <1>2, <1>3, <1>4 DEF Answered
<1> QED
  BY <1>1, <1>3, <1>4, <1>5, <1>6 DEF ParseInv

LEMMA ParseInvStep == ParseInv /\ [Next]_vars => ParseInv'
  BY ParseReadOnce, ParseRequestLine, ParseHeader, ParseContent, ParseNoRequest,
     ParseKept, ParseEnd DEF Next, ProcessRead

LEMMA ParseInvHolds == Spec => []ParseInv
  BY ParseInvInit, ParseInvStep, PTL DEF Spec

-----------------------------------------------------------------------------
(* The loop of process_read() *)

(* A line that parse_line() completes moves m_checked_idx.                 *)
LEMMA LinePassed ==
  ASSUME Indices, parse_line.state = "LINE_OK"
  PROVE  parse_line.checked >= m_checked_idx + 1
<1>1. m_checked_idx \in Nat /\ m_read_idx \in Nat
  BY LenProperties DEF Indices, m_read_idx
<1>2. LineStop \in m_checked_idx + 1 .. m_read_idx + 1
  BY StopIs
<1>3. ASSUME NEW state, NEW idx, parse_line = Line(state, idx)
      PROVE  state = "LINE_OK" /\ parse_line.checked = idx
  BY <1>3, LineFields
<1>4. \/ parse_line = Line("LINE_OK", LineStop + 1)
      \/ parse_line = Line("LINE_OK", LineStop)
  <2>1. ~(parse_line = Line("LINE_OPEN", m_read_idx))
    BY <1>3
  <2>2. ~(parse_line = Line("LINE_OPEN", LineStop - 1))
    BY <1>3
  <2>3. ~(parse_line = Line("LINE_BAD", LineStop - 1))
    BY <1>3
  <2> QED
    BY <2>1, <2>2, <2>3, ParsedIs
<1>5. parse_line.checked = LineStop + 1 \/ parse_line.checked = LineStop
  BY <1>3, <1>4
<1> QED
  BY <1>1, <1>2, <1>5

\* The next round looks at the body, where it stands.
BodyNext == m_check_state = "CONTENT" /\ line_state = "LINE_OK"

(* That round has still to be accounted for; outside a call none is.       *)
RoundsInv ==
    /\ rounds \in Nat /\ (pc # "process" => rounds = 0)
    /\ rounds <= m_checked_idx + 1 /\ (BodyNext => rounds <= m_checked_idx)

LEMMA RoundsInvStep == TypeOK /\ RoundsInv /\ [Next]_vars => RoundsInv'
<1> SUFFICES ASSUME TypeOK, RoundsInv, [Next]_vars
             PROVE  RoundsInv'
  OBVIOUS
<1>1. TypeOK'
  BY TypeStep
<1>2. m_checked_idx \in Nat /\ m_checked_idx' \in Nat /\ rounds \in Nat
  <2>1. m_read_idx \in Nat /\ m_read_idx' \in Nat
    BY <1>1, LenProperties DEF TypeOK, Indices, m_read_idx
  <2> QED
    BY <1>1, <2>1 DEF TypeOK, Indices, RoundsInv
<1>3. ASSUME rounds' = 0
      PROVE  RoundsInv'
  <2> DEFINE idx == m_checked_idx'
  <2>1. idx \in Nat
    BY <1>2
  <2> HIDE DEF idx
  <2>2. 0 <= idx /\ 0 <= idx + 1
    BY <2>1
  <2> QED
    BY <1>3, <2>2 DEF RoundsInv, idx
<1>4. ASSUME GoOn, pc = "process", ~BodyNext', rounds <= m_checked_idx'
      PROVE  RoundsInv'
  <2>1. pc' = "process" /\ (rounds' = rounds \/ rounds' = rounds + 1)
    BY <1>4 DEF GoOn
  <2>2. rounds' \in Nat /\ rounds' <= m_checked_idx' + 1
    BY <1>2, <1>4, <2>1
  <2> QED
    BY <1>4, <2>1, <2>2 DEF RoundsInv
<1>5. CASE ReadOnce \/ ReadFails \/ Kept \/ Closed \/ Missed
  <2>1. pc # "process" /\ rounds' = rounds
    BY <1>5 DEF ReadOnce, ReadFails, Kept, Closed, Missed
  <2> QED
    BY <1>3, <2>1 DEF RoundsInv
<1>6. CASE RequestLine
  <2>1. /\ pc = "process" /\ m_check_state = "REQUESTLINE"
        /\ NextLine.state = "LINE_OK" /\ m_checked_idx' = NextLine.checked
    BY <1>6 DEF RequestLine, Round
  <2>2. m_checked_idx' >= m_checked_idx + 1
    BY <2>1, LinePassed, NextLineType DEF TypeOK
  <2>3. rounds <= m_checked_idx'
    BY <1>2, <2>2 DEF RoundsInv
  <2>4. rounds' = 0 \/ (GoOn /\ m_check_state' = "HEADER")
    BY <1>6 DEF RequestLine, Return
  <2> QED
    BY <1>3, <1>4, <2>1, <2>3, <2>4 DEF BodyNext
<1>7. CASE Header \/ NoRequest
  BY <1>3, <1>7 DEF Header, HeaderVerdict, Return, NoRequest
<1>8. CASE Content
  <2>1. /\ pc = "process" /\ NextLine.state = "LINE_OK"
        /\ m_checked_idx' = NextLine.checked
        /\ rounds' = 0 \/ (GoOn /\ line_state' = "LINE_OPEN")
    BY <1>8 DEF Content, Round, Return, AfterContent
  <2>2. CASE BodyNext
    <3>1. NextLine = Line("LINE_OK", m_checked_idx)
      BY <2>2 DEF NextLine, BodyNext
    <3>2. m_checked_idx' = m_checked_idx
      BY <2>1, <3>1, LineFields
    <3>3. rounds <= m_checked_idx'
      BY <2>2, <3>2 DEF RoundsInv
    <3> QED
      BY <1>3, <1>4, <2>1, <3>3 DEF BodyNext
  <2>3. CASE ~BodyNext
    <3>1. NextLine = parse_line
      BY <2>3 DEF NextLine, BodyNext
    <3>2. m_checked_idx' >= m_checked_idx + 1
      BY <2>1, <3>1, LinePassed DEF TypeOK
    <3>3. rounds <= m_checked_idx'
      BY <1>2, <3>2 DEF RoundsInv
    <3> QED
      BY <1>3, <1>4, <2>1, <3>3 DEF BodyNext
  <2> QED
    BY <2>2, <2>3
<1>9. CASE UNCHANGED vars
  <2>1. /\ rounds' = rounds /\ pc' = pc /\ m_checked_idx' = m_checked_idx
        /\ BodyNext' = BodyNext
    BY <1>9 DEF vars, BodyNext
  <2> QED
    BY <2>1 DEF RoundsInv
<1> QED
  BY <1>5, <1>6, <1>7, <1>8, <1>9 DEF Next, ProcessRead

-----------------------------------------------------------------------------
(* The theorems *)

(* However recv() cuts a request, lines are taken whole and in order, each *)
(* reply takes one of them, the request line one more, and process_read()  *)
(* asks for more only when none is left (parse_line, process_read).        *)
THEOREM EveryLineHolds == Spec => []EveryLine
<1>1. ParseInv => EveryLine
  <2> SUFFICES ASSUME ParseInv, m_check_state # "CONTENT"
               PROVE  EveryLine
    BY DEF EveryLine
  <2>1. Scanned /\ Counted
    BY DEF ParseInv
  <2>2. Consumed = {e \in LineEnds : e <= m_start_line}
    BY DEF Consumed
  <2> QED
    BY <2>1, <2>2 DEF EveryLine, Scanned, Counted, HeaderState
<1> QED
  BY <1>1, ParseInvHolds, PTL

(* What the slot remembers is what the lines taken since init() say, and   *)
(* nothing of an earlier request (parse_request_line, parsr_headers, init).*)
THEOREM RememberedHolds == Spec => []Remembered
<1>1. ParseInv => Remembered
  BY DEF ParseInv, Remembered
<1> QED
  BY <1>1, ParseInvHolds, PTL

(* do_request() is reached only with the whole body in the buffer and only *)
(* by a slot that made two replies since init() (process_read,             *)
(* parser_content).                                                        *)
THEOREM EarnedHolds == Spec => []Earned
<1>1. ParseInv => Earned
  <2> SUFFICES ASSUME ParseInv, pc = "reply", ret # "BAD_REQUEST"
               PROVE  Earned
    BY DEF Earned
  <2>1. replies >= 2 /\ \E e \in LineEnds : Blank(e) /\ e + m_content_length <= m_read_idx
    BY DEF ParseInv, Answered
  <2> QED
    BY <2>1 DEF Earned, Blank
<1> QED
  BY <1>1, ParseInvHolds, PTL

(* A call of process_read() goes round its loop at most once more than     *)
(* there are bytes before m_checked_idx, whatever the bytes: the loop ends *)
(* (AfterContent is what makes the body's first look the only free one).   *)
THEOREM RoundsBoundedHolds == Spec => []RoundsBounded
<1>1. Init => TypeOK /\ RoundsInv
  BY TypeInit DEF Init, RoundsInv, BodyNext
<1>2. (TypeOK /\ RoundsInv) /\ [Next]_vars => (TypeOK /\ RoundsInv)'
  BY TypeStep, RoundsInvStep
<1>3. TypeOK /\ RoundsInv => RoundsBounded
  <2> SUFFICES ASSUME TypeOK, RoundsInv
               PROVE  RoundsBounded
    OBVIOUS
  <2>1. m_checked_idx \in Nat /\ rounds \in Nat
    BY NextLineType DEF RoundsInv
  <2> QED
    BY <2>1 DEF RoundsBounded, RoundsInv
<1> QED
  BY <1>1, <1>2, <1>3, PTL DEF Spec
=============================================================================
