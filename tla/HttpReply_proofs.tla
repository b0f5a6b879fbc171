--------------------------- MODULE HttpReply_proofs ---------------------------
(***************************************************************************)
(* Theorems about HttpReply, for any sizes of the buffer, the socket, the  *)
(* files and the pieces of a reply, and any number of replies.             *)
(***************************************************************************)
EXTENDS HttpReply, SequenceTheorems, TLAPS

-----------------------------------------------------------------------------
(* Types *)

Byte == Nat \X (Pieces \cup {"file", "junk"}) \X Nat
Vectors == [area : {"buf", "file"}, base : Int, len : Nat]

TypeOK ==
    /\ m_write_buf \in Seq(Byte) /\ m_iv \in Seq(Vectors)
    /\ m_file_address \in {"NULL", "file", "failed"}
    /\ st_size \in Nat /\ m_linger \in BOOLEAN
    /\ bytes_to_send \in Int /\ bytes_have_send \in Nat /\ newadd \in Int
    /\ extent \in Nat /\ maps \in Int /\ cutoffs \in Nat
    /\ pc \in {"closed", "idle", "out", "write", "sent"}
    /\ room \in 0 .. SNDBUF /\ made \in Nat
    /\ promised \in Seq(Byte) /\ received \in Seq(Byte)
    /\ short \in BOOLEAN /\ smooth \in BOOLEAN

\* Where in the file the reply goes on.
FilePlace == bytes_have_send - m_write_idx

(* While a reply is being sent there is something left to send, and one or *)
(* two vectors say where it is; the second is the mapped file.  write() is *)
(* called when there is room, so it has computed newadd before an EAGAIN.  *)
Busy == pc \in {"out", "write"}
Framed ==
    /\ Busy => /\ m_iv_count \in {1, 2} /\ bytes_to_send > 0
               /\ m_iv_count = 2 => m_file_address = "file"
    /\ (pc = "idle" /\ made > 0) => m_file_address = "NULL"
    /\ pc = "sent" => m_file_address = "NULL"
    /\ pc = "write" => newadd = FilePlace \/ room > 0

LEMMA Pieced ==
  ASSUME NEW p \in Pieces, made \in Nat
  PROVE  /\ Bytes(p) \in Seq(Byte) /\ Len(Bytes(p)) = Size[p] /\ Size[p] \in Nat \ {0}
         /\ \A i \in 1 .. Size[p] : Bytes(p)[i] = <<made + 1, p, i>>
<1>1. Size[p] \in Nat \ {0}
  BY SizeAssumption
<1>2. \A i \in 1 .. Size[p] : <<made + 1, p, i>> \in Byte
  BY <1>1 DEF Byte
<1>3. Bytes(p) \in Seq(Byte)
  BY <1>1, <1>2, IsASeq DEF Bytes
<1>4. Len(Bytes(p)) = Size[p]
  BY <1>1, <1>3, LenProperties DEF Bytes
<1> QED
  BY <1>1, <1>3, <1>4 DEF Bytes

LEMMA Responded ==
  ASSUME NEW buf \in Seq(Byte), NEW p \in Pieces, made \in Nat
  PROVE  /\ add_response(buf, p) \in Seq(Byte)
         /\ Len(add_response(buf, p)) = IF Fits(buf, p) THEN Len(buf) + Size[p]
                                        ELSE Len(buf)
         /\ Len(buf) \in Nat
<1>1. Bytes(p) \in Seq(Byte) /\ Len(Bytes(p)) = Size[p]
  BY Pieced
<1>2. buf \o Bytes(p) \in Seq(Byte) /\ Len(buf \o Bytes(p)) = Len(buf) + Size[p]
  BY <1>1, ConcatProperties
<1> QED
  BY <1>2, LenProperties DEF add_response

LEMMA HeadedType ==
  ASSUME m_write_buf \in Seq(Byte), made \in Nat
  PROVE  Headed \in Seq(Byte) /\ Len(Headed) \in Nat
<1> DEFINE b0 == add_response(m_write_buf, "status")
           b1 == add_response(b0, "length")
           b2 == add_response(b1, "linger")
           b3 == add_response(b2, "blank")
<1>1. {"status", "length", "linger", "blank"} \subseteq Pieces
  BY DEF Pieces
<1>2. b0 \in Seq(Byte)
  BY <1>1, Responded
<1>3. b1 \in Seq(Byte)
  BY <1>1, <1>2, Responded
<1>4. b2 \in Seq(Byte)
  BY <1>1, <1>3, Responded
<1>5. b3 \in Seq(Byte)
  BY <1>1, <1>4, Responded
<1>6. Headed = IF ~Fits(b0, "length") THEN b0 ELSE IF ~Fits(b1, "linger") THEN b1 ELSE b3
  BY DEF Headed, add_headers
<1> HIDE DEF b0, b1, b2, b3
<1> QED
  BY <1>2, <1>3, <1>5, <1>6, LenProperties

(* The vectors process_write() makes, and the ones EAGAIN makes of them.   *)
LEMMA VectorSeqs ==
  /\ <<>> \in Seq(Vectors) /\ Len(<<>>) = 0
  /\ \A v \in Vectors : /\ <<v>> \in Seq(Vectors) /\ Len(<<v>>) = 1
                        /\ <<v>>[1] = v
  /\ \A v, w \in Vectors : /\ <<v, w>> \in Seq(Vectors) /\ Len(<<v, w>>) = 2
                           /\ <<v, w>>[1] = v /\ <<v, w>>[2] = w
  OBVIOUS

LEMMA MovedOn ==
  ASSUME TypeOK, Framed, Eagain
  PROVE  /\ m_iv' \in Seq(Vectors) /\ m_iv_count' = m_iv_count
         /\ m_iv[1].len \in Nat
         /\ bytes_have_send >= m_iv[1].len =>
              /\ m_iv'[1].len = 0
              /\ m_iv_count = 2 => m_iv'[2] = Vec("file", FilePlace, bytes_to_send)
         /\ bytes_have_send < m_iv[1].len => m_iv'[1].len <= m_iv[1].len
<1>1. /\ m_iv \in Seq(Vectors) /\ m_iv_count \in {1, 2} /\ m_write_idx \in Nat
      /\ bytes_to_send \in Nat \ {0} /\ bytes_have_send \in Nat
  BY DEF TypeOK, Framed, Busy, Eagain, m_write_idx
<1>2. /\ m_iv[1] \in Vectors /\ (m_iv_count = 2 => m_iv[2] \in Vectors)
      /\ 1 \in 1 .. Len(m_iv) /\ DOMAIN m_iv = 1 .. m_iv_count
  BY <1>1 DEF m_iv_count
<1>3. m_iv[1].len \in Nat
  BY <1>2 DEF Vectors
<1>6. newadd = FilePlace
  BY SizeAssumption DEF Framed, Eagain
<1>4. CASE bytes_have_send >= m_iv[1].len
  <2> DEFINE a == [m_iv[1] EXCEPT !.len = 0]
             b == Vec("file", FilePlace, bytes_to_send)
             e(i) == IF i = 1 THEN a ELSE b
  <2>1. a \in Vectors /\ a.len = 0
    BY <1>2 DEF Vectors
  <2>2. b \in Vectors
    BY <1>1 DEF Vectors, Vec, FilePlace
  <2>3. m_iv' = [i \in 1 .. m_iv_count |-> e(i)]
    BY <1>2, <1>4, <1>6 DEF Eagain
  <2>4. \A i \in 1 .. m_iv_count : e(i) \in Vectors
    BY <2>1, <2>2
  <2> HIDE DEF a, b
  <2>5. m_iv' \in Seq(Vectors)
    BY <1>1, <2>3, <2>4, IsASeq
  <2>6. Len(m_iv') = m_iv_count
    BY <1>1, <2>3, <2>5, LenProperties
  <2>7. m_iv'[1] = a /\ (m_iv_count = 2 => m_iv'[2] = b)
    BY <1>1, <2>3
  <2> QED
    BY <1>3, <1>4, <2>1, <2>5, <2>6, <2>7 DEF b, m_iv_count
<1>5. CASE ~(bytes_have_send >= m_iv[1].len)
  <2> DEFINE a == Vec("buf", bytes_to_send, m_iv[1].len - bytes_have_send)
  <2>1. a \in Vectors /\ a.len <= m_iv[1].len
    BY <1>1, <1>3, <1>5 DEF Vectors, Vec
  <2>2. m_iv' = [m_iv EXCEPT ![1] = a]
    BY <1>5 DEF Eagain
  <2> HIDE DEF a
  <2>3. /\ m_iv' \in Seq(Vectors) /\ Len(m_iv') = Len(m_iv) /\ m_iv'[1] = a
    BY <1>1, <1>2, <2>1, <2>2, ExceptSeq
  <2> QED
    BY <1>3, <1>5, <2>1, <2>3 DEF m_iv_count
<1> QED
  BY <1>4, <1>5

(* What process_write() does to the variables, and their types.            *)
LEMMA ProcessType ==
  ASSUME TypeOK, Framed, Process PROVE TypeOK' /\ Framed'
<1> USE DEF TypeOK
<1>1. PICK code \in Verdicts, size \in FileSizes :
         \/ /\ TextReply(code, size) \/ (code = "FILE_REQUEST" /\ FileReply(size))
            /\ pc' = "out"
            /\ made' = made + 1 /\ promised' = promised \o Whole(code, size)
         \/ /\ Fails(code, size)
            /\ pc' = "closed"
            /\ UNCHANGED <<m_iv, bytes_to_send, made, promised>>
  BY DEF Process
<1>2. /\ m_linger' \in BOOLEAN
      /\ UNCHANGED <<bytes_have_send, newadd, cutoffs, room, received, short,
                     smooth>>
  BY DEF Process
<1>3. size \in Nat /\ Form(code) \in Pieces
  BY SizeAssumption DEF Form, Pieces
<1>4. Headed \in Seq(Byte) /\ Len(Headed) \in Nat
  BY HeadedType
<1>5. Whole(code, size) \in Seq(Byte)
  <2>1. \A p \in Pieces : Bytes(p) \in Seq(Byte)
    BY Pieced
  <2>2. {"status", "length", "linger", "blank"} \subseteq Pieces
    BY DEF Pieces
  <2>3. [i \in 1 .. size |-> <<made + 1, "file", i>>] \in Seq(Byte)
    <3>1. \A i \in 1 .. size : <<made + 1, "file", i>> \in Byte
      BY <1>3 DEF Byte
    <3> QED
      BY <1>3, <3>1, IsASeq
  <2>4. Bytes("status") \o Bytes("length") \in Seq(Byte)
    BY <2>1, <2>2, ConcatProperties
  <2>5. Bytes("status") \o Bytes("length") \o Bytes("linger") \in Seq(Byte)
    BY <2>1, <2>2, <2>4, ConcatProperties
  <2>6. Bytes("status") \o Bytes("length") \o Bytes("linger") \o Bytes("blank")
        \in Seq(Byte)
    BY <2>1, <2>2, <2>5, ConcatProperties
  <2> QED
    BY <1>3, <2>1, <2>3, <2>6, ConcatProperties DEF Whole
<1>6. promised \o Whole(code, size) \in Seq(Byte)
  BY <1>5, ConcatProperties
<1>7. CASE TextReply(code, size) /\ pc' = "out" /\ made' = made + 1
           /\ promised' = promised \o Whole(code, size)
  <2>1. /\ m_write_buf' \in Seq(Byte) /\ Len(m_write_buf') \in Nat \ {0}
    <3>1. Size[Form(code)] \in Nat \ {0}
      BY <1>3, SizeAssumption
    <3>2. add_response(Headed, Form(code)) \in Seq(Byte)
          /\ Len(add_response(Headed, Form(code))) = Len(Headed) + Size[Form(code)]
      BY <1>3, <1>4, <1>7, Responded DEF TextReply
    <3> QED
      BY <1>4, <1>7, <3>1, <3>2 DEF TextReply
  <2>2. Vec("buf", 0, Len(m_write_buf')) \in Vectors
    BY <2>1 DEF Vec, Vectors
  <2>3. m_iv' \in Seq(Vectors) /\ Len(m_iv') = 1
    BY <1>7, <2>2, VectorSeqs DEF TextReply
  <2> QED
    <3>1. st_size' \in Nat
      BY <1>3, <1>7 DEF TextReply, Stat
    <3>2. UNCHANGED <<m_file_address, extent, maps>> /\ bytes_to_send' \in Nat \ {0}
      BY <1>7, <2>1 DEF TextReply, mapVars
    <3> QED
      BY <1>2, <1>6, <1>7, <2>1, <2>3, <3>1, <3>2 DEF Framed, Busy, m_iv_count
<1>8. CASE FileReply(size) /\ pc' = "out" /\ made' = made + 1
           /\ promised' = promised \o Whole(code, size)
  <2>1. /\ Vec("buf", 0, Len(m_write_buf')) \in Vectors
        /\ Vec("file", 0, size) \in Vectors
    BY <1>3, <1>4, <1>8 DEF Vec, Vectors, FileReply
  <2>2. m_iv' \in Seq(Vectors) /\ Len(m_iv') = 2
    BY <1>8, <2>1, VectorSeqs DEF FileReply
  <2> QED
    BY <1>2, <1>3, <1>4, <1>6, <1>8, <2>2 DEF FileReply, Framed, Busy, m_iv_count
<1>9. CASE Fails(code, size) /\ pc' = "closed"
           /\ UNCHANGED <<m_iv, bytes_to_send, made, promised>>
  <2>1. "empty" \in Pieces
    BY DEF Pieces
  <2>2. add_response(Headed, "empty") \in Seq(Byte)
    BY <1>4, <2>1, Responded
  <2>3. /\ m_write_buf' \in Seq(Byte) /\ st_size' \in Nat
        /\ m_file_address' \in {"NULL", "file", "failed"}
        /\ extent' \in Nat /\ maps' \in Int
    BY <1>3, <1>4, <1>9, <2>2 DEF Fails, Stat, mapVars
  <2> QED
    BY <1>2, <1>9, <2>3 DEF Framed, Busy
<1> QED
  BY <1>1, <1>7, <1>8, <1>9

LEMMA VectorTypes ==
  ASSUME TypeOK, Framed, pc = "write"
  PROVE  /\ m_iv[1] \in Vectors /\ (m_iv_count = 2 => m_iv[2] \in Vectors)
         /\ m_iv[1].len \in Nat /\ (m_iv_count = 2 => m_iv[2].len \in Nat)
         /\ Total \in Nat /\ m_iv_count \in {1, 2}
         /\ m_iv_count = 1 => Total = m_iv[1].len
         /\ m_iv_count = 2 => Total = m_iv[1].len + m_iv[2].len
<1>1. /\ m_iv \in Seq(Vectors) /\ m_iv_count \in {1, 2}
  BY DEF TypeOK, Framed, Busy
<1>2. /\ m_iv[1] \in Vectors /\ (m_iv_count = 2 => m_iv[2] \in Vectors)
  BY <1>1 DEF m_iv_count
<1>3. m_iv[1].len \in Nat /\ (m_iv_count = 2 => m_iv[2].len \in Nat)
  BY <1>2 DEF Vectors
<1> QED
  BY <1>1, <1>2, <1>3 DEF Total

LEMMA ByteAtType ==
  ASSUME TypeOK, NEW area, NEW i \in Int PROVE ByteAt(area, i) \in Byte
<1>1. m_write_buf \in Seq(Byte) /\ made \in Nat /\ st_size \in Nat
  BY DEF TypeOK
<1>2. i \in 1 .. m_write_idx => m_write_buf[i] \in Byte
  BY <1>1 DEF m_write_idx
<1>3. /\ <<0, "junk", 0>> \in Byte
      /\ i \in 1 .. st_size => <<made, "file", i>> \in Byte
  BY <1>1 DEF Byte
<1> QED
  BY <1>2, <1>3 DEF ByteAt

LEMMA GatheredType ==
  ASSUME TypeOK, Framed, pc = "write", NEW n \in Nat, n <= Total
  PROVE  /\ Gathered(n) \in Seq(Byte) /\ Len(Gathered(n)) = n
         /\ \A i \in 1 .. n :
               Gathered(n)[i] = IF i <= m_iv[1].len
                                THEN ByteAt(m_iv[1].area, m_iv[1].base + i)
                                ELSE ByteAt(m_iv[2].area, m_iv[2].base + i - m_iv[1].len)
<1> DEFINE e(i) == IF i <= m_iv[1].len
                   THEN ByteAt(m_iv[1].area, m_iv[1].base + i)
                   ELSE ByteAt(m_iv[2].area, m_iv[2].base + i - m_iv[1].len)
<1>1. ASSUME NEW i \in 1 .. n PROVE e(i) \in Byte
  <2>1. m_iv[1].base + i \in Int
    BY VectorTypes DEF Vectors
  <2>2. i > m_iv[1].len => m_iv[2].base + i - m_iv[1].len \in Int
    BY VectorTypes DEF Vectors
  <2>3. m_iv[1].len \in Nat
    BY VectorTypes
  <2>4. CASE i <= m_iv[1].len
    BY <2>1, <2>4, ByteAtType
  <2>5. CASE ~(i <= m_iv[1].len)
    BY <2>2, <2>3, <2>5, ByteAtType
  <2> QED
    BY <2>4, <2>5
<1>2. Gathered(n) = [i \in 1 .. n |-> e(i)]
  BY DEF Gathered
<1> HIDE DEF e
<1>3. Gathered(n) \in Seq(Byte)
  BY <1>1, <1>2, IsASeq
<1>4. Len(Gathered(n)) = n
  BY <1>2, <1>3, LenProperties
<1>5. \A i \in 1 .. n : Gathered(n)[i] = e(i)
  BY <1>2
<1> QED
  BY <1>3, <1>4, <1>5 DEF e

(* What writev() takes.                                                    *)
Taken == IF Total < room THEN Total ELSE room

LEMMA WritevType ==
  ASSUME TypeOK, Framed, Writev
  PROVE  TypeOK' /\ Framed' /\ Taken \in Nat /\ Taken <= Total /\ Taken <= room
<1> USE DEF TypeOK
<1>1. Total \in Nat /\ pc = "write" /\ room \in Nat
  BY VectorTypes, SizeAssumption DEF Writev
<1>2. Taken \in Nat /\ Taken <= Total /\ Taken <= room
  BY <1>1 DEF Taken
<1>3. received' \in Seq(Byte)
  <2>1. Gathered(Taken) \in Seq(Byte)
    BY <1>1, <1>2, GatheredType
  <2>2. received \o Gathered(Taken) \in Seq(Byte)
    BY <2>1, ConcatProperties
  <2>3. received' = IF smooth' THEN received \o Gathered(Taken) ELSE <<>>
    BY DEF Writev, Taken
  <2> QED
    BY <2>2, <2>3, EmptySeq
<1>4. /\ smooth' \in BOOLEAN /\ short' \in BOOLEAN
  BY DEF Writev
<1>5. room' \in 0 .. SNDBUF
  BY <1>2, SizeAssumption DEF Writev, Taken
<1>6. \/ /\ bytes_to_send > Taken
         /\ bytes_have_send' = bytes_have_send + Taken
         /\ bytes_to_send' = bytes_to_send - Taken
         /\ UNCHANGED <<m_write_buf, m_linger, m_file_address, extent, maps, pc>>
      \/ /\ m_file_address' = "NULL" /\ extent' = 0 /\ maps' \in {maps, maps - 1}
         /\ \/ init /\ pc' = "idle"
            \/ /\ bytes_have_send' = bytes_have_send + Taken
               /\ bytes_to_send' = bytes_to_send - Taken
               /\ pc' = "sent" /\ UNCHANGED <<m_write_buf, m_linger>>
  BY DEF Writev, Taken, unmap, mapVars
<1>7. UNCHANGED <<m_iv, st_size, cutoffs, made, promised>>
  BY DEF Writev
<1>10. newadd' = IF Taken > 0 THEN bytes_have_send + Taken - m_write_idx ELSE newadd
  BY DEF Writev, Taken, NewAdd
<1>11. m_write_idx \in Nat
  BY LenProperties DEF m_write_idx
<1>8. TypeOK'
  <2>1. m_write_buf' \in Seq(Byte)
    BY <1>6, EmptySeq DEF init
  <2>2. m_linger' \in BOOLEAN
    BY <1>6 DEF init
  <2>3. bytes_to_send' \in Int /\ bytes_have_send' \in Nat
    BY <1>2, <1>6 DEF init
  <2>4. newadd' \in Int
    BY <1>2, <1>10, <1>11
  <2>5. /\ m_file_address' \in {"NULL", "file", "failed"}
        /\ extent' \in Nat /\ maps' \in Int
    BY <1>6
  <2>6. pc' \in {"closed", "idle", "out", "write", "sent"}
    BY <1>6
  <2> QED
    BY <1>3, <1>4, <1>5, <1>7, <2>1, <2>2, <2>3, <2>4, <2>5, <2>6
<1>9. Framed'
  <2>1. ASSUME pc' = "write" PROVE newadd' = FilePlace' \/ room' > 0
    <3>1. /\ bytes_have_send' = bytes_have_send + Taken
          /\ m_write_buf' = m_write_buf
      BY <1>6, <2>1 DEF init
    <3>5. m_write_idx' = m_write_idx
      BY <3>1, Zenon DEF m_write_idx
    <3>6. FilePlace' = bytes_have_send' - m_write_idx'
      BY DEF FilePlace
    <3>2. FilePlace' = (bytes_have_send + Taken) - m_write_idx
      BY <3>1, <3>5, <3>6, Zenon
    <3>3. CASE Taken > 0
      BY <1>2, <1>10, <1>11, <3>2, <3>3
    <3>4. CASE ~(Taken > 0)
      <4>1. Taken = 0
        BY <1>2, <3>4
      <4>2. newadd' = newadd
        BY <1>10, <4>1
      <4>3. FilePlace' = FilePlace
        BY <1>11, <3>2, <4>1 DEF FilePlace
      <4>4. room' = room
        <5>1. room' = room - Taken
          BY DEF Writev, Taken
        <5> QED
          BY <1>1, <4>1, <5>1
      <4> QED
        BY <1>1, <4>2, <4>3, <4>4 DEF Framed
    <3> QED
      BY <3>3, <3>4
  <2>2. Busy' => /\ m_iv_count' \in {1, 2} /\ bytes_to_send' > 0
                 /\ m_iv_count' = 2 => m_file_address' = "file"
    BY <1>1, <1>2, <1>6, <1>7 DEF Framed, Busy, m_iv_count
  <2>3. pc' \in {"idle", "sent"} => m_file_address' = "NULL"
    BY <1>1, <1>6
  <2> QED
    BY <2>1, <2>2, <2>3 DEF Framed
<1> QED
  BY <1>2, <1>8, <1>9

LEMMA TypeInit == Init => TypeOK /\ Framed
<1> SUFFICES ASSUME Init PROVE TypeOK /\ Framed
  OBVIOUS
<1>1. <<>> \in Seq(Byte) /\ <<>> \in Seq(Vectors)
  BY EmptySeq
<1>2. /\ m_write_buf \in Seq(Byte) /\ m_iv \in Seq(Vectors)
      /\ promised \in Seq(Byte) /\ received \in Seq(Byte)
  BY <1>1 DEF Init
<1>3. short \in BOOLEAN /\ smooth \in BOOLEAN /\ m_linger \in BOOLEAN
  BY DEF Init
<1>4. TypeOK
  BY <1>2, <1>3, SizeAssumption DEF Init, TypeOK
<1> QED
  BY <1>4 DEF Init, Framed, Busy

LEMMA TypeStep == TypeOK /\ Framed /\ [Next]_vars => TypeOK' /\ Framed'
<1> SUFFICES ASSUME TypeOK, Framed, [Next]_vars PROVE TypeOK' /\ Framed'
  OBVIOUS
<1>0. <<>> \in Seq(Byte)
  BY EmptySeq
<1>1. CASE Writable
  <2>1. bytes_to_send > 0 /\ pc = "out"
    BY <1>1 DEF Writable, Framed, Busy
  <2>2. /\ pc' = "write" /\ short' = FALSE
        /\ UNCHANGED <<m_write_buf, m_linger, bytes_to_send, bytes_have_send, m_iv,
                       m_file_address, extent, maps, cutoffs, st_size, room, made,
                       promised, received, smooth>>
        /\ newadd' = 0 /\ room > 0
    BY <1>1, <2>1 DEF Writable, countVars, mapVars, TypeOK
  <2>5. newadd' \in Int /\ short' \in BOOLEAN
    <3>1. newadd' = 0
      BY <2>2, Zenon
    <3>2. newadd' \in Int
      BY <3>1
    <3>3. short' \in BOOLEAN
      BY <2>2, Zenon
    <3> QED
      BY <3>2, <3>3
  <2>3. TypeOK'
    <3>1. pc' \in {"closed", "idle", "out", "write", "sent"}
      BY <2>2
    <3> QED
      BY <2>2, <2>5, <3>1, Zenon DEF TypeOK
  <2>4. Framed'
    BY <2>1, <2>2 DEF Framed, Busy, m_iv_count
  <2> QED
    BY <2>3, <2>4
<1>2. CASE Eagain
  <2>1. m_iv' \in Seq(Vectors) /\ m_iv_count' = m_iv_count
    BY <1>2, MovedOn
  <2>2. TypeOK'
    BY <1>2, <2>1 DEF Eagain, TypeOK, Waiting, countVars, mapVars
  <2>3. Framed'
    BY <1>2, <2>1 DEF Eagain, Framed, Busy, Waiting, countVars, mapVars
  <2> QED
    BY <2>2, <2>3
<1>3. CASE WriteFails
  BY <1>3 DEF WriteFails, unmap, TypeOK, Framed, Busy, countVars, ghostVars
<1>4. CASE Accept
  <2>1. /\ m_write_buf' \in Seq(Byte) /\ promised' \in Seq(Byte)
        /\ received' \in Seq(Byte)
    BY <1>0, <1>4 DEF Accept, init
  <2>2. m_linger' \in BOOLEAN /\ short' \in BOOLEAN /\ smooth' \in BOOLEAN
    BY <1>4 DEF Accept, init
  <2>3. TypeOK'
    BY <1>4, <2>1, <2>2, SizeAssumption DEF Accept, init, mapVars, TypeOK
  <2> QED
    BY <1>4, <2>3 DEF Accept, Framed, Busy
<1>5. CASE Close \/ HangUp
  <2>1. cutoffs' \in Nat
    BY <1>5 DEF Close, HangUp, TypeOK
  <2> QED
    BY <1>5, <2>1 DEF Close, HangUp, TypeOK, Framed, Busy, bufferVars, mapVars,
                      countVars, ghostVars
<1>6. CASE Missed
  BY <1>6 DEF Missed, TypeOK, Framed, Busy, bufferVars, mapVars, countVars
<1>7. CASE Drain
  <2>1. room' \in 0 .. SNDBUF
    BY <1>7, SizeAssumption DEF Drain, TypeOK
  <2>2. room' > room
    BY <1>7, SizeAssumption DEF Drain, TypeOK
  <2>3. UNCHANGED <<m_write_buf, m_iv, m_file_address, st_size, m_linger,
          bytes_to_send, bytes_have_send, newadd, extent, maps, cutoffs, pc,
          made, promised, received, short, smooth>>
    BY <1>7 DEF Drain, bufferVars, mapVars, countVars, ghostVars
  <2>4. TypeOK'
    BY <2>1, <2>3 DEF TypeOK
  <2>5. (newadd = FilePlace \/ room > 0) => (newadd' = FilePlace' \/ room' > 0)
    BY <2>1, <2>2, <2>3, SizeAssumption DEF FilePlace, m_write_idx, TypeOK
  <2> QED
    BY <2>3, <2>4, <2>5 DEF Framed, Busy, m_iv_count
<1>8. CASE UNCHANGED vars
  BY <1>8 DEF vars, TypeOK, Framed, Busy, m_iv_count, FilePlace, m_write_idx
<1> QED
  BY <1>1, <1>2, <1>3, <1>4, <1>5, <1>6, <1>7, <1>8, ProcessType, WritevType
  DEF Next, Write

LEMMA FramedHolds == Spec => [](TypeOK /\ Framed)
  BY TypeInit, TypeStep, PTL DEF Spec

-----------------------------------------------------------------------------
(* Released *)

(* The length unmap() reads is that of the file being sent, for nothing    *)
(* changes st_size meanwhile; so a mapping that is sent from to its end    *)
(* goes, and only a connection that was cut off leaves one.                *)
Mapped ==
    /\ SendingFile => extent = st_size
    /\ maps <= cutoffs + (IF SendingFile THEN 1 ELSE 0)

LEMMA MappedUnmap ==
  ASSUME TypeOK, Framed, Mapped, pc = "write", unmap, UNCHANGED cutoffs,
         pc' \notin {"out", "write"}
  PROVE  Mapped'
<1>1. maps \in Int /\ cutoffs \in Nat /\ extent \in Nat /\ ~SendingFile'
  BY DEF TypeOK, SendingFile
<1>2. CASE SendingFile
  <2>1. m_file_address = "file" /\ st_size >= extent
    BY <1>1, <1>2 DEF Framed, Busy, SendingFile, Mapped
  <2>2. maps' = maps - 1 /\ maps <= cutoffs + 1
    BY <1>2, <2>1 DEF unmap, Mapped
  <2> QED
    BY <1>1, <2>2 DEF Mapped
<1>3. CASE ~SendingFile
  <2>1. maps' <= maps /\ maps <= cutoffs + 0 /\ maps' \in Int
    BY <1>1, <1>3 DEF unmap, Mapped
  <2> QED
    BY <1>1, <2>1 DEF Mapped
<1> QED
  BY <1>2, <1>3

LEMMA MappedProcess ==
  ASSUME TypeOK, TypeOK', Mapped, Process PROVE Mapped'
<1>1. /\ maps \in Int /\ cutoffs \in Nat /\ cutoffs' = cutoffs
      /\ ~SendingFile /\ maps <= cutoffs + 0
  BY DEF TypeOK, SendingFile, Process, Mapped
<1>2. PICK code \in Verdicts, size \in FileSizes :
         \/ TextReply(code, size)
         \/ FileReply(size) /\ pc' = "out"
         \/ Fails(code, size) /\ pc' = "closed"
  BY DEF Process
<1>3. CASE TextReply(code, size)
  <2>1. m_iv' = <<Vec("buf", 0, Len(m_write_buf'))>> /\ maps' = maps
    BY <1>3 DEF TextReply, mapVars
  <2>2. ~SendingFile'
    BY <2>1 DEF SendingFile, m_iv_count
  <2> QED
    BY <1>1, <2>1, <2>2 DEF Mapped
<1>4. CASE FileReply(size) /\ pc' = "out"
  <2>1. /\ m_iv' = <<Vec("buf", 0, Len(m_write_buf')), Vec("file", 0, size)>>
        /\ maps' = maps + 1 /\ extent' = st_size'
    BY <1>4 DEF FileReply
  <2>2. SendingFile'
    BY <1>4, <2>1 DEF SendingFile, m_iv_count
  <2> QED
    BY <1>1, <2>1, <2>2 DEF Mapped
<1>5. CASE Fails(code, size) /\ pc' = "closed"
  <2>1. maps' = maps /\ ~SendingFile'
    BY <1>5 DEF Fails, mapVars, SendingFile
  <2> QED
    BY <1>1, <2>1 DEF Mapped
<1> QED
  BY <1>2, <1>3, <1>4, <1>5

LEMMA MappedStep ==
  TypeOK /\ TypeOK' /\ Framed /\ Mapped /\ [Next]_vars => Mapped'
<1> SUFFICES ASSUME TypeOK, TypeOK', Framed, Mapped, [Next]_vars PROVE Mapped'
  OBVIOUS
<1>1. CASE Process
  BY <1>1, MappedProcess
<1>2. CASE Writable
  BY <1>2 DEF Writable, Mapped, SendingFile, mapVars, m_iv_count, Framed, Busy
<1>3. CASE Writev
  <2>1. CASE pc' = "write"
    <3>1. UNCHANGED <<m_iv, st_size, extent, maps, cutoffs, pc>>
      BY <1>3, <2>1 DEF Writev, mapVars
    <3> QED
      BY <3>1 DEF Mapped, SendingFile, m_iv_count
  <2>2. CASE pc' # "write"
    <3>1. pc = "write" /\ unmap /\ UNCHANGED cutoffs /\ pc' \in {"idle", "sent"}
      BY <1>3, <2>2 DEF Writev
    <3> QED
      BY <3>1, MappedUnmap
  <2> QED
    BY <2>1, <2>2
<1>4. CASE Eagain
  <2>1. m_iv_count' = m_iv_count
    BY <1>4, MovedOn
  <2> QED
    BY <1>4, <2>1 DEF Eagain, Waiting, Mapped, SendingFile, mapVars
<1>5. CASE WriteFails
  BY <1>5, MappedUnmap DEF WriteFails
<1>6. CASE Accept \/ Close \/ Missed
  BY <1>6 DEF Accept, Close, Missed, Mapped, SendingFile, mapVars, bufferVars
<1>7. CASE HangUp
  <2>1. /\ ~SendingFile' /\ UNCHANGED maps /\ maps \in Int /\ cutoffs \in Nat
    BY <1>7 DEF HangUp, SendingFile, mapVars, bufferVars, TypeOK
  <2>2. CASE SendingFile
    BY <1>7, <2>1, <2>2 DEF HangUp, Mapped
  <2>3. CASE ~SendingFile
    BY <1>7, <2>1, <2>3 DEF HangUp, Mapped
  <2> QED
    BY <2>2, <2>3
<1>8. CASE Drain \/ UNCHANGED vars
  BY <1>8 DEF Drain, vars, Mapped, SendingFile, mapVars, bufferVars, m_iv_count
<1> QED
  BY <1>1, <1>2, <1>3, <1>4, <1>5, <1>6, <1>7, <1>8 DEF Next, Write

(* A file stays mapped while it is being sent, and the mappings that exist *)
(* are that one and at most one for every connection that was cut off      *)
(* while it was sent a file: no other order of requests, replies, errors   *)
(* and closes in a slot loses one (unmap() and the mmap() of do_request(), *)
(* http_conn.cpp).                                                         *)
THEOREM ReleasedHolds == Spec => []Released
<1>1. Init => Mapped
  BY DEF Init, Mapped, SendingFile
<1>2. TypeOK /\ TypeOK' /\ Framed /\ Mapped /\ [Next]_vars => Mapped'
  BY MappedStep
<1>3. TypeOK /\ Framed /\ Mapped => Released
  BY DEF Framed, Busy, Mapped, SendingFile, Released
<1> QED
  BY <1>1, <1>2, <1>3, FramedHolds, PTL DEF Spec

-----------------------------------------------------------------------------
(* Delivered *)

(* The status line and the headers of a reply fit into an empty buffer (in *)
(* the code some 70 bytes into 1024).                                      *)
Ample == Size["status"] + Size["length"] + Size["linger"] + Size["blank"] + 1
         < WRITE_BUFFER_SIZE

(* What an empty buffer holds after add_headers().                         *)
Heading == Bytes("status") \o Bytes("length") \o Bytes("linger") \o Bytes("blank")

LEMMA Joined ==
  \A s, t \in Seq(Byte) :
     /\ s \o t \in Seq(Byte) /\ Len(s) \in Nat /\ Len(t) \in Nat
     /\ Len(s \o t) = Len(s) + Len(t)
     /\ \A i \in 1 .. Len(s) : (s \o t)[i] = s[i]
     /\ \A i \in 1 .. Len(t) : (s \o t)[Len(s) + i] = t[i]
<1>1. ASSUME NEW s \in Seq(Byte), NEW t \in Seq(Byte)
      PROVE  /\ s \o t \in Seq(Byte) /\ Len(s) \in Nat /\ Len(t) \in Nat
             /\ Len(s \o t) = Len(s) + Len(t)
             /\ \A i \in 1 .. Len(s) : (s \o t)[i] = s[i]
             /\ \A i \in 1 .. Len(t) : (s \o t)[Len(s) + i] = t[i]
  BY ConcatProperties, LenProperties
<1> QED
  BY <1>1

LEMMA EmptyHeaded ==
  ASSUME Ample, made \in Nat, m_write_buf = <<>>
  PROVE  Headed = Heading /\ Heading \in Seq(Byte) /\ Len(Heading) \in Nat \ {0}
<1> DEFINE b0 == Bytes("status")
           b1 == b0 \o Bytes("length")
           b2 == b1 \o Bytes("linger")
           b3 == b2 \o Bytes("blank")
<1>1. {"status", "length", "linger", "blank"} \subseteq Pieces
  BY DEF Pieces
<1>2. /\ Size["status"] \in Nat \ {0} /\ Size["length"] \in Nat \ {0}
      /\ Size["linger"] \in Nat \ {0} /\ Size["blank"] \in Nat \ {0}
      /\ WRITE_BUFFER_SIZE \in Nat
  BY <1>1, SizeAssumption
<1>3. b0 \in Seq(Byte) /\ Len(b0) = Size["status"]
  BY <1>1, Pieced
<1>4. /\ Bytes("length") \in Seq(Byte) /\ Len(Bytes("length")) = Size["length"]
      /\ Bytes("linger") \in Seq(Byte) /\ Len(Bytes("linger")) = Size["linger"]
      /\ Bytes("blank") \in Seq(Byte) /\ Len(Bytes("blank")) = Size["blank"]
  BY <1>1, Pieced
<1> HIDE DEF b0
<1>5. b1 \in Seq(Byte) /\ Len(b1) = Size["status"] + Size["length"]
  <2>1. b1 \in Seq(Byte) /\ Len(b1) = Len(b0) + Len(Bytes("length"))
    BY <1>3, <1>4, Joined, Zenon
  <2> QED
    BY <1>3, <1>4, <2>1, Zenon
<1> HIDE DEF b1
<1>6. /\ b2 \in Seq(Byte)
      /\ Len(b2) = Size["status"] + Size["length"] + Size["linger"]
  <2>1. b2 \in Seq(Byte) /\ Len(b2) = Len(b1) + Len(Bytes("linger"))
    BY <1>4, <1>5, Joined, Zenon
  <2> QED
    BY <1>4, <1>5, <2>1, Zenon
<1> HIDE DEF b2
<1>13. /\ b3 \in Seq(Byte)
       /\ Len(b3) = Size["status"] + Size["length"] + Size["linger"] + Size["blank"]
  <2>1. b3 \in Seq(Byte) /\ Len(b3) = Len(b2) + Len(Bytes("blank"))
    BY <1>4, <1>6, Joined, Zenon
  <2> QED
    BY <1>4, <1>6, <2>1, Zenon
<1>7. add_response(m_write_buf, "status") = b0
  <2>1. Fits(<<>>, "status")
    BY <1>2, SizeAssumption DEF Fits, Ample
  <2>2. <<>> \o b0 = b0
    BY <1>3, ConcatEmptySeq
  <2> QED
    BY <2>1, <2>2 DEF add_response, b0
<1>8. Fits(b0, "length") /\ add_response(b0, "length") = b1
  BY <1>2, <1>3 DEF Fits, Ample, add_response, b1
<1>9. Fits(b1, "linger") /\ add_response(b1, "linger") = b2
  BY <1>2, <1>5 DEF Fits, Ample, add_response, b2
<1>10. Fits(b2, "blank") /\ add_response(b2, "blank") = b3
  BY <1>2, <1>6 DEF Fits, Ample, add_response
<1>11. Headed = b3
  BY <1>7, <1>8, <1>9, <1>10, Zenon DEF Headed, add_headers
<1>12. b3 = Heading
  BY DEF b0, b1, b2, Heading
<1> HIDE DEF b3
<1> QED
  BY <1>2, <1>11, <1>12, <1>13

(* The bytes of the reply in the slot, and how much of it is sent.         *)
Body(k) == IF k <= m_write_idx THEN m_write_buf[k]
           ELSE <<made, "file", k - m_write_idx>>

Prefix ==
    /\ Len(received) <= Len(promised)
    /\ \A i \in 1 .. Len(received) : received[i] = promised[i]

(* The tail of what was promised is what is left of the reply.             *)
Sending ==
    /\ m_iv[1].len <= m_write_idx
    /\ bytes_have_send + bytes_to_send
          = m_write_idx + (IF m_iv_count = 2 THEN st_size ELSE 0)
    /\ Len(promised) = Len(received) + bytes_to_send
    /\ \A i \in 1 .. bytes_to_send :
          promised[Len(received) + i] = Body(bytes_have_send + i)

(* The iovec says where it is: the whole reply, or the rest of a file.     *)
Aligned ==
    \/ /\ bytes_have_send = 0 /\ m_iv[1] = Vec("buf", 0, m_write_idx)
       /\ m_iv_count = 2 => m_iv[2] = Vec("file", 0, st_size)
    \/ /\ m_iv_count = 2 /\ bytes_have_send >= m_write_idx
       /\ m_iv[1].len = 0
       /\ m_iv[2] = Vec("file", FilePlace, bytes_to_send)

(* As long as the writes are smooth; and after a short writev() the iovec  *)
(* is behind until EAGAIN moves it on.                                     *)
DInv ==
    smooth =>
        /\ Prefix
        /\ pc = "idle" => /\ m_write_buf = <<>> /\ bytes_have_send = 0
                          /\ Len(received) = Len(promised)
        /\ Busy => Sending
        /\ (pc = "out" \/ (pc = "write" /\ ~short)) => Aligned

LEMMA DInvInit == Init => DInv
  BY DEF Init, DInv, Prefix, Busy

(* A reply that has just been made.                                        *)
LEMMA MadeSending ==
  ASSUME TypeOK, TypeOK', Prefix, Len(received) = Len(promised), bytes_have_send = 0,
         UNCHANGED <<received, bytes_have_send>>, made' = made + 1,
         NEW rest \in Seq(Byte), promised' = promised \o (m_write_buf' \o rest),
         \/ m_iv_count' = 1 /\ rest = <<>>
         \/ /\ m_iv_count' = 2 /\ Len(rest) = st_size'
            /\ \A i \in 1 .. st_size' : rest[i] = <<made + 1, "file", i>>
            /\ m_iv'[2] = Vec("file", 0, st_size'),
         m_iv'[1] = Vec("buf", 0, Len(m_write_buf')),
         bytes_to_send' = Len(m_write_buf') + Len(rest)
  PROVE  Prefix' /\ Sending' /\ Aligned'
<1> DEFINE buf == m_write_buf'
           reply == buf \o rest
<1>1. /\ buf \in Seq(Byte) /\ promised \in Seq(Byte) /\ received \in Seq(Byte)
      /\ Len(buf) \in Nat /\ Len(rest) \in Nat /\ Len(promised) \in Nat
      /\ made \in Nat /\ st_size' \in Nat
  BY LenProperties DEF TypeOK
<1>2. m_write_idx' = Len(buf) /\ m_iv'[1].len = Len(buf)
  BY DEF m_write_idx, Vec
<1> HIDE DEF buf
<1>3. /\ reply \in Seq(Byte) /\ Len(reply) = Len(buf) + Len(rest)
      /\ \A i \in 1 .. Len(buf) : reply[i] = buf[i]
      /\ \A i \in 1 .. Len(rest) : reply[Len(buf) + i] = rest[i]
  BY <1>1, Joined, Zenon
<1>4. promised' = promised \o reply
  BY DEF buf
<1> HIDE DEF reply
<1>5. /\ Len(promised') = Len(promised) + Len(reply)
      /\ \A i \in 1 .. Len(promised) : promised'[i] = promised[i]
      /\ \A i \in 1 .. Len(reply) : promised'[Len(promised) + i] = reply[i]
  <2> DEFINE all == promised \o reply
  <2>1. /\ Len(all) = Len(promised) + Len(reply)
        /\ \A i \in 1 .. Len(promised) : all[i] = promised[i]
        /\ \A i \in 1 .. Len(reply) : all[Len(promised) + i] = reply[i]
    BY <1>1, <1>3, Joined, Zenon
  <2>2. promised' = all
    BY <1>4
  <2> HIDE DEF all
  <2> QED
    BY <2>1, <2>2
<1>6. Prefix'
  BY <1>1, <1>3, <1>5 DEF Prefix
<1>7. Len(rest) = IF m_iv_count' = 2 THEN st_size' ELSE 0
  BY EmptySeq
<1>8. ASSUME NEW i \in 1 .. Len(buf) + Len(rest)
      PROVE  promised'[Len(received) + i] = Body(0 + i)'
  <2>1. i \in 1 .. Len(reply) /\ i \in Nat
    BY <1>1, <1>3
  <2>2. promised'[Len(promised) + i] = reply[i]
    BY <1>5, <2>1, Zenon
  <2>3. CASE i <= Len(buf)
    <3>1. i \in 1 .. Len(buf)
      BY <1>1, <2>3
    <3>2. Body(0 + i)' = buf[i]
      BY <1>1, <1>2, <2>1, <2>3 DEF Body, buf
    <3> QED
      BY <1>3, <2>2, <3>1, <3>2, Zenon
  <2>4. CASE ~(i <= Len(buf))
    <3> DEFINE j == i - Len(buf)
    <3>1. j \in 1 .. Len(rest) /\ Len(buf) + j = i /\ 0 + i = i
      BY <1>1, <2>4
    <3>2. Body(0 + i)' = <<made', "file", j>>
      BY <1>1, <1>2, <2>1, <2>4 DEF Body
    <3> HIDE DEF j
    <3>3. rest[j] = <<made', "file", j>>
      BY <1>7, <3>1, EmptySeq
    <3>4. reply[i] = rest[j]
      BY <1>3, <3>1, Zenon
    <3> QED
      BY <2>2, <3>2, <3>3, <3>4, Zenon
  <2> QED
    BY <2>3, <2>4
<1>9. Sending'
  <2>1. /\ bytes_to_send' = Len(buf) + Len(rest) /\ bytes_have_send' = 0
        /\ received' = received
    BY DEF buf
  <2>2. Len(promised') = Len(received) + bytes_to_send'
    BY <1>1, <1>3, <1>5, <2>1
  <2>3. ASSUME NEW i \in 1 .. bytes_to_send'
        PROVE  promised'[Len(received') + i] = Body(bytes_have_send + i)'
    BY <1>1, <1>8, <2>1
  <2>4. bytes_have_send' + bytes_to_send'
        = m_write_idx' + (IF m_iv_count' = 2 THEN st_size' ELSE 0)
    BY <1>1, <1>2, <1>7, <2>1
  <2>5. m_iv'[1].len <= m_write_idx'
    BY <1>1, <1>2
  <2> QED
    BY <2>1, <2>2, <2>3, <2>4, <2>5 DEF Sending, Body
<1>10. Aligned'
  BY <1>2 DEF Aligned, buf
<1> QED
  BY <1>6, <1>9, <1>10

LEMMA DInvProcess ==
  ASSUME Ample, TypeOK, TypeOK', Framed, DInv, Process PROVE DInv'
<1> SUFFICES ASSUME smooth, pc' = "out"
             PROVE  Prefix' /\ Sending' /\ Aligned'
  <2>1. smooth' = smooth /\ pc = "idle" /\ pc' \in {"out", "closed"}
    BY DEF Process
  <2>2. CASE pc' = "closed" /\ smooth
    <3>1. UNCHANGED <<received, promised>>
      BY <2>2 DEF Process
    <3> QED
      BY <2>1, <2>2, <3>1 DEF DInv, Prefix, Busy
  <2> QED
    BY <2>1, <2>2, Zenon DEF DInv, Busy
<1>1. /\ Prefix /\ m_write_buf = <<>> /\ bytes_have_send = 0
      /\ Len(received) = Len(promised)
  BY DEF DInv, Process
<1>2. PICK code \in Verdicts, size \in FileSizes :
         /\ TextReply(code, size) \/ (code = "FILE_REQUEST" /\ FileReply(size))
         /\ made' = made + 1 /\ promised' = promised \o Whole(code, size)
  BY DEF Process
<1>3. UNCHANGED <<received, bytes_have_send>>
  BY DEF Process
<1>4. made \in Nat /\ Headed = Heading /\ Heading \in Seq(Byte)
  BY <1>1, EmptyHeaded DEF TypeOK
<1>5. Form(code) \in Pieces /\ size \in Nat
  BY SizeAssumption DEF Form, Pieces
<1>6. CASE TextReply(code, size)
  <2>1. /\ m_write_buf' = Heading \o Bytes(Form(code))
        /\ m_iv' = <<Vec("buf", 0, Len(m_write_buf'))>>
        /\ bytes_to_send' = Len(m_write_buf')
        /\ code # "FILE_REQUEST"
    BY <1>4, <1>6 DEF TextReply, add_response
  <2>2. Whole(code, size) = m_write_buf'
    BY <2>1 DEF Whole, Heading
  <2>3. m_write_buf' \in Seq(Byte)
    BY DEF TypeOK
  <2>4. <<>> \in Seq(Byte) /\ Len(<<>>) = 0 /\ m_write_buf' \o <<>> = m_write_buf'
    BY <2>3, EmptySeq, ConcatEmptySeq
  <2>5. Vec("buf", 0, Len(m_write_buf')) \in Vectors
    BY <2>3, LenProperties DEF Vec, Vectors
  <2>6. m_iv_count' = 1 /\ m_iv'[1] = Vec("buf", 0, Len(m_write_buf'))
    BY <2>1, <2>5, VectorSeqs DEF m_iv_count
  <2>7. promised' = promised \o (m_write_buf' \o <<>>)
    BY <1>2, <2>2, <2>4
  <2>8. bytes_to_send' = Len(m_write_buf') + Len(<<>>)
    BY <2>1, <2>3, <2>4, LenProperties
  <2> QED
    BY <1>1, <1>2, <1>3, <2>4, <2>6, <2>7, <2>8, MadeSending
<1>7. CASE code = "FILE_REQUEST" /\ FileReply(size)
  <2> DEFINE rest == [i \in 1 .. size |-> <<made + 1, "file", i>>]
  <2>1. /\ rest \in Seq(Byte) /\ Len(rest) = size
        /\ \A i \in 1 .. size : rest[i] = <<made + 1, "file", i>>
    <3>1. \A i \in 1 .. size : <<made + 1, "file", i>> \in Byte
      BY <1>4, <1>5 DEF Byte
    <3>2. rest \in Seq(Byte)
      BY <1>5, <3>1, IsASeq
    <3> QED
      BY <1>5, <3>2, LenProperties
  <2>2. /\ m_write_buf' = Heading /\ st_size' = size
        /\ m_iv' = <<Vec("buf", 0, Len(m_write_buf')), Vec("file", 0, size)>>
        /\ bytes_to_send' = Len(m_write_buf') + size
    BY <1>4, <1>7 DEF FileReply
  <2>3. Whole(code, size) = Heading \o rest
    BY <1>7 DEF Whole, Heading
  <2> HIDE DEF rest
  <2>4. /\ Vec("buf", 0, Len(m_write_buf')) \in Vectors
        /\ Vec("file", 0, size) \in Vectors
    BY <1>4, <1>5, <2>2, LenProperties DEF Vec, Vectors
  <2>5. /\ m_iv_count' = 2 /\ m_iv'[1] = Vec("buf", 0, Len(m_write_buf'))
        /\ m_iv'[2] = Vec("file", 0, st_size')
    BY <2>2, <2>4, VectorSeqs DEF m_iv_count
  <2>6. promised' = promised \o (m_write_buf' \o rest)
    BY <1>2, <2>2, <2>3
  <2> QED
    BY <1>1, <1>2, <1>3, <2>1, <2>2, <2>5, <2>6, MadeSending
<1> QED
  BY <1>2, <1>6, <1>7

(* What a smooth writev() hands over is the next bytes of the reply.       *)
LEMMA GatheredBody ==
  ASSUME TypeOK, Framed, Sending, Aligned, pc = "write", NEW n \in Nat, n <= Total
  PROVE  /\ Total = bytes_to_send
         /\ \A i \in 1 .. n : Gathered(n)[i] = Body(bytes_have_send + i)
<1>1. /\ m_iv_count \in {1, 2} /\ m_write_idx \in Nat /\ st_size \in Nat
      /\ bytes_to_send \in Int /\ bytes_have_send \in Nat
      /\ m_iv_count = 2 => m_file_address = "file"
      /\ bytes_have_send + bytes_to_send
            = m_write_idx + (IF m_iv_count = 2 THEN st_size ELSE 0)
  BY DEF TypeOK, Framed, Busy, Sending, m_write_idx
<1>2. /\ m_iv_count = 1 => Total = m_iv[1].len
      /\ m_iv_count = 2 => Total = m_iv[1].len + m_iv[2].len
  BY VectorTypes
<1>3. \A i \in 1 .. n :
         Gathered(n)[i] = IF i <= m_iv[1].len
                          THEN ByteAt(m_iv[1].area, m_iv[1].base + i)
                          ELSE ByteAt(m_iv[2].area, m_iv[2].base + i - m_iv[1].len)
  BY GatheredType
<1>4. CASE /\ bytes_have_send = 0 /\ m_iv[1] = Vec("buf", 0, m_write_idx)
           /\ m_iv_count = 2 => m_iv[2] = Vec("file", 0, st_size)
  <2>1. /\ m_iv[1].area = "buf" /\ m_iv[1].base = 0 /\ m_iv[1].len = m_write_idx
        /\ m_iv_count = 2 => /\ m_iv[2].area = "file" /\ m_iv[2].base = 0
                             /\ m_iv[2].len = st_size
    BY <1>4 DEF Vec
  <2>2. Total = bytes_to_send
    BY <1>1, <1>2, <1>4, <2>1
  <2>3. ASSUME NEW i \in 1 .. n PROVE Gathered(n)[i] = Body(bytes_have_send + i)
    <3>1. CASE i <= m_write_idx
      <4>1. i \in 1 .. m_write_idx /\ 0 + i = i
        BY <1>1, <3>1
      <4>2. ByteAt("buf", i) = m_write_buf[i]
        BY <4>1 DEF ByteAt
      <4>3. Body(i) = m_write_buf[i]
        BY <3>1 DEF Body
      <4> QED
        BY <1>3, <1>4, <2>1, <3>1, <4>1, <4>2, <4>3
    <3>2. CASE ~(i <= m_write_idx)
      <4>1. /\ m_iv_count = 2 /\ i - m_write_idx \in 1 .. st_size
            /\ 0 + i = i
        BY <1>1, <1>2, <2>1, <2>2, <3>2
      <4>2. ByteAt("file", i - m_write_idx) = <<made, "file", i - m_write_idx>>
        BY <1>1, <4>1 DEF ByteAt
      <4>3. Body(i) = <<made, "file", i - m_write_idx>>
        BY <3>2 DEF Body
      <4> QED
        BY <1>3, <1>4, <2>1, <3>2, <4>1, <4>2, <4>3
    <3> QED
      BY <3>1, <3>2
  <2> QED
    BY <2>2, <2>3
<1>5. CASE /\ m_iv_count = 2 /\ bytes_have_send >= m_write_idx
           /\ m_iv[1].len = 0
           /\ m_iv[2] = Vec("file", FilePlace, bytes_to_send)
  <2>1. /\ m_iv[2].area = "file" /\ m_iv[2].base = bytes_have_send - m_write_idx
        /\ m_iv[2].len = bytes_to_send
    BY <1>5 DEF Vec, FilePlace
  <2>2. Total = bytes_to_send
    BY <1>1, <1>2, <1>5, <2>1
  <2>3. ASSUME NEW i \in 1 .. n PROVE Gathered(n)[i] = Body(bytes_have_send + i)
    <3> DEFINE k == (bytes_have_send + i) - m_write_idx
    <3>1. /\ k \in 1 .. st_size /\ ~(bytes_have_send + i <= m_write_idx)
          /\ m_iv[2].base + i - m_iv[1].len = k /\ ~(i <= m_iv[1].len)
      BY <1>1, <1>5, <2>1, <2>2
    <3>2. Gathered(n)[i] = ByteAt("file", k)
      BY <1>3, <2>1, <3>1
    <3>3. Body(bytes_have_send + i) = <<made, "file", k>>
      BY <3>1, Zenon DEF Body
    <3> HIDE DEF k
    <3>4. ByteAt("file", k) = <<made, "file", k>>
      BY <1>1, <1>5, <3>1 DEF ByteAt
    <3> QED
      BY <3>2, <3>3, <3>4
  <2> QED
    BY <2>2, <2>3
<1> QED
  BY <1>4, <1>5 DEF Aligned

(* Bytes that leave the tail of the reply for the peer.                    *)
LEMMA Handed ==
  ASSUME TypeOK, Prefix, NEW n \in Nat, n <= bytes_to_send,
         NEW g \in Seq(Byte), Len(g) = n,
         Len(promised) = Len(received) + bytes_to_send,
         \A i \in 1 .. n : promised[Len(received) + i] = g[i],
         promised' = promised, received' = received \o g
  PROVE  Prefix' /\ Len(received') = Len(received) + n
<1>1. /\ received \in Seq(Byte) /\ promised \in Seq(Byte)
      /\ bytes_to_send \in Int
  BY DEF TypeOK
<1>2. /\ Len(received) \in Nat /\ Len(promised) \in Nat
  BY <1>1, LenProperties
<1>3. /\ Len(received') = Len(received) + n
      /\ \A i \in 1 .. Len(received) : received'[i] = received[i]
      /\ \A i \in 1 .. n : received'[Len(received) + i] = g[i]
  <2> DEFINE all == received \o g
  <2>1. /\ Len(all) = Len(received) + Len(g)
        /\ \A i \in 1 .. Len(received) : all[i] = received[i]
        /\ \A i \in 1 .. Len(g) : all[Len(received) + i] = g[i]
    BY <1>1, Joined, Zenon
  <2>2. received' = all
    OBVIOUS
  <2> HIDE DEF all
  <2> QED
    BY <2>1, <2>2
<1>4. ASSUME NEW i \in 1 .. Len(received') PROVE received'[i] = promised[i]
  <2>1. CASE i \in 1 .. Len(received)
    BY <1>3, <2>1 DEF Prefix
  <2>2. CASE ~(i \in 1 .. Len(received))
    <3> DEFINE j == i - Len(received)
    <3>1. j \in 1 .. n /\ Len(received) + j = i
      BY <1>2, <1>3, <2>2
    <3> HIDE DEF j
    <3>2. received'[Len(received) + j] = promised[Len(received) + j]
      BY <1>3, <3>1
    <3> QED
      BY <3>1, <3>2
  <2> QED
    BY <2>1, <2>2
<1>5. Len(received') <= Len(promised)
  BY <1>1, <1>2, <1>3
<1> QED
  BY <1>3, <1>4, <1>5 DEF Prefix

LEMMA DInvWritev ==
  ASSUME TypeOK, TypeOK', Framed, Framed', DInv, Writev PROVE DInv'
<1> DEFINE n == Taken
           g == Gathered(n)
<1>1. n \in Nat /\ n <= Total /\ pc = "write" /\ Busy
  BY WritevType DEF Writev, Busy
<1> SUFFICES ASSUME smooth, ~short PROVE DInv'
  <2>1. smooth' = (smooth /\ ~short)
    BY DEF Writev
  <2> QED
    BY <2>1, Zenon DEF DInv
<1>2. Prefix /\ Sending /\ Aligned
  BY <1>1 DEF DInv
<1>3. /\ Total = bytes_to_send
      /\ \A i \in 1 .. n : g[i] = Body(bytes_have_send + i)
  BY <1>1, <1>2, GatheredBody
<1>4. g \in Seq(Byte) /\ Len(g) = n
  BY <1>1, GatheredType
<1>5. smooth' /\ (short' <=> n < Total)
  <2>1. /\ smooth' = (smooth /\ ~short)
        /\ short' = (smooth' /\ Taken < Total)
    BY DEF Writev, Taken
  <2> QED
    BY <2>1, Zenon
<1>6. /\ received' = received \o g
      /\ UNCHANGED <<m_iv, st_size, made, promised>>
  BY <1>5 DEF Writev, Taken
<1> HIDE DEF n, g
<1>7. /\ Len(promised) = Len(received) + bytes_to_send
      /\ \A i \in 1 .. bytes_to_send :
            promised[Len(received) + i] = Body(bytes_have_send + i)
      /\ Len(received) \in Nat /\ bytes_to_send \in Nat /\ bytes_have_send \in Nat
  BY <1>1, <1>2, LenProperties DEF Sending, TypeOK, Framed
<1>8. \A i \in 1 .. n : promised[Len(received) + i] = g[i]
  <2>1. \A i \in 1 .. n : i \in 1 .. bytes_to_send
    BY <1>1, <1>3, <1>7
  <2> QED
    BY <1>3, <1>7, <2>1, Zenon
<1>9. Prefix' /\ Len(received') = Len(received) + n
  <2>1. n <= bytes_to_send
    BY <1>1, <1>3
  <2> QED
    BY <1>1, <1>2, <1>4, <1>6, <1>7, <1>8, <2>1, Handed
<1>10. CASE bytes_to_send > n
  <2>1. /\ bytes_have_send' = bytes_have_send + n
        /\ bytes_to_send' = bytes_to_send - n
        /\ UNCHANGED <<m_write_buf, m_linger, m_file_address, pc>>
    BY <1>10 DEF Writev, Taken, mapVars, n
  <2>2. short'
    BY <1>3, <1>5, <1>10
  <2>3. ASSUME NEW i \in 1 .. bytes_to_send - n
        PROVE  promised[Len(received) + n + i] = Body(bytes_have_send + n + i)
    <3>1. /\ n + i \in 1 .. bytes_to_send
          /\ Len(received) + (n + i) = Len(received) + n + i
          /\ bytes_have_send + (n + i) = bytes_have_send + n + i
      BY <1>1, <1>7
    <3>2. promised[Len(received) + (n + i)] = Body(bytes_have_send + (n + i))
      BY <1>7, <3>1, Zenon
    <3> QED
      BY <3>1, <3>2
  <2>4. Sending'
    <3>1. bytes_have_send' + bytes_to_send' = bytes_have_send + bytes_to_send
      BY <1>1, <1>7, <2>1
    <3>2. Len(promised') = Len(received') + bytes_to_send'
      BY <1>1, <1>6, <1>7, <1>9, <2>1
    <3>3. ASSUME NEW i \in 1 .. bytes_to_send'
          PROVE  promised'[Len(received') + i] = Body(bytes_have_send + i)'
      <4>1. promised[Len(received) + n + i] = Body(bytes_have_send + n + i)
        BY <2>1, <2>3
      <4> QED
        BY <1>6, <1>9, <2>1, <4>1 DEF Body, m_write_idx
    <3> QED
      BY <1>2, <1>6, <2>1, <3>1, <3>2, <3>3
      DEF Sending, m_write_idx, m_iv_count, Body
  <2>5. pc' = "write"
    BY <1>1, <2>1
  <2> QED
    BY <1>9, <2>2, <2>4, <2>5, Zenon DEF DInv
<1>11. CASE ~(bytes_to_send > n)
  <2>1. n = bytes_to_send
    BY <1>1, <1>3, <1>7, <1>11
  <2>2. \/ init /\ pc' = "idle"
        \/ pc' = "sent"
    BY <1>11 DEF Writev, Taken, n
  <2>3. Len(received') = Len(promised')
    BY <1>6, <1>7, <1>9, <2>1
  <2> QED
    BY <1>9, <2>2, <2>3 DEF DInv, init, Busy
<1> QED
  BY <1>10, <1>11

LEMMA DInvEagain ==
  ASSUME TypeOK, TypeOK', Framed, Framed', DInv, Eagain PROVE DInv'
<1>1. /\ pc = "write" /\ pc' = "out" /\ Busy
      /\ UNCHANGED <<m_write_buf, m_file_address, st_size, m_linger,
                     bytes_to_send, bytes_have_send, room, made, promised, received,
                     short>>
  BY DEF Eagain, Waiting, countVars, mapVars, Busy
<1> SUFFICES ASSUME smooth, bytes_have_send >= m_write_idx PROVE DInv'
  <2>1. smooth' = (smooth /\ bytes_have_send >= m_write_idx)
    BY DEF Eagain
  <2> QED
    BY <2>1, Zenon DEF DInv
<1>2. Prefix /\ Sending
  BY <1>1 DEF DInv
<1>3. /\ bytes_have_send \in Nat /\ m_write_idx \in Nat /\ bytes_to_send \in Nat
      /\ bytes_to_send > 0 /\ m_iv_count \in {1, 2} /\ m_iv[1].len \in Nat
  BY <1>1, VectorTypes, LenProperties DEF TypeOK, Framed, m_write_idx
<1>4. bytes_have_send >= m_iv[1].len
  BY <1>2, <1>3 DEF Sending
<1>5. m_iv_count = 2
  BY <1>2, <1>3 DEF Sending
<1>6. /\ m_iv_count' = 2 /\ m_iv'[1].len = 0
      /\ m_iv'[2] = Vec("file", FilePlace, bytes_to_send)
  BY <1>4, <1>5, MovedOn
<1>7. Aligned'
  BY <1>1, <1>6 DEF Aligned, FilePlace, m_write_idx
<1>8. Prefix'
  BY <1>1, <1>2 DEF Prefix
<1>9. Sending'
  <2>2. m_iv'[1].len <= m_write_idx' /\ m_write_idx' = m_write_idx
    BY <1>1, <1>3, <1>6 DEF m_write_idx
  <2>3. \A i \in 1 .. bytes_to_send :
           promised[Len(received) + i] = Body(bytes_have_send + i)
    BY <1>2, Zenon DEF Sending
  <2>4. \A i \in 1 .. bytes_to_send' :
           promised'[Len(received') + i] = Body(bytes_have_send + i)'
    BY <1>1, <2>3 DEF Body, m_write_idx
  <2> QED
    BY <1>1, <1>2, <1>5, <1>6, <2>2, <2>4 DEF Sending
<1> QED
  BY <1>1, <1>7, <1>8, <1>9 DEF DInv

LEMMA DInvStep ==
  ASSUME Ample
  PROVE  TypeOK /\ TypeOK' /\ Framed /\ Framed' /\ DInv /\ [Next]_vars => DInv'
<1> SUFFICES ASSUME TypeOK, TypeOK', Framed, Framed', DInv, [Next]_vars PROVE DInv'
  OBVIOUS
<1>1. CASE Writable
  <2>1. /\ pc = "out" /\ pc' = "write"
        /\ UNCHANGED <<m_write_buf, m_linger, bytes_to_send, bytes_have_send, m_iv,
                       m_file_address, st_size, room, made, promised, received, smooth>>
    BY <1>1 DEF Writable, countVars, mapVars, TypeOK, Framed, Busy
  <2> QED
    BY <2>1 DEF DInv, Prefix, Sending, Aligned, Busy, Body, m_write_idx, m_iv_count,
                FilePlace
<1>2. CASE Accept
  <2>1. received' = <<>> /\ promised' = <<>> /\ pc' = "idle"
        /\ m_write_buf' = <<>> /\ bytes_have_send' = 0
    BY <1>2 DEF Accept, init
  <2> QED
    BY <2>1 DEF DInv, Prefix, Busy
<1>3. CASE WriteFails \/ Close \/ HangUp
  <2>1. pc' = "closed" /\ UNCHANGED <<received, promised, smooth>>
    BY <1>3 DEF WriteFails, Close, HangUp, ghostVars
  <2> QED
    BY <2>1 DEF DInv, Prefix, Busy
<1>4. CASE Missed
  BY <1>4 DEF Missed, DInv
<1>5. CASE Drain \/ UNCHANGED vars
  <2>1. UNCHANGED <<m_write_buf, m_iv, m_file_address, st_size, bytes_to_send,
                    bytes_have_send, pc, made, promised, received, short, smooth>>
    BY <1>5 DEF Drain, vars, bufferVars, mapVars, countVars, ghostVars
  <2> QED
    BY <2>1 DEF DInv, Prefix, Sending, Aligned, Busy, Body, m_write_idx, m_iv_count,
                FilePlace
<1> QED
  BY <1>1, <1>2, <1>3, <1>4, <1>5, DInvProcess, DInvWritev, DInvEagain DEF Next, Write

(* Whatever the sizes of files, socket and buffer, the peer receives the   *)
(* replies it was promised, in order and each byte once, however writev()  *)
(* splits them: the arithmetic of bytes_have_send, bytes_to_send and the   *)
(* iovec in write() is right wherever the code is made for the split.      *)
THEOREM DeliveredHolds == ASSUME Ample PROVE Spec => []Delivered
<1>1. TypeOK /\ DInv => Delivered
  <2> SUFFICES ASSUME TypeOK, DInv, smooth
               PROVE  /\ Len(received) <= Len(promised)
                      /\ received = SubSeq(promised, 1, Len(received))
    BY DEF Delivered
  <2>1. /\ Prefix /\ received \in Seq(Byte) /\ promised \in Seq(Byte)
        /\ Len(received) \in Nat /\ Len(promised) \in Nat
    BY LenProperties DEF DInv, TypeOK
  <2> DEFINE p == SubSeq(promised, 1, Len(received))
  <2>2. /\ p \in Seq(Byte) /\ Len(p) = Len(received)
        /\ \A i \in 1 .. Len(received) : p[i] = promised[i]
    BY <2>1, SubSeqProperties DEF Prefix
  <2> HIDE DEF p
  <2>3. received = p
    BY <2>1, <2>2, SeqEqual DEF Prefix
  <2> QED
    BY <2>1, <2>3 DEF Prefix, p
<1>2. TypeOK /\ TypeOK' /\ Framed /\ Framed' /\ DInv /\ [Next]_vars => DInv'
  BY DInvStep
<1> QED
  BY <1>1, <1>2, DInvInit, FramedHolds, PTL DEF Spec

-----------------------------------------------------------------------------
(* Complete: what add_response() leaves in the buffer *)

(* Has(n, p), of any buffer.                                               *)
Contains(buf, n, p) == \E i \in 1 .. Len(buf) : buf[i] = <<n, p, Size[p]>>

(* No piece of a later reply is in the buffer.                             *)
Numbered ==
    pc # "closed" => \A n \in Nat, p \in Pieces : Has(n, p) => n <= made

Leading == {"status", "length", "linger", "blank"}

CInv == Complete /\ Numbered

LEMMA Grown ==
  ASSUME NEW buf \in Seq(Byte), NEW p \in Pieces, made \in Nat,
         Len(buf) < WRITE_BUFFER_SIZE
  PROVE  /\ add_response(buf, p) \in Seq(Byte)
         /\ Len(buf) <= Len(add_response(buf, p))
         /\ Len(add_response(buf, p)) < WRITE_BUFFER_SIZE
         /\ \A n \in Nat, q \in Pieces :
              /\ Contains(buf, n, q) => Contains(add_response(buf, p), n, q)
              /\ Contains(add_response(buf, p), n, q) =>
                   Contains(buf, n, q) \/ (n = made + 1 /\ q = p)
         /\ Fits(buf, p) => Contains(add_response(buf, p), made + 1, p)
<1> DEFINE b == add_response(buf, p)
<1>1. /\ Bytes(p) \in Seq(Byte) /\ Len(Bytes(p)) = Size[p] /\ Size[p] \in Nat \ {0}
      /\ \A i \in 1 .. Size[p] : Bytes(p)[i] = <<made + 1, p, i>>
  BY Pieced
<1>2. Len(buf) \in Nat /\ WRITE_BUFFER_SIZE \in Nat
  BY LenProperties, SizeAssumption
<1>3. CASE ~Fits(buf, p)
  BY <1>2, <1>3 DEF add_response
<1>4. CASE Fits(buf, p)
  <2>1. b = buf \o Bytes(p)
    BY <1>4 DEF add_response
  <2>2. /\ b \in Seq(Byte) /\ Len(b) = Len(buf) + Size[p]
        /\ \A i \in 1 .. Len(buf) + Size[p] :
              b[i] = IF i <= Len(buf) THEN buf[i] ELSE Bytes(p)[i - Len(buf)]
    BY <1>1, <2>1, ConcatProperties
  <2> HIDE DEF b
  <2>3. Len(b) < WRITE_BUFFER_SIZE
    BY <1>1, <1>2, <1>4, <2>2 DEF Fits
  <2>4. ASSUME NEW n \in Nat, NEW q \in Pieces, Contains(buf, n, q)
        PROVE  Contains(b, n, q)
    <3>1. PICK i \in 1 .. Len(buf) : buf[i] = <<n, q, Size[q]>>
      BY <2>4 DEF Contains
    <3>2. i \in 1 .. Len(b) /\ b[i] = buf[i]
      BY <1>1, <1>2, <2>2
    <3> QED
      BY <3>1, <3>2 DEF Contains
  <2>5. ASSUME NEW n \in Nat, NEW q \in Pieces, Contains(b, n, q)
        PROVE  Contains(buf, n, q) \/ (n = made + 1 /\ q = p)
    <3>1. PICK i \in 1 .. Len(b) : b[i] = <<n, q, Size[q]>>
      BY <2>5 DEF Contains
    <3>2. CASE i <= Len(buf)
      <4>1. i \in 1 .. Len(buf) /\ b[i] = buf[i]
        BY <1>1, <1>2, <2>2, <3>2
      <4> QED
        BY <3>1, <4>1 DEF Contains
    <3>3. CASE ~(i <= Len(buf))
      <4>1. i - Len(buf) \in 1 .. Size[p] /\ b[i] = Bytes(p)[i - Len(buf)]
        BY <1>1, <1>2, <2>2, <3>3
      <4>2. b[i] = <<made + 1, p, i - Len(buf)>>
        BY <1>1, <4>1
      <4> QED
        BY <3>1, <4>2
    <3> QED
      BY <3>2, <3>3
  <2>6. Contains(b, made + 1, p)
    <3>1. /\ Len(buf) + Size[p] \in 1 .. Len(b)
          /\ ~(Len(buf) + Size[p] <= Len(buf))
          /\ Len(buf) + Size[p] - Len(buf) = Size[p] /\ Size[p] \in 1 .. Size[p]
      BY <1>1, <1>2, <2>2
    <3>2. b[Len(buf) + Size[p]] = <<made + 1, p, Size[p]>>
      BY <1>1, <2>2, <3>1
    <3> QED
      BY <3>1, <3>2 DEF Contains
  <2> QED
    BY <1>1, <1>2, <2>2, <2>3, <2>4, <2>5, <2>6 DEF b
<1> QED
  BY <1>3, <1>4

(* A buffer with room for the text of a 400 had room for all before it.    *)
LEMMA HeadedHas ==
  ASSUME m_write_buf \in Seq(Byte), made \in Nat, m_write_idx < WRITE_BUFFER_SIZE
  PROVE  /\ Headed \in Seq(Byte) /\ Len(Headed) < WRITE_BUFFER_SIZE
         /\ \A n \in Nat, q \in Pieces :
              /\ Has(n, q) => Contains(Headed, n, q)
              /\ Contains(Headed, n, q) => Has(n, q) \/ (n = made + 1 /\ q \in Leading)
         /\ Fits(Headed, "form") => \A q \in Leading : Contains(Headed, made + 1, q)
<1> DEFINE b0 == add_response(m_write_buf, "status")
           b1 == add_response(b0, "length")
           b2 == add_response(b1, "linger")
           b3 == add_response(b2, "blank")
           Later(b, a, p) ==
              /\ b \in Seq(Byte) /\ Len(a) <= Len(b) /\ Len(b) < WRITE_BUFFER_SIZE
              /\ \A n \in Nat, q \in Pieces :
                    /\ Contains(a, n, q) => Contains(b, n, q)
                    /\ Contains(b, n, q) => Contains(a, n, q) \/ (n = made + 1 /\ q = p)
              /\ Fits(a, p) => Contains(b, made + 1, p)
<1>1. /\ Leading \subseteq Pieces /\ "form" \in Pieces /\ "status" \in Pieces
      /\ "length" \in Pieces /\ "linger" \in Pieces /\ "blank" \in Pieces
  BY DEF Leading, Pieces
<1>2. \A n \in Nat, q \in Pieces : Has(n, q) <=> Contains(m_write_buf, n, q)
  BY DEF Has, Contains, m_write_idx
<1>3. Later(b0, m_write_buf, "status")
  BY <1>1, Grown DEF m_write_idx
<1>4. Later(b1, b0, "length")
  BY <1>1, <1>3, Grown
<1>5. Later(b2, b1, "linger")
  BY <1>1, <1>4, Grown
<1>6. Later(b3, b2, "blank")
  BY <1>1, <1>5, Grown
<1>7. Headed = IF ~Fits(b0, "length") THEN b0 ELSE IF ~Fits(b1, "linger") THEN b1 ELSE b3
  BY DEF Headed, add_headers
<1> HIDE DEF b0, b1, b2, b3
<1>8. \A a, b \in Seq(Byte), p \in Leading :
         Len(a) <= Len(b) /\ Fits(b, "form") => Fits(a, p)
  <2> SUFFICES ASSUME NEW a \in Seq(Byte), NEW b \in Seq(Byte), NEW p \in Leading,
                      Len(a) <= Len(b), Fits(b, "form")
               PROVE  Fits(a, p)
    OBVIOUS
  <2>1. /\ Len(a) \in Nat /\ Len(b) \in Nat /\ WRITE_BUFFER_SIZE \in Nat
        /\ Size[p] \in Nat /\ Size["form"] \in Nat /\ Size[p] <= Size["form"]
    BY <1>1, SizeAssumption, FormAssumption, LenProperties DEF Leading
  <2> QED
    BY <2>1 DEF Fits
<1>9. /\ m_write_buf \in Seq(Byte) /\ b0 \in Seq(Byte) /\ b1 \in Seq(Byte)
      /\ b2 \in Seq(Byte) /\ b3 \in Seq(Byte)
  BY <1>3, <1>4, <1>5, <1>6
<1>10. Headed \in {b0, b1, b3}
  BY <1>7
<1>11. Headed \in Seq(Byte) /\ Len(Headed) < WRITE_BUFFER_SIZE
  BY <1>3, <1>4, <1>6, <1>10
<1>12. ASSUME NEW n \in Nat, NEW q \in Pieces
       PROVE  /\ Has(n, q) => Contains(Headed, n, q)
              /\ Contains(Headed, n, q) =>
                   Has(n, q) \/ (n = made + 1 /\ q \in Leading)
  <2>1. Has(n, q) => /\ Contains(b0, n, q) /\ Contains(b1, n, q)
                     /\ Contains(b3, n, q)
    BY <1>2, <1>3, <1>4, <1>5, <1>6
  <2>2. Contains(b0, n, q) => Has(n, q) \/ (n = made + 1 /\ q \in Leading)
    BY <1>2, <1>3 DEF Leading
  <2>3. Contains(b1, n, q) => Has(n, q) \/ (n = made + 1 /\ q \in Leading)
    BY <1>4, <2>2 DEF Leading
  <2>4. Contains(b2, n, q) => Has(n, q) \/ (n = made + 1 /\ q \in Leading)
    BY <1>5, <2>3 DEF Leading
  <2>5. Contains(b3, n, q) => Has(n, q) \/ (n = made + 1 /\ q \in Leading)
    BY <1>6, <2>4 DEF Leading
  <2> QED
    BY <1>10, <2>1, <2>2, <2>3, <2>5
<1>13. ASSUME Fits(Headed, "form")
       PROVE  \A q \in Leading : Contains(Headed, made + 1, q)
  <2>1. Len(Headed) \in Nat /\ Len(m_write_buf) \in Nat /\ Len(b0) \in Nat
        /\ Len(b1) \in Nat /\ Len(b2) \in Nat /\ Len(b3) \in Nat
    BY <1>9, <1>11, LenProperties
  <2>2. /\ "status" \in Leading /\ "length" \in Leading /\ "linger" \in Leading
        /\ "blank" \in Leading /\ made + 1 \in Nat
    BY DEF Leading
  <2>3. Headed = b3
    <3>1. Headed # b0 \/ Fits(b0, "length")
      BY <1>8, <1>9, <1>11, <1>13, <2>1, <2>2
    <3>2. Headed # b1 \/ Fits(b1, "linger")
      BY <1>8, <1>9, <1>11, <1>13, <2>1, <2>2
    <3> QED
      BY <1>7, <3>1, <3>2
  <2>4. /\ Len(m_write_buf) <= Len(b3) /\ Len(b0) <= Len(b3)
        /\ Len(b1) <= Len(b3) /\ Len(b2) <= Len(b3)
    BY <1>3, <1>4, <1>5, <1>6, <2>1
  <2>5. /\ Fits(m_write_buf, "status") /\ Fits(b0, "length")
        /\ Fits(b1, "linger") /\ Fits(b2, "blank")
    BY <1>8, <1>9, <1>13, <2>2, <2>3, <2>4
  <2>6. Contains(b3, made + 1, "status")
    BY <1>1, <1>3, <1>4, <1>5, <1>6, <2>2, <2>5
  <2>7. Contains(b3, made + 1, "length")
    BY <1>1, <1>4, <1>5, <1>6, <2>2, <2>5
  <2>8. Contains(b3, made + 1, "linger")
    BY <1>1, <1>5, <1>6, <2>2, <2>5
  <2>9. Contains(b3, made + 1, "blank")
    BY <1>6, <2>5
  <2> QED
    BY <2>3, <2>6, <2>7, <2>8, <2>9 DEF Leading
<1> QED
  BY <1>11, <1>12, <1>13

(* Process lays out a reply under the number made + 1, and gives it that   *)
(* number only when process_write() returned true.                         *)
LEMMA CInvProcess ==
  ASSUME TypeOK, CInv, Process PROVE CInv'
<1>1. PICK code \in Verdicts, size \in FileSizes :
         \/ /\ TextReply(code, size) \/ (code = "FILE_REQUEST" /\ FileReply(size))
            /\ pc' = "out" /\ made' = made + 1
         \/ /\ Fails(code, size)
            /\ pc' = "closed" /\ made' = made
  BY DEF Process
<1>2. /\ m_write_buf \in Seq(Byte) /\ made \in Nat /\ m_write_idx < WRITE_BUFFER_SIZE
      /\ pc = "idle"
  BY DEF TypeOK, CInv, Complete, Process
<1>3. /\ Headed \in Seq(Byte) /\ Len(Headed) < WRITE_BUFFER_SIZE
      /\ \A n \in Nat, q \in Pieces :
           /\ Has(n, q) => Contains(Headed, n, q)
           /\ Contains(Headed, n, q) => Has(n, q) \/ (n = made + 1 /\ q \in Leading)
      /\ Fits(Headed, "form") => \A q \in Leading : Contains(Headed, made + 1, q)
  BY <1>2, HeadedHas
<1>4. /\ \A n \in 1 .. made : Has(n, "form") => \A p \in Leading : Has(n, p)
      /\ \A n \in Nat, p \in Pieces : Has(n, p) => n <= made
  BY <1>2 DEF CInv, Complete, Numbered, Leading
<1>5. /\ Leading \subseteq Pieces /\ "form" \in Pieces /\ "title" \in Pieces
      /\ "empty" \in Pieces /\ "form" \notin Leading
  BY DEF Leading, Pieces
<1>6. \A n \in Nat, q \in Pieces : Has(n, q)' <=> Contains(m_write_buf', n, q)
  BY DEF Has, Contains, m_write_idx
<1>7. ASSUME m_write_buf' \in {m_write_buf, Headed} PROVE CInv'
  <2>1. m_write_idx' < WRITE_BUFFER_SIZE
    BY <1>2, <1>3, <1>7 DEF m_write_idx
  <2>2. made' \in {made, made + 1} /\ (made' = made => pc' = "closed")
    BY <1>1, <1>2
  <2>3. \A n \in Nat, q \in Pieces :
           /\ Has(n, q) => Has(n, q)'
           /\ Has(n, q)' => Has(n, q) \/ (n = made + 1 /\ q \in Leading)
    <3>1. \A n, q : Has(n, q) <=> Contains(m_write_buf, n, q)
      BY DEF Has, Contains, m_write_idx
    <3>2. CASE m_write_buf' = m_write_buf
      BY <1>6, <3>1, <3>2
    <3>3. CASE m_write_buf' = Headed
      BY <1>3, <1>6, <3>3
    <3> QED
      BY <1>7, <3>2, <3>3
  <2>4. ASSUME NEW n \in 1 .. made', Has(n, "form")', NEW p \in Leading
        PROVE  Has(n, p)'
    <3>1. n \in Nat /\ Has(n, "form")
      BY <1>2, <1>5, <2>2, <2>3, <2>4
    <3>2. n \in 1 .. made
      BY <1>2, <1>4, <1>5, <2>2, <3>1
    <3> QED
      BY <1>4, <1>5, <2>3, <3>1, <3>2
  <2>5. ASSUME pc' # "closed", NEW n \in Nat, NEW p \in Pieces, Has(n, p)'
        PROVE  n <= made'
    BY <1>2, <1>4, <2>2, <2>3, <2>5
  <2> QED
    BY <2>1, <2>4, <2>5 DEF CInv, Complete, Numbered, Leading
<1>8. ASSUME NEW p \in {"form", "title", "empty"},
             m_write_buf' = add_response(Headed, p), Fits(Headed, p) \/ p = "empty",
             p = "empty" <=> made' = made, made' \in {made, made + 1},
             made' = made => pc' = "closed"
      PROVE  CInv'
  <2>1. /\ m_write_buf' \in Seq(Byte) /\ Len(m_write_buf') < WRITE_BUFFER_SIZE
        /\ \A n \in Nat, q \in Pieces :
             /\ Contains(Headed, n, q) => Has(n, q)'
             /\ Has(n, q)' => Contains(Headed, n, q) \/ (n = made + 1 /\ q = p)
    BY <1>2, <1>3, <1>5, <1>6, <1>8, Grown
  <2>2. ASSUME NEW n \in 1 .. made', Has(n, "form")', NEW q \in Leading
        PROVE  Has(n, q)'
    <3>1. n \in Nat /\ q \in Pieces
      BY <1>2, <1>5, <1>8
    <3>2. CASE n \in 1 .. made
      BY <1>2, <1>3, <1>4, <1>5, <2>1, <2>2, <3>1, <3>2
    <3>3. CASE n = made + 1
      <4>1. p = "form" /\ Fits(Headed, "form")
        <5>1. ~Has(made + 1, "form")
          BY <1>2, <1>4, <1>5
        <5>2. ~Contains(Headed, made + 1, "form")
          BY <1>2, <1>3, <1>5, <5>1
        <5>3. p = "form"
          BY <1>5, <2>1, <2>2, <3>1, <3>3, <5>2
        <5> QED
          BY <1>8, <5>3
      <4>2. Contains(Headed, n, q)
        BY <1>3, <3>3, <4>1
      <4> QED
        BY <2>1, <3>1, <4>2
    <3> QED
      BY <1>2, <1>8, <3>2, <3>3
  <2>3. ASSUME pc' # "closed", NEW n \in Nat, NEW q \in Pieces, Has(n, q)'
        PROVE  n <= made'
    BY <1>2, <1>3, <1>4, <1>8, <2>1, <2>3
  <2> QED
    BY <2>1, <2>2, <2>3 DEF CInv, Complete, Numbered, Leading, m_write_idx
<1>9. CASE TextReply(code, size) /\ pc' = "out" /\ made' = made + 1
  <2>1. /\ Form(code) \in {"form", "title"} /\ Fits(Headed, Form(code))
        /\ m_write_buf' = add_response(Headed, Form(code))
    BY <1>9 DEF TextReply, Form
  <2> QED
    BY <1>2, <1>8, <1>9, <2>1
<1>10. CASE FileReply(size) /\ pc' = "out" /\ made' = made + 1
  BY <1>7, <1>10 DEF FileReply
<1>11. CASE Fails(code, size) /\ pc' = "closed" /\ made' = made
  <2>1. CASE m_write_buf' \in {m_write_buf, Headed}
    BY <1>7, <2>1
  <2>2. CASE m_write_buf' = add_response(Headed, "empty")
    BY <1>8, <1>11, <2>2
  <2> QED
    BY <1>11, <2>1, <2>2 DEF Fails
<1> QED
  BY <1>1, <1>9, <1>10, <1>11

LEMMA CInvEmpty ==
  ASSUME m_write_buf' = <<>> PROVE CInv'
<1>1. Len(m_write_buf') = 0 /\ 0 < WRITE_BUFFER_SIZE
  BY SizeAssumption
<1> QED
  BY <1>1 DEF CInv, Complete, Numbered, Has, m_write_idx

(* Spec => []Complete: whatever the sizes of the pieces, as long as the    *)
(* text of a 400 is the longest, that text is never in m_write_buf without *)
(* its status line and all its headers, though process_write() looks at    *)
(* none of their results; and m_write_idx stays below the buffer's size,   *)
(* also when replies pile up in it.                                        *)
THEOREM CompleteHolds == Spec => []Complete
<1>1. Init => CInv
  <2> SUFFICES ASSUME Init PROVE CInv
    OBVIOUS
  <2>1. Len(m_write_buf) = 0 /\ 0 < WRITE_BUFFER_SIZE
    BY SizeAssumption DEF Init
  <2> QED
    BY <2>1 DEF CInv, Complete, Numbered, Has, m_write_idx
<1>2. TypeOK /\ CInv /\ [Next]_vars => CInv'
  <2> SUFFICES ASSUME TypeOK, CInv, [Next]_vars PROVE CInv'
    OBVIOUS
  <2>1. CASE Process
    BY <2>1, CInvProcess
  <2>2. CASE m_write_buf' = <<>>
    BY <2>2, CInvEmpty
  <2>3. ASSUME UNCHANGED <<m_write_buf, made>>, pc = "closed" => pc' = "closed"
        PROVE  CInv'
    <3>1. \A n, p : Has(n, p)' <=> Has(n, p)
      BY <2>3 DEF Has, m_write_idx
    <3> QED
      BY <2>3, <3>1 DEF CInv, Complete, Numbered, m_write_idx
  <2>4. CASE UNCHANGED vars
    BY <2>3, <2>4 DEF vars
  <2>5. CASE Write
    BY <2>2, <2>3, <2>5 DEF Write, Writable, Writev, Eagain, init
  <2>6. CASE WriteFails \/ Close \/ Missed \/ HangUp \/ Drain
    BY <2>3, <2>6 DEF WriteFails, Close, Missed, HangUp, Drain, bufferVars, ghostVars
  <2>7. CASE Accept
    BY <2>2, <2>7 DEF Accept, init
  <2> QED
    BY <2>1, <2>4, <2>5, <2>6, <2>7 DEF Next
<1>3. Spec => [](TypeOK /\ Framed)
  BY FramedHolds
<1>4. CInv => Complete
  BY DEF CInv
<1> QED
  BY <1>1, <1>2, <1>3, <1>4, PTL DEF Spec
=============================================================================
