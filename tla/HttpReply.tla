----------------------------- MODULE HttpReply -----------------------------
(***************************************************************************)
(* The write side of a connection slot (http_conn.cpp): process_write()    *)
(* lays a reply out in m_write_buf and in the iovec, write() sends it with *)
(* writev(), as far as the socket has room, and goes on when epoll reports *)
(* room again.                                                             *)
(*                                                                         *)
(* Abstractions.  A byte is where it comes from: <<reply, piece, place>>.  *)
(* Pieces of a header have the sizes given by Size.  Which verdict the     *)
(* request gets is open (HttpParse decides it); mmap() succeeds on a file  *)
(* that is not empty.                                                      *)
(***************************************************************************)
EXTENDS Integers, Sequences

CONSTANTS
    WRITE_BUFFER_SIZE,
    Size,        \* per piece of a reply: its length
    FileSizes,   \* what st_size may be
    SNDBUF,      \* room in an empty socket
    Missable,    \* TRUE: a failed write() may be overlooked (ShortClosed)
    MaxReplies,  \* bound: replies on one connection
    MaxCutoffs   \* bound: connections cut off while they send a file

Pieces == {"status", "length", "linger", "blank", "form", "title", "empty"}

ASSUME SizeAssumption ==
    /\ WRITE_BUFFER_SIZE \in Nat \ {0} /\ SNDBUF \in Nat \ {0}
    /\ Size \in [Pieces -> Nat \ {0}] /\ FileSizes \subseteq Nat

(* The text of a 400 is the longest piece of that reply.                   *)
ASSUME FormAssumption ==
    \A p \in {"status", "length", "linger", "blank"} : Size[p] <= Size["form"]

VARIABLES
    m_write_buf,      \* the first m_write_idx places of the buffer
    m_iv,             \* the first m_iv_count vectors: the others are not read
    m_file_address,   \* "NULL", "file", or "failed" for MAP_FAILED
    st_size, m_linger,
    bytes_to_send, bytes_have_send,
    newadd,           \* local to write(): where in the file it goes on
    extent,           \* length of the mapping m_file_address points to
    maps,             \* mappings this slot made and that still exist
    cutoffs,          \* connections cut off while they were sent a file
    pc,               \* what happens to the slot next
    room,             \* places left in the socket
    made,             \* replies process_write() reported on this connection
    promised,         \* their bytes
    received,         \* what writev() has handed over, while smooth
    short,            \* the last writev() was short, while smooth
    smooth            \* no short write had a sequel the code is not made for

mapVars == <<m_file_address, extent, maps>>
bufferVars == <<m_write_buf, m_iv, mapVars, st_size, m_linger>>
countVars == <<bytes_to_send, bytes_have_send>>
ghostVars == <<made, promised, received, short, smooth>>
vars == <<m_write_buf, m_iv, m_file_address, st_size, m_linger,
          bytes_to_send, bytes_have_send, newadd, extent, maps, cutoffs, pc,
          room, made, promised, received, short, smooth>>

m_write_idx == Len(m_write_buf)
m_iv_count == Len(m_iv)

Vec(area, base, len) == [area |-> area, base |-> base, len |-> len]

\* A slot nobody has used: static storage, nothing in it.
Init ==
    /\ m_write_buf = <<>> /\ m_iv = <<>> /\ m_file_address = "NULL"
    /\ st_size = 0 /\ m_linger = FALSE
    /\ bytes_to_send = 0 /\ bytes_have_send = 0 /\ newadd = 0
    /\ extent = 0 /\ maps = 0 /\ cutoffs = 0
    /\ pc = "closed" /\ room = SNDBUF
    /\ made = 0 /\ promised = <<>> /\ received = <<>>
    /\ short = FALSE /\ smooth = TRUE

-----------------------------------------------------------------------------
(* process_write() *)

Bytes(piece) == [i \in 1 .. Size[piece] |-> <<made + 1, piece, i>>]

\* add_response() returns true.
Fits(buf, piece) == /\ Len(buf) < WRITE_BUFFER_SIZE
                    /\ Size[piece] < WRITE_BUFFER_SIZE - Len(buf) - 1

add_response(buf, piece) == IF Fits(buf, piece) THEN buf \o Bytes(piece) ELSE buf

\* add_headers(): a piece that does not fit is the last that is tried.
add_headers(buf) ==
    LET b1 == add_response(buf, "length")
        b2 == add_response(b1, "linger")
    IN  IF ~Fits(buf, "length") THEN buf
        ELSE IF ~Fits(b1, "linger") THEN b1
        ELSE add_response(b2, "blank")

\* Nobody looks whether the status line and the headers did fit.
Headed == add_headers(add_response(m_write_buf, "status"))

Verdicts == {"INTERNAL_ERROR", "FORBIDDEN_REQUEST", "BAD_REQUEST", "NOT_FOUND",
             "NO_RESOURCE", "FILE_REQUEST"}

\* The text of an error reply; for two of them the name of the variable.
Form(code) == IF code \in {"BAD_REQUEST", "NOT_FOUND"} THEN "form" ELSE "title"

(* stat() overwrites st_size before do_request() looks at the mode: for a  *)
(* file it must not read and for a directory, but not when the parser said *)
(* BAD_REQUEST, nor when there is no such file.                            *)
Stat(code, size) ==
    st_size' \in CASE code = "FORBIDDEN_REQUEST" -> {size}
                   [] code = "BAD_REQUEST" -> {st_size, size}
                   [] OTHER -> {st_size}

\* Mutant: the text before the headers.
TextReply_swapped(code, size) ==
    LET b1 == add_response(add_response(m_write_buf, "status"), Form(code))
    IN  /\ code \notin {"NO_RESOURCE", "FILE_REQUEST"}
        /\ Fits(add_response(m_write_buf, "status"), Form(code))
        /\ m_write_buf' = add_headers(b1)
        /\ m_iv' = <<Vec("buf", 0, Len(m_write_buf'))>>
        /\ bytes_to_send' = Len(m_write_buf')
        /\ Stat(code, size) /\ UNCHANGED mapVars

TextReply(code, size) ==
    /\ code \notin {"NO_RESOURCE", "FILE_REQUEST"}
    /\ Fits(Headed, Form(code))
    /\ m_write_buf' = add_response(Headed, Form(code))
    /\ m_iv' = <<Vec("buf", 0, Len(m_write_buf'))>>
    /\ bytes_to_send' = Len(m_write_buf')
    /\ Stat(code, size) /\ UNCHANGED mapVars

(* do_request() has mapped the file; a mapping that m_file_address still   *)
(* pointed to stays, and nothing points to it any more.                    *)
FileReply(size) ==
    /\ size # 0
    /\ st_size' = size
    /\ m_file_address' = "file" /\ extent' = size /\ maps' = maps + 1
    /\ m_write_buf' = Headed
    /\ m_iv' = <<Vec("buf", 0, Len(m_write_buf')), Vec("file", 0, size)>>
    /\ bytes_to_send' = Len(m_write_buf') + size

(* process_write() returns false: nothing is said of a missing file, the   *)
(* text does not fit, or the file is empty, for whose reply a break is     *)
(* missing.                                                                *)
Fails(code, size) ==
    \/ code = "NO_RESOURCE"
       /\ UNCHANGED <<m_write_buf, mapVars, st_size>>
    \/ /\ code \notin {"NO_RESOURCE", "FILE_REQUEST"} /\ ~Fits(Headed, Form(code))
       /\ m_write_buf' = Headed
       /\ Stat(code, size) /\ UNCHANGED mapVars
    \/ /\ code = "FILE_REQUEST" /\ size = 0
       /\ m_write_buf' = add_response(Headed, "empty")
       /\ m_file_address' = "failed" /\ extent' = 0 /\ UNCHANGED maps
       /\ st_size' = 0

\* The reply the verdict calls for, and the file.
Whole(code, size) ==
    Bytes("status") \o Bytes("length") \o Bytes("linger") \o Bytes("blank")
    \o IF code = "FILE_REQUEST" THEN [i \in 1 .. size |-> <<made + 1, "file", i>>]
       ELSE Bytes(Form(code))

(* process(): process_write(), then EPOLLOUT, or close_conn().             *)
Process ==
    /\ pc = "idle" /\ made < MaxReplies
    /\ \E code \in Verdicts, size \in FileSizes :
         \/ /\ TextReply(code, size) \/ (code = "FILE_REQUEST" /\ FileReply(size))
            /\ pc' = "out"
            /\ made' = made + 1 /\ promised' = promised \o Whole(code, size)
         \/ /\ Fails(code, size)
            /\ pc' = "closed"
            /\ UNCHANGED <<m_iv, bytes_to_send, made, promised>>
    /\ m_linger' \in BOOLEAN
    /\ UNCHANGED <<bytes_have_send, newadd, cutoffs, room, received, short,
                   smooth>>

-----------------------------------------------------------------------------
(* write() *)

\* What init() does here; m_iv and m_file_address stay as they are.
init == /\ m_write_buf' = <<>> /\ m_linger' = FALSE
        /\ bytes_to_send' = 0 /\ bytes_have_send' = 0

Total == m_iv[1].len + (IF m_iv_count = 2 THEN m_iv[2].len ELSE 0)

\* The byte in that place; what lies outside the reply or the file is junk.
ByteAt(area, i) ==
    IF area = "buf" /\ i \in 1 .. m_write_idx THEN m_write_buf[i]
    ELSE IF area = "file" /\ m_file_address = "file" /\ i \in 1 .. st_size
    THEN <<made, "file", i>>
    ELSE <<0, "junk", 0>>

\* The first n bytes the iovec describes.
Gathered(n) ==
    [i \in 1 .. n |-> IF i <= m_iv[1].len
                      THEN ByteAt(m_iv[1].area, m_iv[1].base + i)
                      ELSE ByteAt(m_iv[2].area, m_iv[2].base + i - m_iv[1].len)]

(* EPOLLOUT: write() is called.  With nothing to send it waits for requests. *)
Writable ==
    /\ pc = "out" /\ room > 0
    /\ IF bytes_to_send = 0
       THEN pc' = "idle" /\ init
       ELSE pc' = "write" /\ UNCHANGED <<m_write_buf, m_linger, countVars>>
    /\ newadd' = 0 /\ short' = FALSE
    /\ UNCHANGED <<m_iv, mapVars, st_size, cutoffs, room, made, promised,
                   received, smooth>>

\* Mutant: the mapping is left.
unmap_omitted == UNCHANGED mapVars

(* munmap() removes the mapping if the length covers it: with another      *)
(* file's st_size it may not, and with MAP_FAILED it does nothing.         *)
unmap ==
    /\ m_file_address' = "NULL" /\ extent' = 0
    /\ maps' = IF m_file_address = "file" /\ st_size >= extent THEN maps - 1
               ELSE maps

\* Mutant: the header is not taken off.
NewAdd_whole(n) == bytes_have_send + n

\* bytes_have_send += temp; newadd = bytes_have_send - m_write_idx
NewAdd(n) == bytes_have_send + n - m_write_idx

(* writev() takes what there is room for.  The iovec is not moved on: what *)
(* a short call leaves is in order only if EAGAIN comes next.              *)
Writev ==
    /\ pc = "write" /\ (room > 0 \/ Total = 0)
    /\ LET n == IF Total < room THEN Total ELSE room
       IN  /\ room' = room - n
           /\ smooth' = (smooth /\ ~short)
           /\ short' = (smooth' /\ n < Total)
           /\ received' = IF smooth' THEN received \o Gathered(n) ELSE <<>>
           /\ newadd' = IF n > 0 THEN NewAdd(n) ELSE newadd
           /\ IF bytes_to_send > n
              THEN /\ bytes_have_send' = bytes_have_send + n
                   /\ bytes_to_send' = bytes_to_send - n
                   /\ UNCHANGED <<m_write_buf, m_linger, mapVars, pc>>
              ELSE /\ unmap
                   /\ IF m_linger
                      THEN init /\ pc' = "idle"
                      ELSE /\ bytes_have_send' = bytes_have_send + n
                           /\ bytes_to_send' = bytes_to_send - n
                           /\ pc' = "sent" /\ UNCHANGED <<m_write_buf, m_linger>>
    /\ UNCHANGED <<m_iv, st_size, cutoffs, made, promised>>

\* Mutant: EPOLLOUT is not asked for.
Waiting_idle == "idle"

\* modfd(EPOLLOUT)
Waiting == "out"

(* EAGAIN: the iovec is moved on, for the file; for a header that was cut  *)
(* it is moved to the wrong place.                                         *)
Eagain ==
    /\ pc = "write" /\ room = 0 /\ Total > 0
    /\ m_iv' = IF bytes_have_send >= m_iv[1].len
               THEN [i \in DOMAIN m_iv |->
                       IF i = 1 THEN [m_iv[1] EXCEPT !.len = 0]
                       ELSE Vec("file", newadd, bytes_to_send)]
               ELSE [m_iv EXCEPT ![1] = Vec("buf", bytes_to_send,
                                            m_iv[1].len - bytes_have_send)]
    /\ smooth' = (smooth /\ bytes_have_send >= m_write_idx)
    /\ pc' = Waiting
    /\ UNCHANGED <<m_write_buf, mapVars, st_size, m_linger, countVars, newadd,
                   cutoffs, room, made, promised, received, short>>

\* Another error: the peer is gone.
WriteFails ==
    /\ pc = "write"
    /\ unmap
    /\ pc' = "closed"
    /\ UNCHANGED <<m_write_buf, m_iv, st_size, m_linger, countVars, newadd,
                   cutoffs, room, ghostVars>>

-----------------------------------------------------------------------------
(* The owner of the slot, and the peer *)

\* A new connection in the slot: init() with a socket.
Accept ==
    /\ pc = "closed"
    /\ init
    /\ pc' = "idle" /\ room' = SNDBUF
    /\ made' = 0 /\ promised' = <<>> /\ received' = <<>>
    /\ short' = FALSE /\ smooth' = TRUE
    /\ UNCHANGED <<m_iv, mapVars, st_size, newadd, cutoffs>>

\* write() returned false.
Close ==
    /\ pc = "sent" /\ pc' = "closed"
    /\ UNCHANGED <<bufferVars, countVars, newadd, cutoffs, room, ghostVars>>

\* In reactor mode that may be overlooked: the slot goes on without init().
Missed ==
    /\ pc = "sent" /\ Missable
    /\ pc' = "idle" /\ smooth' = FALSE
    /\ UNCHANGED <<bufferVars, countVars, newadd, cutoffs, room, made, promised,
                   received, short>>

SendingFile == pc \in {"out", "write"} /\ m_iv_count = 2

\* The timer or a hang-up closes the connection, without unmap().
HangUp ==
    /\ pc \in {"idle", "out"} /\ pc' = "closed"
    /\ IF SendingFile THEN cutoffs < MaxCutoffs /\ cutoffs' = cutoffs + 1
       ELSE UNCHANGED cutoffs
    /\ UNCHANGED <<bufferVars, countVars, newadd, room, ghostVars>>

\* The peer reads, also between two calls of writev().
Drain ==
    /\ pc # "closed" /\ room < SNDBUF
    /\ room' \in room + 1 .. SNDBUF
    /\ UNCHANGED <<bufferVars, countVars, newadd, cutoffs, pc, ghostVars>>

Write == Writable \/ Writev \/ Eagain

Next == Process \/ Write \/ WriteFails \/ Accept \/ Close \/ Missed \/ HangUp \/ Drain

Spec == Init /\ [][Next]_vars

\* Whoever is told of room writes, and the peer reads what it is sent.
FairSpec == Spec /\ WF_vars(Write) /\ WF_vars(Drain)

-----------------------------------------------------------------------------
(* Correctness *)

(* The peer receives the replies it was promised, in order and each byte   *)
(* once, however writev() splits them; as long as a reply that fits into   *)
(* m_write_buf is never split there, and a short writev() is followed by   *)
(* EAGAIN.                                                                 *)
Delivered ==
    smooth => /\ Len(received) <= Len(promised)
              /\ received = SubSeq(promised, 1, Len(received))

(* A reply that epoll reported room for is received to its last byte, or   *)
(* the connection is closed, or ends up where the code does not follow.    *)
Finished == pc = "out" ~> (received = promised \/ pc = "closed" \/ ~smooth)

(* The results of add_status_line() and add_headers() are ignored, and yet *)
(* the text of a 400 is in m_write_buf only after its status line and its  *)
(* headers: it is the longest piece, so it is the first not to fit.  And   *)
(* the place of the zero byte that vsnprintf() adds is never given away.   *)
Has(n, piece) == \E i \in 1 .. m_write_idx : m_write_buf[i] = <<n, piece, Size[piece]>>

Complete ==
    /\ m_write_idx < WRITE_BUFFER_SIZE
    /\ \A n \in 1 .. made : Has(n, "form") =>
         \A p \in {"status", "length", "linger", "blank"} : Has(n, p)

(* A file is mapped while it is being sent, and a mapping is lost only by  *)
(* a connection that is cut off then, at most one by each: besides those   *)
(* there is the one that is being sent from, whatever later requests in    *)
(* the slot do to m_file_address and st_size before unmap() reads them.    *)
(* A connection that waits for its next request has no pointer to one.     *)
Released ==
    /\ SendingFile => m_file_address = "file"
    /\ maps <= cutoffs + (IF SendingFile THEN 1 ELSE 0)
    /\ (pc = "idle" /\ made > 0) => m_file_address = "NULL"
=============================================================================
