---------------------------- MODULE MCHttpReply ----------------------------
(* Instances of HttpReply for TLC. *)
EXTENDS HttpReply

\* In proportion: a 400 has a status line of 26 bytes, headers of 19, 18 and
\* 2, and a text of 67.
PieceSize == [p \in Pieces |-> CASE p = "status" -> 2 [] p = "form" -> 3
                                 [] OTHER -> 1]
=============================================================================
