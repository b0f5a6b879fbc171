------------------------- MODULE WebServerConnection -------------------------
(***************************************************************************)
(* WebServer, as a proactor whose tasks end before their timers,           *)
(* implements Connection.                                                  *)
(***************************************************************************)
EXTENDS WebServer

(* The party that holds f: the member of Owners(f), by its kind.           *)
owner == [f \in Fd |->
            IF sock[f].armed # "off" THEN "epoll"
            ELSE IF event[f] # "none" THEN "main"
            ELSE IF f \in Queued THEN "queue"
            ELSE IF f \in Held THEN "worker"
            ELSE "nobody"]

Conn == INSTANCE Connection

(* Every step of the server is a step of Connection or leaves the owners   *)
(* alone: no worker, timer or hang-up takes a connection from another.     *)
ConnSpec == Conn!Spec
=============================================================================
