----------------------------- MODULE MCWebServer -----------------------------
(* Instances of WebServer for TLC. *)
EXTENDS WebServerConnection, TLC

Symmetry == Permutations(Fd) \cup Permutations(Worker) \cup Permutations(Timer)
=============================================================================
