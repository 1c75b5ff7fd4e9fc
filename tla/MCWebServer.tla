----------------------------- MODULE MCWebServer -----------------------------
(***************************************************************************)
(* A small instance of WebServer for TLC: two threads of each kind, a full *)
(* ring and a full cache within reach, sockets that are reused.            *)
(***************************************************************************)
EXTENDS WebServer, TLC

MCSymmetry == Permutations(Dispatchers) \cup Permutations(Workers)
              \cup Permutations(Fds) \cup Permutations(Files)
===============================================================================
