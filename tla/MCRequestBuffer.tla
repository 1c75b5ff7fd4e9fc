---------------------------- MODULE MCRequestBuffer ----------------------------
(***************************************************************************)
(* A small instance of RequestBuffer under fairness, with queue lengths on *)
(* both sides of each clamp (MCCourseWork has the one for its safety).     *)
(***************************************************************************)
EXTENDS RequestBuffer

MCQueueArgs == {0, 1, MAX_QUEUE_SIZE + 1}
===============================================================================
