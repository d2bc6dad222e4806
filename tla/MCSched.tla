------------------------------ MODULE MCSched ------------------------------
(***************************************************************************)
(* Sched with three tasks, of which any number is created, a counter of    *)
(* seven ticks and seconds of three, so that the counter wraps within a    *)
(* second and during a sleep.                                              *)
(***************************************************************************)
EXTENDS Sched
=============================================================================
