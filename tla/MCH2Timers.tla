----------------------------- MODULE MCH2Timers -----------------------------
(***************************************************************************)
(* TLC's instances of H2Timers: one unit of time is five seconds.          *)
(***************************************************************************)
EXTENDS H2Timers

TwoRequests == {1, 2}
=============================================================================
