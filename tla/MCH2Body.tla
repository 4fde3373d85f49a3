------------------------------- MODULE MCH2Body -------------------------------
(***************************************************************************)
(* TLC's instance of H2Body.                                               *)
(***************************************************************************)
EXTENDS H2Body

TwoSizes == {1, 2}
=============================================================================
