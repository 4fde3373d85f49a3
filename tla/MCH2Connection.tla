--------------------------- MODULE MCH2Connection ---------------------------
(***************************************************************************)
(* TLC's instances of H2ConnectionProps.                                   *)
(***************************************************************************)
EXTENDS H2ConnectionProps

OneStream == {1}
TwoStreams == {1, 3}
=============================================================================
