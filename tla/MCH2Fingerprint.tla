--------------------------- MODULE MCH2Fingerprint ---------------------------
(***************************************************************************)
(* TLC's instances of H2Fingerprint.  Streams are exchangeable; requests   *)
(* are not, being numbered in their order.                                 *)
(***************************************************************************)
EXTENDS H2Fingerprint, TLC

CONSTANTS s1, s2

TwoStreams == {s1, s2}
TwoRequests == {1, 2}
StreamSymmetry == Permutations(TwoStreams)
=============================================================================
