----------------------------- MODULE MCLiveness -----------------------------
(* Instances of Liveness for TLC.                                          *)
EXTENDS Liveness

CONSTANTS r1, r2
=============================================================================
