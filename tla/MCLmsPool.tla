----------------------------- MODULE MCLmsPool -----------------------------
(* Instances of LmsPool for TLC.                                           *)
EXTENDS LmsPool

CONSTANTS flush, health, stop, q1, q2, q3, q4, q5, q6
=============================================================================
