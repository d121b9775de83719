------------------------------ MODULE MCRevItc ------------------------------
(***************************************************************************)
(* Instances of RevItc for TLC.                                            *)
(***************************************************************************)
EXTENDS RevItc

CONSTANTS s1, s2, r1, r2, q1, q2, b1, b2, b3
============================================================================
