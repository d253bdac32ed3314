------------------------------ MODULE MCExtract -----------------------------
(* Instances of Extract: a pump that has only just begun dispensing, so that *)
(* cycle 0 and its alias are asked for, and goes on past its retention.      *)
EXTENDS Extract

CONSTANT t0
=============================================================================
