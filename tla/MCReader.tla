------------------------------ MODULE MCReader ------------------------------
(* An instance of Reader: two of the names and the pump's clock, strings of  *)
(* even and odd lengths.                                                     *)
EXTENDS Reader

CONSTANT s1

MCNames == <<11, 18, 1025>>
=============================================================================
