------------------------------ MODULE MCBreaker ------------------------------
(* Model-checking instance of Breaker.                                     *)
EXTENDS Breaker
=============================================================================
