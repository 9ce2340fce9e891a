------------------------------ MODULE MCPoller ------------------------------
(* Model-checking instance of Poller with ModelCache.                      *)
EXTENDS Poller
=============================================================================
