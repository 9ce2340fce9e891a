------------------------------- MODULE MCQueue -------------------------------
(***************************************************************************)
(* Model-checking instances of Queue.  MCQueue.cfg: one producer (the      *)
(* Pusher), two consumers, a ring of two slots and enough batches to wrap  *)
(* and overflow it.  MCQueueGauge.cfg: the Pusher and one Sender.          *)
(***************************************************************************)
EXTENDS Queue
=============================================================================
