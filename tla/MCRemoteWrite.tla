---------------------------- MODULE MCRemoteWrite ----------------------------
(***************************************************************************)
(* Model-checking instances of RemoteWrite.  One status per class of       *)
(* classifyStatus, and one Retry-After header per case of parseRetryAfter. *)
(***************************************************************************)
EXTENDS RemoteWrite

OneStatusPerClass == {204, 404, 429, 418}

\* Seconds that wrap to a negative duration, and once around to a positive one.
HugeNegative == MaxDuration + 2
HugePositive == 2 * (MaxDuration + 1) + 5

NoHeader == {[form |-> "absent", value |-> 0]}
Headers == NoHeader \cup {[form |-> "seconds", value |-> 2],
                          [form |-> "seconds", value |-> -1],
                          [form |-> "seconds", value |-> HugeNegative],
                          [form |-> "seconds", value |-> HugePositive],
                          [form |-> "date", value |-> 3]}
=============================================================================
