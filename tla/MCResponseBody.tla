--------------------------- MODULE MCResponseBody ---------------------------
(***************************************************************************)
(* The objects and tokens TLC checks ResponseBody with.                    *)
(***************************************************************************)
EXTENDS ResponseReference

CONSTANTS Input, Output  \* two of the fields that hold counts

Object(error, done, stop, input_, output) ==
    [error |-> error, done |-> done, stop |-> stop,
     usage |-> [k \in UsageKeys |-> IF k = Input THEN input_ ELSE output]]

MCUsageKeys == {Input, Output}

Usage == Object(FALSE, Nil, TRUE, "valid", Nil)
Failure == Object(TRUE, Nil, FALSE, Nil, Nil)
Chunk == Object(FALSE, FALSE, FALSE, "valid", Nil)
Null == Object(FALSE, TRUE, FALSE, "null", "null")
Final == Object(FALSE, TRUE, FALSE, Nil, "valid")
Garbled == Object(FALSE, TRUE, FALSE, "invalid", "valid")

MCSSETokens ==
    {Obj(Usage, FALSE), Open("open", Usage, TRUE), Open("string", Usage, FALSE), Rest(FALSE)}
        \cup {Mark(k) : k \in {"LF", "CR", "data", "other", "DONE"}}

MCPlainTokens ==
    {Obj(o, FALSE) : o \in {Chunk, Null, Garbled, Failure}}
        \cup {Open("open", Final, TRUE), Open("string", Chunk, FALSE), Open("scalar", Null, FALSE)}
        \cup {Rest(FALSE), Rest(TRUE)}
        \cup {Mark(k) : k \in {"junk", "LF"} \cup Limits}
=============================================================================
