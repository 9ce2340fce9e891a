----------------------------- MODULE StreamJSON -----------------------------
(***************************************************************************)
(* internal/collector/streamjson.go: the bounded recognizer that takes the *)
(* selected scalar fields out of a stream of JSON objects, one byte at a   *)
(* time.  j is the jsonFields value; every method is a function from such  *)
(* a value to the next one.                                                *)
(*                                                                         *)
(* A byte is a one-character string.  Bytes that the code treats alike     *)
(* have few representatives: the digits 0, 1, 2 and 6, the hex digits a    *)
(* and e, SP for white space a string may contain, LF for white space that *)
(* is a control character.                                                 *)
(***************************************************************************)
EXTENDS Naturals, Sequences, SequencesExt, TLC

CONSTANTS
    Wanted,       \* paths of the selected fields, as sequences of names
    KeyLimit,     \* encoded bytes of a field name (128)
    ValueLimit,   \* encoded bytes of a selected scalar (4096)
    MaxDepth,     \* nested containers (64)
    Starts        \* inputs: a fixed prefix, the bytes that may follow it, how many

ASSUME StreamJSONAssumption ==
    /\ KeyLimit \in Nat /\ ValueLimit \in Nat
    /\ MaxDepth \in Nat \ {0}
    /\ <<>> \notin Wanted

Quote == "\""
Backslash == "\\"
White == {"SP", "LF"}
Control == {"LF"}
Digit == {"0", "1", "2", "6"}
Hex == Digit \cup {"a", "e"}
Escapable == {Quote, Backslash, "/", "n"}
Literal == [t |-> <<"r", "u", "e">>, f |-> <<"a", "l", "s", "e">>, n |-> <<"u", "l", "l">>]

\* The zero value of jsonFields.  `number` is the state of the number grammar,
\* or "literal" with what is left of the literal in `rest`; `emitted` are the
\* calls of emit.
NewParser ==
    [stack |-> <<>>, token |-> <<>>, mode |-> "", escape |-> FALSE, unicode |-> 0,
     number |-> "", rest |-> <<>>, keyToken |-> FALSE, overflow |-> FALSE, bad |-> FALSE,
     failure |-> "", keySkipped |-> FALSE, fields |-> <<>>, emitted |-> <<>>]

bad(j) == [j EXCEPT !.bad = TRUE]
limited(j, reason) == [j EXCEPT !.bad = TRUE, !.failure = reason]

-----------------------------------------------------------------------------
(* Names and paths *)

Frame(kind, state) == [kind |-> kind, state |-> state, key |-> <<>>]
top(j) == Last(j.stack)
setTop(j, field, x) == [j EXCEPT !.stack[Len(j.stack)][field] = x]

\* Mutant of path: arrays are passed through.
pathThroughArrays(j) ==
    LET names == SelectSeq(j.stack, LAMBDA f : f.kind = "{")
    IN  IF Len(names) > 3 \/ \E i \in DOMAIN names : "." \in ToSet(names[i].key)
        THEN <<>> ELSE [i \in DOMAIN names |-> names[i].key]

\* The names on the way to the current value; <<>> inside an array, beyond
\* three levels and where a name contains the separator.
path(j) ==
    IF Len(j.stack) > 3 \/ \E i \in DOMAIN j.stack :
           j.stack[i].kind # "{" \/ "." \in ToSet(j.stack[i].key)
    THEN <<>>
    ELSE [i \in DOMAIN j.stack |-> j.stack[i].key]

wanted(p) == p \in Wanted

\* json.Unmarshal of a string token: quotes removed, escapes resolved.
unescape(c) == IF c = "n" THEN "LF" ELSE c
codePoint(hex) ==
    CASE hex = <<"0", "0", "6", "1">> -> "a"
      [] hex = <<"0", "0", "2", "e">> -> "."
      [] OTHER -> "U"
unquote(token) ==
    LET step(a, c) ==
            CASE a.esc = 0 /\ c = Backslash -> [a EXCEPT !.esc = 1]
              [] a.esc = 0 /\ c # Backslash -> [a EXCEPT !.out = Append(@, c)]
              [] a.esc = 1 /\ c = "u"       -> [a EXCEPT !.esc = 2, !.hex = <<>>]
              [] a.esc = 1 /\ c # "u"       -> [a EXCEPT !.esc = 0, !.out = Append(@, unescape(c))]
              [] a.esc = 2 /\ Len(a.hex) < 3 -> [a EXCEPT !.hex = Append(@, c)]
              [] OTHER -> [a EXCEPT !.esc = 0, !.out = Append(@, codePoint(Append(a.hex, c)))]
    IN  FoldLeft(step, [esc |-> 0, hex |-> <<>>, out |-> <<>>],
                 SubSeq(token, 2, Len(token) - 1)).out

-----------------------------------------------------------------------------
(* Scalars *)

append(j, c) ==
    LET limit == IF j.keyToken THEN KeyLimit ELSE ValueLimit
    IN  IF Len(j.token) < limit THEN [j EXCEPT !.token = Append(@, c)]
        ELSE [j EXCEPT !.overflow = TRUE]

\* The grammar of numbers and literals, kept apart from the token's storage.
\* numberStep is the state after byte c, "bad" if there is none.
numberStep(number, c) ==
    CASE number = "-" /\ c \in Digit -> IF c = "0" THEN "0" ELSE "i"
      [] number \in {"0", "i"} /\ c = "." -> "."
      [] number \in {"0", "i", "f"} /\ c = "e" -> "e"
      [] number = "i" /\ c \in Digit -> "i"
      [] number \in {".", "f"} /\ c \in Digit -> "f"
      [] number = "e" /\ c \in {"+", "-"} -> "s"
      [] number \in {"e", "s", "d"} /\ c \in Digit -> "d"
      [] OTHER -> "bad"

firstStep(c) == CASE c = "-" -> "-" [] c = "0" -> "0" [] c \in Digit \ {"0"} -> "i" [] OTHER -> "bad"

scalarByte(j, c) ==
    LET literal == IF j.rest # <<>> /\ c = Head(j.rest) THEN [j EXCEPT !.rest = Tail(@)] ELSE bad(j)
        next == IF j.number = "" THEN firstStep(c) ELSE numberStep(j.number, c)
    IN  IF j.number = "literal" THEN literal
        ELSE IF j.number = "" /\ c \in DOMAIN Literal
        THEN [j EXCEPT !.number = "literal", !.rest = Literal[c]]
        ELSE IF next = "bad" THEN bad(j) ELSE [j EXCEPT !.number = next]

\* Mutant of scalarComplete: any number prefix will do.
scalarStarted(j) == j.number = "literal" => j.rest = <<>>

scalarComplete(j) ==
    IF j.number = "literal" THEN j.rest = <<>> ELSE j.number \in {"0", "i", "f", "d"}

valueDone(j) == IF j.stack = <<>> THEN bad(j) ELSE setTop(j, "state", ",")

endToken(j) ==
    [j EXCEPT !.token = <<>>, !.mode = "", !.overflow = FALSE, !.number = "", !.rest = <<>>]

\* A scalar has ended.  json.Valid of a selected token asks the same grammar
\* again, which a string has passed byte by byte.
scalar(j) ==
    LET key == IF j.overflow THEN <<>> ELSE unquote(j.token)
        p == path(j)
        valid == j.mode = Quote \/ scalarComplete(j)
    IN  IF j.keyToken
        THEN endToken([setTop(setTop(j, "key", key), "state", ":")
                         EXCEPT !.keySkipped = @ \/ j.overflow])
        ELSE IF wanted(p) /\ j.overflow THEN limited(j, "selected_value_limit")
        ELSE IF ~valid THEN bad(j)
        ELSE endToken(valueDone(IF wanted(p) THEN [j EXCEPT !.fields = (p :> j.token) @@ @] ELSE j))

-----------------------------------------------------------------------------
(* Structure *)

close(j, c) ==
    IF (c = "}") # (top(j).kind = "{") THEN bad(j)
    ELSE LET k == [j EXCEPT !.stack = Front(@)]
         IN  IF k.stack = <<>> THEN [k EXCEPT !.emitted = Append(@, j.fields)] ELSE valueDone(k)

openContainer(j, c) ==
    LET p == path(j)
        k == IF wanted(p) THEN [j EXCEPT !.fields = (p :> <<c>>) @@ @] ELSE j
    IN  IF Len(j.stack) = MaxDepth THEN limited(k, "depth_limit")
        ELSE [k EXCEPT !.stack = Append(@, Frame(c, IF c = "[" THEN "a" ELSE "k"))]

beginString(j, isKey) == append([j EXCEPT !.keyToken = isKey, !.mode = Quote], Quote)

beginScalar(j, c) == append(scalarByte([j EXCEPT !.keyToken = FALSE, !.mode = "s"], c), c)

\* A byte of a string.
stringByte(j, c) ==
    LET k == append(j, c)
    IN  CASE k.unicode > 0 -> IF c \in Hex THEN [k EXCEPT !.unicode = @ - 1] ELSE bad(k)
          [] k.unicode = 0 /\ k.escape ->
                 IF c = "u" THEN [k EXCEPT !.escape = FALSE, !.unicode = 4]
                 ELSE IF c \in Escapable THEN [k EXCEPT !.escape = FALSE] ELSE bad(k)
          [] OTHER -> CASE c = Backslash -> [k EXCEPT !.escape = TRUE]
                        [] c = Quote -> scalar(k)
                        [] c \in Control -> bad(k)
                        [] OTHER -> k

\* A byte outside of strings and scalars.
structureByte(j, c) ==
    IF c \in White THEN j
    ELSE IF j.stack = <<>>
    THEN IF c = "{" THEN [j EXCEPT !.fields = <<>>, !.stack = <<Frame("{", "k")>>] ELSE bad(j)
    ELSE LET s == top(j).state IN
         CASE s \in {"k", "K"} -> CASE c = "}" /\ s = "k" -> close(j, c)
                                    [] c = Quote -> beginString(j, TRUE)
                                    [] OTHER -> bad(j)
           [] s = ":" -> IF c = ":" THEN setTop(j, "state", "v") ELSE bad(j)
           [] s = "," -> CASE c \in {"}", "]"} -> close(j, c)
                           [] c = "," -> setTop(j, "state", IF top(j).kind = "{" THEN "K" ELSE "v")
                           [] OTHER -> bad(j)
           [] s \in {"v", "a"} -> CASE c = "]" /\ s = "a" -> close(j, c)
                                    [] c \in {"{", "["} -> openContainer(j, c)
                                    [] c = Quote -> beginString(j, FALSE)
                                    [] c \in Digit \cup {"-"} \cup DOMAIN Literal -> beginScalar(j, c)
                                    [] OTHER -> bad(j)

byte(j, c) ==
    CASE j.bad -> j
      [] ~j.bad /\ j.mode = Quote -> stringByte(j, c)
      [] ~j.bad /\ j.mode = "s" ->
             IF c \in White \cup {",", "}", "]"}
             THEN LET k == scalar(j) IN IF k.bad THEN k ELSE structureByte(k, c)
             ELSE append(scalarByte(j, c), c)
      [] OTHER -> structureByte(j, c)

feed(j, data) == FoldLeft(byte, j, data)

complete(j) == ~j.bad /\ j.stack = <<>> /\ j.mode = ""

failureReason(j) ==
    CASE j.failure # "" -> j.failure
      [] j.failure = "" /\ j.bad -> "malformed"
      [] OTHER -> "incomplete"

-----------------------------------------------------------------------------
(* One parser and the bytes it is given *)

VARIABLES
    start,    \* the member of Starts this input begins with
    input,    \* history: all bytes so far
    parser,   \* the jsonFields value
    ignored   \* bytes given after the parser gave up

vars == <<start, input, parser, ignored>>

Init ==
    /\ start \in Starts
    /\ input = start.prefix
    /\ parser = feed(NewParser, start.prefix)
    /\ ignored = 0

\* Bound: one more byte, a closing brace, after the parser gave up.
Byte(c) ==
    /\ Len(input) < Len(start.prefix) + start.more
    /\ parser.bad => ignored = 0 /\ c = "}"
    /\ input' = Append(input, c)
    /\ parser' = byte(parser, c)
    /\ ignored' = IF parser.bad THEN 1 ELSE 0
    /\ UNCHANGED start

Next == \E c \in start.bytes : Byte(c)

Spec == Init /\ [][Next]_vars
=============================================================================
