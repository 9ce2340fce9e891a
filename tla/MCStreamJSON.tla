---------------------------- MODULE MCStreamJSON ----------------------------
(***************************************************************************)
(* The recognizer of StreamJSON beside a reference: a recursive descent    *)
(* over the whole input that knows nothing of frames and byte states.      *)
(***************************************************************************)
EXTENDS StreamJSON

-----------------------------------------------------------------------------
(* The grammar of scalars *)

IsDigits(s) == s # <<>> /\ ToSet(s) \subseteq Digit
Unsigned(s, signs) == IF s # <<>> /\ s[1] \in signs THEN Tail(s) ELSE s
IsNumber(s) ==
    LET u == Unsigned(s, {"-"})
    IN  \E i \in 0..Len(u) : \E k \in i..Len(u) :
           LET int == SubSeq(u, 1, i)
               frac == SubSeq(u, i + 1, k)
               exp == SubSeq(u, k + 1, Len(u))
           IN  /\ IsDigits(int) /\ (int[1] = "0" => i = 1)
               /\ frac # <<>> => frac[1] = "." /\ IsDigits(Tail(frac))
               /\ exp # <<>> => exp[1] = "e" /\ IsDigits(Unsigned(Tail(exp), {"+", "-"}))

Literals == {<<"t", "r", "u", "e">>, <<"f", "a", "l", "s", "e">>, <<"n", "u", "l", "l">>}
IsScalar(s) == s \in Literals \/ IsNumber(s)

\* A beginning of a scalar; one more digit completes any number.
IsScalarPrefix(s) == (\E l \in Literals : IsPrefix(s, l)) \/ IsNumber(s) \/ IsNumber(Append(s, "1"))

-----------------------------------------------------------------------------
(* Recursive descent.  A result is a status, a position and what was found:
   "ok" with the position after the construct, "incomplete" if the input ends
   inside it, or the reason why nothing can follow. *)

Res(st, pos, fields, skip) == [st |-> st, pos |-> pos, fields |-> fields, skip |-> skip]

RECURSIVE Blank(_, _)
Blank(w, p) == IF p <= Len(w) /\ w[p] \in White THEN Blank(w, p + 1) ELSE p

\* The position after the string whose body begins at p; 0 if it is malformed,
\* Len(w) + 2 if it is not finished.
RECURSIVE StringEnd(_, _)
StringEnd(w, p) ==
    LET open == Len(w) + 2 IN
    CASE p > Len(w) -> open
      [] p <= Len(w) /\ w[p] = Quote -> p + 1
      [] p <= Len(w) /\ w[p] = "LF" -> 0
      [] p <= Len(w) /\ w[p] = Backslash ->
             CASE p = Len(w) -> open
               [] p < Len(w) /\ w[p + 1] = "u" ->
                      LET hex == SubSeq(w, p + 2, IF p + 5 > Len(w) THEN Len(w) ELSE p + 5)
                      IN  IF ~(ToSet(hex) \subseteq Hex) THEN 0
                          ELSE IF Len(hex) < 4 THEN open ELSE StringEnd(w, p + 6)
               [] p < Len(w) /\ w[p + 1] \in Escapable -> StringEnd(w, p + 2)
               [] OTHER -> 0
      [] OTHER -> StringEnd(w, p + 1)

ScalarEnd(w, p) ==
    LET ends == {e \in p..Len(w) : w[e] \in White \cup {",", "}", "]"}}
    IN  IF ends = {} THEN Len(w) + 1 ELSE CHOOSE e \in ends : \A x \in ends : e <= x

\* `names` leads to the value at p, Nowhere if no selected field can be there.
Nowhere == <<<<"[">>>>

RECURSIVE Value(_, _, _, _, _), Members(_, _, _, _, _, _, _), Elements(_, _, _, _, _, _)

Value(w, p, names, depth, fields) ==
    LET store(e) == IF names \in Wanted THEN (names :> SubSeq(w, p, e - 1)) @@ fields ELSE fields
        long(e) == names \in Wanted /\ e - p > ValueLimit
        mark == IF names \in Wanted THEN (names :> <<w[p]>>) @@ fields ELSE fields
        s == StringEnd(w, p + 1)
        e == ScalarEnd(w, p)
    IN  CASE w[p] \in {"{", "["} /\ depth = MaxDepth -> Res("depth_limit", p, mark, FALSE)
          [] w[p] = "{" /\ depth < MaxDepth -> Members(w, p + 1, names, depth + 1, TRUE, mark, FALSE)
          [] w[p] = "[" /\ depth < MaxDepth -> Elements(w, p + 1, depth + 1, TRUE, mark, FALSE)
          [] w[p] = Quote ->
                 CASE s = 0 -> Res("malformed", p, fields, FALSE)
                   [] s = Len(w) + 2 -> Res("incomplete", p, fields, FALSE)
                   [] OTHER -> IF long(s) THEN Res("selected_value_limit", p, fields, FALSE)
                               ELSE Res("ok", s, store(s), FALSE)
          [] OTHER ->
                 CASE e > Len(w) -> Res(IF IsScalarPrefix(SubSeq(w, p, Len(w)))
                                        THEN "incomplete" ELSE "malformed", p, fields, FALSE)
                   [] e <= Len(w) /\ ~IsScalarPrefix(SubSeq(w, p, e - 1)) ->
                          Res("malformed", p, fields, FALSE)
                   [] e <= Len(w) /\ IsScalarPrefix(SubSeq(w, p, e - 1)) ->
                          IF long(e) THEN Res("selected_value_limit", p, fields, FALSE)
                          ELSE IF IsScalar(SubSeq(w, p, e - 1)) THEN Res("ok", e, store(e), FALSE)
                          ELSE Res("malformed", p, fields, FALSE)

\* What follows a member or an element that ended at v.pos.
After(w, v, end, again(_)) ==
    LET q == Blank(w, v.pos)
    IN  CASE v.st # "ok" -> v
          [] v.st = "ok" /\ q > Len(w) -> [v EXCEPT !.st = "incomplete"]
          [] v.st = "ok" /\ q <= Len(w) ->
                 CASE w[q] = "," -> again(q + 1)
                   [] w[q] = end -> [v EXCEPT !.pos = q + 1]
                   [] OTHER -> [v EXCEPT !.st = "malformed"]

Members(w, p, names, depth, first, fields, skip) ==
    LET q == Blank(w, p)
        s == StringEnd(w, q + 1)
        long == s - q > KeyLimit
        key == IF long THEN <<>> ELSE unquote(SubSeq(w, q, s - 1))
        here == IF names = Nowhere \/ long \/ "." \in ToSet(key) THEN Nowhere ELSE Append(names, key)
        c == Blank(w, s)
        x == Blank(w, c + 1)
        v == Value(w, x, here, depth, fields)
        value == [v EXCEPT !.skip = @ \/ skip \/ long]
        none(st) == Res(st, q, fields, skip)
    IN  CASE q > Len(w) -> none("incomplete")
          [] q <= Len(w) /\ w[q] = "}" /\ first -> Res("ok", q + 1, fields, skip)
          [] q <= Len(w) /\ w[q] # Quote /\ ~(w[q] = "}" /\ first) -> none("malformed")
          [] q <= Len(w) /\ w[q] = Quote ->
                 CASE s = 0 -> none("malformed")
                   [] s = Len(w) + 2 -> none("incomplete")
                   [] s \in 1..Len(w) + 1 ->
                        CASE c > Len(w) -> [none("incomplete") EXCEPT !.skip = @ \/ long]
                          [] c <= Len(w) /\ w[c] # ":" -> [none("malformed") EXCEPT !.skip = @ \/ long]
                          [] c <= Len(w) /\ w[c] = ":" ->
                               IF x > Len(w) THEN [none("incomplete") EXCEPT !.skip = @ \/ long]
                               ELSE After(w, value, "}", LAMBDA n :
                                        Members(w, n, names, depth, FALSE, value.fields, value.skip))

Elements(w, p, depth, first, fields, skip) ==
    LET q == Blank(w, p)
        v == Value(w, q, Nowhere, depth, fields)
        value == [v EXCEPT !.skip = @ \/ skip]
    IN  CASE q > Len(w) -> Res("incomplete", q, fields, skip)
          [] q <= Len(w) /\ w[q] = "]" /\ first -> Res("ok", q + 1, fields, skip)
          [] OTHER -> After(w, value, "]", LAMBDA n :
                          Elements(w, n, depth, FALSE, value.fields, value.skip))

\* The stream: complete objects and then white space.
RECURSIVE Stream(_, _, _, _)
Stream(w, p, emitted, skip) ==
    LET q == Blank(w, p)
        o == Members(w, q + 1, <<>>, 1, TRUE, <<>>, FALSE)
        res(st, sk) == [verdict |-> st, emitted |-> emitted, skip |-> sk]
    IN  CASE q > Len(w) -> res("complete", skip)
          [] q <= Len(w) /\ w[q] # "{" -> res("malformed", skip)
          [] OTHER -> IF o.st = "ok" THEN Stream(w, o.pos, Append(emitted, o.fields), skip \/ o.skip)
                      ELSE res(o.st, skip \/ o.skip)

Reference == Stream(input, 1, <<>>, FALSE)

-----------------------------------------------------------------------------
(* Properties *)

\* For every input, cut anywhere: the recognizer is complete exactly after
\* whole JSON objects, incomplete exactly while one can still be finished, and
\* otherwise has given up for the reference's reason, the limits included
\* (complete, failureReason, the grammar in byte, scalar and scalarByte).
AgreesWithGrammar ==
    Reference.verdict = IF complete(parser) THEN "complete" ELSE failureReason(parser)

\* What has been emitted are the selected fields of each finished object, the
\* last of equal ones, found at their place only: not in arrays, not under a
\* name that contains a dot, not under a name that was too long to keep; and
\* such a name is noticed (path, wanted, scalar, close).
ExtractsSelected ==
    /\ Reference.emitted = parser.emitted
    /\ Reference.skip = parser.keySkipped

-----------------------------------------------------------------------------
(* Instances *)

B(x) == <<"{", Quote, x, Quote, ":">>
MCWanted == {<<<<"a">>>>, <<<<"a">>, <<"a">>>>, <<<<"a">>, <<"a">>, <<"a">>>>}
MCStarts ==
    {[prefix |-> <<>>, more |-> 7, bytes |-> {"{", "}", "[", ":", ",", Quote, "a"}],
     [prefix |-> B("a"), more |-> 6, bytes |-> {"{", "}", "[", "]", ",", "SP", Quote, "a", "1"}],
     [prefix |-> B("a") \o B("a"), more |-> 6, bytes |-> {"{", "}", "[", "]", ",", Quote, "a", "1"}],
     [prefix |-> B("a") \o <<"[">> \o B("a"), more |-> 5, bytes |-> {"{", "[", "}", "]", ",", "1"}],
     [prefix |-> B("a") \o B("a") \o B("a"), more |-> 6, bytes |-> {"{", "}", "[", "]", ",", Quote, "a", "1"}],
     [prefix |-> B("a") \o B("a") \o B("a") \o B("a"), more |-> 5, bytes |-> {"{", "}", "[", "]", ",", "1"}],
     [prefix |-> B("a"), more |-> 7, bytes |-> {"-", "0", "1", ".", "e", "}", "SP"}],
     [prefix |-> B("e"), more |-> 7, bytes |-> {"-", "+", "0", "1", ".", "e", "}"}],
     [prefix |-> B("e"), more |-> 7, bytes |-> {"t", "r", "u", "e", "n", "l", "f", "a", "s", "}", "LF"}],
     [prefix |-> <<"{", Quote, Backslash, "u", "0", "0">>, more |-> 7,
      bytes |-> {"6", "1", "2", "e", Quote, ":", "}"}],
     [prefix |-> <<"{", Quote, "a">>, more |-> 5, bytes |-> {Quote, Backslash, "/", "u", "n", "LF", ":"}],
     [prefix |-> B("a") \o <<Quote>>, more |-> 6, bytes |-> {Quote, Backslash, "u", "a", "LF", ",", "}"}],
     [prefix |-> B("e") \o <<"1", ",", Quote, "a">>, more |-> 6,
      bytes |-> {".", "a", Quote, ":", "1", "}"}]}
=============================================================================
