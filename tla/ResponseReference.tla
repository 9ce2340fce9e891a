------------------------- MODULE ResponseReference -------------------------
(***************************************************************************)
(* A reference for ResponseBody: what a whole body means, defined on the   *)
(* positions of its tokens instead of token by token.                      *)
(***************************************************************************)
EXTENDS ResponseBody

\* The elements of s at positions ps, in their order.
At(s, ps) == FlattenSeq([i \in DOMAIN s |-> IF i \in ps THEN <<s[i]>> ELSE <<>>])

-----------------------------------------------------------------------------
(* One object after the other *)

\* Position j of s, or its end, is inside a string.
InString(s, j) ==
    \E k \in 1..(j - 1) :
        s[k].kind = "string" /\ \A m \in (k + 1)..(j - 1) : s[m].kind \in Text

\* The tokens of s that mean something to JSON: line ends only where they cut a
\* string, a number or a literal, text only outside strings.
Content(s) ==
    At(s, {i \in DOMAIN s :
               /\ s[i].kind = "LF" => InString(s, i) \/ (i > 1 /\ s[i - 1].kind = "scalar")
               /\ s[i].kind \in Text => ~InString(s, i)})

\* Position i continues a sequence of objects.
Follows(d, i) ==
    \/ d[i].kind \in {"object"} \cup Opens /\ (i = 1 \/ d[i - 1].kind \in {"object", "rest"})
    \/ d[i].kind = "rest" /\ i > 1 /\ d[i - 1].kind \in Opens

\* How many tokens of d are a sequence of objects, possibly cut.
GoodLen(d) ==
    CHOOSE n \in 0..Len(d) :
        (\A i \in 1..n : Follows(d, i)) /\ (n < Len(d) => ~Follows(d, n + 1))

\* The object that ends at position i, if any.
EndedAt(d, i) ==
    IF d[i].kind = "object" THEN <<d[i].object>>
    ELSE IF d[i].kind = "rest" THEN <<d[i - 1].object>> ELSE <<>>

\* The objects that are whole before d stops being a sequence of objects.
Whole(d) == FlattenSeq([i \in 1..GoodLen(d) |-> EndedAt(d, i)])

IsGood(d) == GoodLen(d) = Len(d)

\* d stops inside an object.
IsCut(d) == d # <<>> /\ d[Len(d)].kind \in Opens

\* A field name beyond the limit ends before d stops being a sequence of objects.
LongIn(d) == \E i \in 1..GoodLen(d) : d[i].longName

\* Why d is not a sequence of objects.
WhyBad(d) ==
    LET n == GoodLen(d)
    IN  IF d[n + 1].kind \in Limits /\ n > 0 /\ d[n].kind \in Opens THEN d[n + 1].kind ELSE "malformed"

HasError(objects) == \E i \in DOMAIN objects : objects[i].error
HasEnd(objects) == \E i \in DOMAIN objects : objects[i].done = TRUE \/ objects[i].stop

\* The last value given for a field, Nil if none.
LastGiven(values) ==
    IF \E i \in DOMAIN values : values[i] # Nil
    THEN values[CHOOSE i \in DOMAIN values :
                    values[i] # Nil /\ \A j \in DOMAIN values : j > i => values[j] = Nil]
    ELSE Nil

Merged(objects) ==
    [done  |-> LastGiven([i \in DOMAIN objects |-> objects[i].done]),
     usage |-> [k \in UsageKeys |->
                   LastGiven([i \in DOMAIN objects |-> objects[i].usage[k]])]]

Verdict(objects) ==
    LET c == Completion(Merged(objects)) IN <<c.record, c.outcome, c.reason>>

-----------------------------------------------------------------------------
(* Server-sent events *)

\* CRLF and CR read as LF.
Unified(in) ==
    At([i \in DOMAIN in |-> IF in[i].kind = "CR" THEN Mark("LF") ELSE in[i]],
       {i \in DOMAIN in : ~(in[i].kind = "LF" /\ i > 1 /\ in[i - 1].kind = "CR")})

Begins(u, i) == i = 1 \/ u[i - 1].kind = "LF"

BlankAt(u, i) == u[i].kind = "LF" /\ Begins(u, i)

\* Position i is on a line that began with "data:".
OnDataLine(u, i) ==
    \E j \in 1..(i - 1) : /\ Begins(u, j) /\ u[j].kind = "data"
                          /\ \A k \in j..(i - 1) : u[k].kind # "LF"

\* What stands after "data:" on the lines of the event that position i ends,
\* their ends included.
DataLines(u, i) ==
    At(u, {j \in 1..(i - 1) : OnDataLine(u, j) /\ \A k \in j..(i - 1) : ~BlankAt(u, k)})

Data(u, i) == Content(DataLines(u, i))

\* The end of the body ends its last line.
Ended(u) == IF u # <<>> /\ Last(u).kind # "LF" THEN Append(u, Mark("LF")) ELSE u

IsDone(d) == Len(d) = 1 /\ d[1].kind = "DONE"

EventFailure(d) ==
    IF d = <<>> \/ IsDone(d) THEN Nil
    ELSE IF Len(Whole(d)) > 1 THEN "malformed"
    ELSE IF ~IsGood(d) THEN WhyBad(d)
    ELSE IF IsCut(d) THEN "incomplete"
    ELSE IF HasError(Whole(d)) THEN "upstream_error" ELSE Nil

\* Events end at blank lines and at the end of the body.
EventEnds(u) == {i \in DOMAIN u : BlankAt(u, i)} \cup {Len(u) + 1}

\* The objects of the events that a blank line has ended.
Past(u) == FlattenSeq([i \in DOMAIN u |-> IF BlankAt(u, i) THEN Whole(Data(u, i)) ELSE <<>>])

EventObjects(u) == Past(u) \o Whole(Data(u, Len(u) + 1))

ExpectedSSE(in) ==
    LET u == Ended(Unified(in))
        bad == {i \in EventEnds(u) : EventFailure(Data(u, i)) # Nil}
        over == \E i \in EventEnds(u) : IsDone(Data(u, i)) \/ HasEnd(Whole(Data(u, i)))
    IN  IF bad # {} THEN <<0, "failed", EventFailure(Data(u, Min(bad)))>>
        ELSE IF ~over THEN <<0, "skipped", "incomplete">>
        ELSE Verdict(EventObjects(u))

-----------------------------------------------------------------------------
(* Any other body *)

ExpectedPlain(in) ==
    LET d == Content(in)
    IN  IF HasError(Whole(d)) THEN <<0, "failed", "upstream_error">>
        ELSE IF ~IsGood(d) THEN <<0, "failed", WhyBad(d)>>
        ELSE IF IsCut(d) THEN <<0, "failed", "incomplete">>
        ELSE IF d = <<>> THEN <<0, "skipped", "incomplete">>
        ELSE Verdict(Whole(d))

-----------------------------------------------------------------------------
(* Properties *)

Expected(in) == IF sse THEN ExpectedSSE(in) ELSE ExpectedPlain(in)

\* A field name beyond the limit ends in what in holds of an object.
HasLongName(in) ==
    IF sse THEN LET u == Unified(in) IN \E i \in EventEnds(u) : LongIn(Data(u, i))
    ELSE LongIn(Content(in))

CleanEOF ==
    ended /\ results \notin {<<<<"failed", "read_error">>>>, <<<<"skipped", "body_closed">>>>}

\* Token by token, through split reads, CR/LF variants and early failures, the
\* observer reaches at a clean EOF the verdict that the whole body deserves.
MatchesReference ==
    CleanEOF => <<recorded, results[1][1], results[1][2]>> = Expected(input)

\* A field name beyond the limit is noticed as soon as the read that holds its
\* end returns, also when its event ended in the same read and its parser is
\* gone; one response is counted once however many names, events and reads it
\* has; and a response without one is never counted.
SkipNoticedOnce == notices = IF HasLongName(input) THEN 1 ELSE 0
=============================================================================
