---------------------------- MODULE ResponseBody ----------------------------
(***************************************************************************)
(* internal/collector/responsebody.go with the callbacks modifyResponse    *)
(* (proxy.go) gives it: the observer of one upstream response body.  It    *)
(* sees the bytes the reverse proxy reads, recognises JSON objects (one    *)
(* per line, or one per server-sent event), and once the body ends records *)
(* the request's metrics and exactly one extraction result.                *)
(*                                                                         *)
(* Bytes are abstracted to tokens: line ends, the "data:" prefix, any      *)
(* other start of a line, the [DONE] marker, whole objects, the two halves *)
(* of an object, something that is not JSON, and something beyond one of   *)
(* the parser's limits.  jsonFields is abstracted to whether it is between *)
(* objects, inside one (and where in it), or has given up, and why.        *)
(***************************************************************************)
EXTENDS Naturals, SequencesExt

CONSTANTS
    Nil,
    UsageKeys,      \* the fields whose values are validated at the end
    SSETokens,      \* tokens an event stream may consist of
    PlainTokens,    \* tokens any other body may consist of
    MaxSSETokens,   \* bound: tokens in an event stream
    MaxPlainTokens  \* bound: tokens in any other body

\* What a field's value can be: not given, null, and one that is a count or not.
Values == {Nil, "null", "valid", "invalid"}

\* What of a JSON object matters: an error member, the value of done (FALSE for
\* every value but true), whether its type is message_stop, and its counts.  In
\* a native body a done or a model of the wrong type is an invalid value too.
Objects ==
    [error : BOOLEAN, done : {Nil, FALSE, TRUE}, stop : BOOLEAN, usage : [UsageKeys -> Values]]

\* An object's first half is cut where only a comma or a brace may follow,
\* inside a string, or inside a number or a literal.
Opens == {"open", "string", "scalar"}

\* An object in one piece, its first half, its second, and everything else;
\* longName tells whether a field name beyond the limit ends in the piece.
Obj(o, longName) == [kind |-> "object", object |-> o, longName |-> longName]
Open(k, o, longName) == [kind |-> k, object |-> o, longName |-> longName]
Rest(longName) == [kind |-> "rest", longName |-> longName]
Mark(k) == [kind |-> k]

Limits == {"depth_limit", "selected_value_limit"}

\* What a string may hold as well as a line.
Text == {"data", "other", "DONE"}

JSONTokens ==
    {Obj(o, n) : o \in Objects, n \in BOOLEAN}
        \cup {Open(k, o, n) : k \in Opens, o \in Objects, n \in BOOLEAN}
        \cup {Rest(n) : n \in BOOLEAN}
        \cup {Mark(k) : k \in {"junk", "LF"} \cup Limits}
StreamTokens == JSONTokens \cup {Mark(k) : k \in {"CR"} \cup Text}

\* Why a response can fail while it is read: responseBody.failure.
Reasons == {"malformed", "upstream_error", "incomplete"} \cup Limits

\* The outcome and reason labels of the extraction counter.
Outcomes == {"success", "failed", "skipped"}
ResultReasons ==
    Reasons \cup {"none", "usage_absent", "invalid_fields", "read_error", "body_closed"}

ASSUME ResponseBodyAssumption ==
    /\ SSETokens \subseteq StreamTokens
    /\ PlainTokens \subseteq JSONTokens
    /\ MaxSSETokens \in Nat
    /\ MaxPlainTokens \in Nat
    /\ Nil \notin Reasons \cup Objects \cup {"done", "junk"}

VARIABLES
    compatibility,  \* a /v1/ path; otherwise the native API
    sse,            \* a /v1/ path answered with text/event-stream
    input,        \* history: tokens read so far
    parser,       \* b.parser: "between" objects, where in one, or why it gave up
    keySkipped,   \* b.parser.keySkipped
    opened,       \* the object whose first half has been read
    line,         \* b.prefix, b.lineData, b.lineBytes: "fresh", "data" or "other"
    pendingCR,
    marker,       \* b.marker: Nil, "done" for [DONE], or "junk"
    eventFields,  \* the object of the event being read, or Nil
    sample,       \* merged fields
    terminal, seen, failed, failure,
    ended, closed,
    recorded,     \* times the request's metrics were recorded
    results,      \* extraction results counted: <<outcome, reason>>
    notices       \* field_name_limit skips counted

mode == <<compatibility, sse>>
vars == <<mode, input, parser, keySkipped, opened, line, pendingCR, marker, eventFields, sample,
          terminal, seen, failed, failure, ended, closed, recorded, results, notices>>

\* The observer's own state as one value, so that the effect of a byte, a line
\* end or a dispatch is a function from state to state.
BodyState ==
    [parser |-> parser, keySkipped |-> keySkipped, opened |-> opened, line |-> line,
     pendingCR |-> pendingCR, marker |-> marker, eventFields |-> eventFields,
     sample |-> sample, terminal |-> terminal, seen |-> seen, failed |-> failed,
     failure |-> failure, notices |-> notices]

Tokens == IF sse THEN SSETokens ELSE PlainTokens
MaxTokens == IF sse THEN MaxSSETokens ELSE MaxPlainTokens

Samples == [done : {Nil, FALSE, TRUE}, usage : [UsageKeys -> Values]]
NoFields == [done |-> Nil, usage |-> [k \in UsageKeys |-> Nil]]

TypeOK ==
    /\ compatibility \in BOOLEAN
    /\ sse \in BOOLEAN
    /\ input \in Seq(StreamTokens)
    /\ parser \in {"between", "malformed"} \cup Opens \cup Limits
    /\ keySkipped \in BOOLEAN
    /\ opened \in Objects \cup {Nil}
    /\ line \in {"fresh", "data", "other"}
    /\ pendingCR \in BOOLEAN
    /\ marker \in {Nil, "done", "junk"}
    /\ eventFields \in Objects \cup {Nil}
    /\ sample \in Samples
    /\ \A x \in {terminal, seen, failed, ended, closed} : x \in BOOLEAN
    /\ failure \in Reasons \cup {Nil}
    /\ recorded \in Nat
    /\ results \in Seq(Outcomes \X ResultReasons)
    /\ notices \in Nat

Init ==
    /\ compatibility \in BOOLEAN
    /\ sse \in (IF compatibility THEN BOOLEAN ELSE {FALSE})
    /\ input = <<>>
    /\ parser = "between" /\ keySkipped = FALSE /\ opened = Nil
    /\ line = "fresh" /\ pendingCR = FALSE /\ marker = Nil /\ eventFields = Nil
    /\ sample = NoFields
    /\ terminal = FALSE /\ seen = FALSE /\ failed = FALSE /\ failure = Nil
    /\ ended = FALSE /\ closed = FALSE
    /\ recorded = 0 /\ results = <<>> /\ notices = 0

-----------------------------------------------------------------------------
(* The observer, as functions on BodyState *)

fail(b, reason) ==
    [b EXCEPT !.failed = TRUE, !.failure = IF @ = Nil THEN reason ELSE @]

\* Fields of later objects replace those of earlier ones; an error object
\* fails the response; done:true and message_stop are terminal.
merge(b, f) ==
    IF f.error THEN fail(b, "upstream_error")
    ELSE [b EXCEPT !.sample = [done  |-> IF f.done = Nil THEN @.done ELSE f.done,
                               usage |-> [k \in UsageKeys |->
                                   IF f.usage[k] = Nil THEN @.usage[k] ELSE f.usage[k]]],
                   !.terminal = @ \/ f.done = TRUE \/ f.stop]

\* The parser's emit callback: merge at once, or keep the event's only object.
emitted(b, f) ==
    LET s == [b EXCEPT !.seen = TRUE]
    IN  IF sse
        THEN [(IF s.eventFields # Nil THEN fail(s, "malformed") ELSE s)
                EXCEPT !.eventFields = f]
        ELSE merge(s, f)

\* jsonFields.byte on the bytes of one token.  A name beyond the limit is
\* remembered when it ends; a control character ends no string and no number.
parse(b, t) ==
    LET named == [b EXCEPT !.keySkipped = @ \/ t.longName]
        finish(o) == emitted([named EXCEPT !.parser = "between", !.opened = Nil], o)
    IN  CASE b.parser \notin {"between"} \cup Opens -> b
          [] t.kind = "object" /\ b.parser = "between" -> finish(t.object)
          [] t.kind \in Opens /\ b.parser = "between" ->
                 [named EXCEPT !.parser = t.kind, !.opened = t.object]
          [] t.kind = "rest" /\ b.parser \in Opens -> finish(b.opened)
          [] t.kind = "LF" /\ b.parser \in {"between", "open"} -> b
          [] t.kind \in Text /\ b.parser = "string" -> b
          [] t.kind \in Limits /\ b.parser \in Opens -> [b EXCEPT !.parser = t.kind]
          [] OTHER -> [b EXCEPT !.parser = "malformed"]

failureReason(b) == IF b.parser \in Opens THEN "incomplete" ELSE b.parser

\* Mutant of noteFieldSkip: counted at every look.
noteEveryFieldSkip(b) == IF b.keySkipped THEN [b EXCEPT !.notices = @ + 1] ELSE b

\* Counted at most once per response.
noteFieldSkip(b) == IF b.keySkipped /\ b.notices = 0 THEN [b EXCEPT !.notices = 1] ELSE b

\* dispatch after its first line: the parser that replaces the event's one
\* remembers nothing of it.
finishEvent(b) ==
    LET m == CASE b.marker = "done" -> [b EXCEPT !.terminal = TRUE]
               [] b.marker = "junk" -> fail(b, "malformed")
               [] OTHER -> b
        d == CASE m.parser # "between" -> fail(m, failureReason(m))
               [] m.parser = "between" /\ m.eventFields # Nil -> merge(m, m.eventFields)
               [] OTHER -> m
    IN  [d EXCEPT !.eventFields = Nil, !.marker = Nil, !.parser = "between",
                  !.opened = Nil, !.keySkipped = FALSE]

\* The end of an event: its parser's skips are noticed before it is replaced.
dispatch(b) == finishEvent(noteFieldSkip(b))

\* sseByte('\n'): a blank line ends the event; a line end is data to the parser.
newline(b) ==
    [(CASE b.line = "fresh" -> dispatch(b)
        [] b.line = "data" /\ b.marker = Nil -> parse(b, Mark("LF"))
        [] OTHER -> b) EXCEPT !.line = "fresh"]

\* sseByte on the bytes of a token other than a line end.
sseToken(b, t) ==
    CASE b.line = "fresh" -> [b EXCEPT !.line = IF t.kind = "data" THEN "data" ELSE "other"]
      [] b.line = "other" -> b
      [] b.line = "data" /\ b.marker # Nil -> [b EXCEPT !.marker = "junk"]
      [] /\ b.line = "data" /\ b.marker = Nil
         /\ t.kind = "DONE" /\ b.parser = "between" /\ b.eventFields = Nil ->
             [b EXCEPT !.marker = "done"]
      [] OTHER -> parse(b, t)

\* Mutant of readToken: CRLF ends two lines.
readTokenCRLFTwice(b, t) ==
    IF ~sse THEN parse(b, t)
    ELSE LET s == IF b.pendingCR THEN newline([b EXCEPT !.pendingCR = FALSE]) ELSE b
         IN  CASE t.kind = "CR" -> [s EXCEPT !.pendingCR = TRUE]
               [] t.kind = "LF" -> newline(s)
               [] OTHER -> sseToken(s, t)

\* Read's loop body: CR, LF and CRLF all end a line.
readToken(b, t) ==
    IF ~sse THEN parse(b, t)
    ELSE LET s == IF b.pendingCR /\ t.kind # "LF"
                  THEN newline([b EXCEPT !.pendingCR = FALSE])
                  ELSE [b EXCEPT !.pendingCR = FALSE]
         IN  CASE t.kind = "CR" -> [s EXCEPT !.pendingCR = TRUE]
               [] t.kind = "LF" -> newline(s)
               [] OTHER -> sseToken(s, t)

\* At EOF an unfinished line and an unfinished event are ended.
flushEvent(b) ==
    IF ~sse THEN b
    ELSE dispatch(IF b.line # "fresh" \/ b.pendingCR THEN newline(b) ELSE b)

-----------------------------------------------------------------------------
(* Operations of the body *)

Become(b) ==
    /\ parser' = b.parser /\ keySkipped' = b.keySkipped /\ opened' = b.opened
    /\ line' = b.line /\ pendingCR' = b.pendingCR /\ marker' = b.marker
    /\ eventFields' = b.eventFields /\ sample' = b.sample /\ terminal' = b.terminal
    /\ seen' = b.seen /\ failed' = b.failed /\ failure' = b.failure /\ notices' = b.notices

\* Mutants of report, without the sync.Once: every report is counted, or the
\* last one stands.
reportAlways(outcome, reason) == results' = Append(results, <<outcome, reason>>)

reportLast(outcome, reason) == results' = <<<<outcome, reason>>>>

\* resultOnce: only the first report is counted.
report(outcome, reason) ==
    results' = IF results = <<>> THEN <<<<outcome, reason>>>> ELSE results

\* Mutant of Completion: the request is recorded before its counts are validated.
CompletionUnvalidated(s) ==
    LET given == {s.usage[k] : k \in UsageKeys}
    IN  CASE "invalid" \in given -> [record |-> 1, outcome |-> "failed", reason |-> "invalid_fields"]
          [] "invalid" \notin given /\ ~compatibility /\ s.done # TRUE ->
                 [record |-> 0, outcome |-> "skipped", reason |-> "incomplete"]
          [] OTHER -> [record |-> 1, outcome |-> "success", reason |-> "none"]

\* The emit callback modifyResponse installs, native and compatible: what it
\* records and what it reports.
Completion(s) ==
    LET given == {s.usage[k] : k \in UsageKeys}
    IN  CASE "invalid" \in given -> [record |-> 0, outcome |-> "failed", reason |-> "invalid_fields"]
          [] "invalid" \notin given /\ ~compatibility /\ s.done # TRUE ->
                 [record |-> 0, outcome |-> "skipped", reason |-> "incomplete"]
          [] given \subseteq {Nil, "null"} /\ compatibility ->
                 [record |-> 1, outcome |-> "skipped", reason |-> "usage_absent"]
          [] OTHER -> [record |-> 1, outcome |-> "success", reason |-> "none"]

\* src.Read returns bytes and no error: any number of tokens, after which the
\* parser's skips are noticed.
Read(data) ==
    /\ ~ended /\ ~closed
    /\ input' = input \o data
    /\ Become(noteFieldSkip(FoldLeft(readToken, BodyState, data)))
    /\ UNCHANGED <<mode, ended, closed, recorded, results>>

\* src.Read returns io.EOF.
ReadEOF ==
    /\ ~ended /\ ~closed
    /\ ended' = TRUE
    /\ LET b == flushEvent(noteFieldSkip(BodyState))
           c == Completion(b.sample)
       IN  /\ Become(b)
           /\ IF ~b.failed /\ b.parser = "between" /\ (b.seen \/ b.terminal)
                 /\ (~sse \/ b.terminal)
              THEN recorded' = recorded + c.record /\ report(c.outcome, c.reason)
              ELSE /\ CASE b.failed -> report("failed", b.failure)
                        [] ~b.failed /\ b.parser # "between" -> report("failed", failureReason(b))
                        [] OTHER -> report("skipped", "incomplete")
                   /\ UNCHANGED recorded
    /\ UNCHANGED <<mode, input, closed>>

\* src.Read returns another error: the connection broke, or the body has been
\* closed by the client's departure.
ReadError ==
    /\ ~ended
    /\ ended' = TRUE
    /\ Become(noteFieldSkip(BodyState))
    /\ report("failed", "read_error")
    /\ UNCHANGED <<mode, input, closed, recorded>>

\* A read after the end is passed on without being observed.
ReadAgain == ended /\ ~closed /\ UNCHANGED vars

\* Close may come before the end and may be repeated.
Close ==
    /\ closed' = TRUE
    /\ report("skipped", "body_closed")
    /\ UNCHANGED <<mode, input, parser, keySkipped, opened, line, pendingCR, marker, eventFields,
                   sample, terminal, seen, failed, failure, ended, recorded, notices>>

Next ==
    \/ \E n \in 1..(MaxTokens - Len(input)) : \E data \in [1..n -> Tokens] : Read(data)
    \/ ReadEOF \/ ReadError \/ ReadAgain \/ Close

Spec == Init /\ [][Next]_vars

-----------------------------------------------------------------------------
(* Properties *)

\* Whatever order reads, errors and closes come in, a response is counted once:
\* never twice, and not missed once it has ended or been closed.  Metrics are
\* recorded exactly when the counted result says so: a closed, broken or failed
\* body never counts as an inference.
ReportedOnce ==
    /\ Len(results) <= 1
    /\ ended \/ closed => Len(results) = 1
    /\ recorded =
           IF results \in {<<<<"success", "none">>>>, <<<<"skipped", "usage_absent">>>>} THEN 1 ELSE 0

\* Once a result is counted it stands.
ResultStands == [][results # <<>> => results' = results /\ recorded' = recorded]_vars
=============================================================================
