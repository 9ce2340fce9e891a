------------------------- MODULE ResponseBodyProofs -------------------------
(***************************************************************************)
(* ResponseBody.tla for bodies of any length and any tokens: whatever      *)
(* order bytes, the end, errors and closes come in, a response is counted  *)
(* once, by its first failure if it has one, and at a clean end by what    *)
(* ResponseReference.tla says the whole body deserves.                     *)
(***************************************************************************)
EXTENDS ResponseReference, TLAPS, WellFoundedInduction, SequenceTheorems

-----------------------------------------------------------------------------
(* The observer's state and what every operation on it keeps *)

BodyRecord ==
    [parser : {"between", "malformed"} \cup Opens \cup Limits, keySkipped : BOOLEAN,
     opened : Objects \cup {Nil}, line : {"fresh", "data", "other"}, pendingCR : BOOLEAN,
     marker : {Nil, "done", "junk"}, eventFields : Objects \cup {Nil},
     sample : Samples,
     terminal : BOOLEAN, seen : BOOLEAN, failed : BOOLEAN, failure : Reasons \cup {Nil},
     notices : {0, 1}]

\* A half-read object is known, and a failure has its reason.
Body ==
    {b \in BodyRecord : /\ b.parser \in Opens => b.opened \in Objects
                        /\ b.failed => b.failure \in Reasons}

\* c may follow b: the first failure stays, what was seen stays seen, and the
\* skip notice is not taken back.
Later(b, c) ==
    /\ b.failed => c.failed /\ c.failure = b.failure
    /\ b.seen => c.seen
    /\ b.terminal => c.terminal
    /\ b.notices = 1 => c.notices = 1

\* What stays through each of two steps stays through both.
LEMMA LaterTransitive ==
  ASSUME NEW a, NEW b, NEW c, Later(a, b), Later(b, c)
  PROVE  Later(a, c)
  BY DEF Later

\* The assignments that are made between the calls.
LEMMA AssignBody ==
  ASSUME NEW b \in Body
  PROVE  /\ [b EXCEPT !.terminal = TRUE] \in Body /\ Later(b, [b EXCEPT !.terminal = TRUE])
         /\ [b EXCEPT !.pendingCR = TRUE] \in Body /\ Later(b, [b EXCEPT !.pendingCR = TRUE])
         /\ LET r == [b EXCEPT !.eventFields = Nil, !.marker = Nil, !.parser = "between",
                               !.opened = Nil, !.keySkipped = FALSE]
            IN  r \in Body /\ Later(b, r)
<1>1. [b EXCEPT !.terminal = TRUE] \in Body /\ Later(b, [b EXCEPT !.terminal = TRUE])
  BY DEF Body, BodyRecord, Later
<1>2. [b EXCEPT !.pendingCR = TRUE] \in Body /\ Later(b, [b EXCEPT !.pendingCR = TRUE])
  BY DEF Body, BodyRecord, Later
<1> DEFINE r == [b EXCEPT !.eventFields = Nil, !.marker = Nil, !.parser = "between",
                          !.opened = Nil, !.keySkipped = FALSE]
<1>3. r \in Body /\ Later(b, r)
  <2>1. "between" \notin Opens
    BY DEF Opens
  <2> QED
    BY <2>1 DEF Body, BodyRecord, Later
<1> QED
  BY <1>1, <1>2, <1>3

\* fail keeps the state well-formed and the first failure.
LEMMA FailBody ==
  ASSUME NEW b \in Body, NEW reason \in Reasons
  PROVE  fail(b, reason) \in Body /\ Later(b, fail(b, reason))
  BY ResponseBodyAssumption DEF fail, Body, BodyRecord, Later

\* So does merge,
LEMMA MergeBody ==
  ASSUME NEW b \in Body, NEW f \in Objects
  PROVE  merge(b, f) \in Body /\ Later(b, merge(b, f))
<1>1. CASE f.error
  BY <1>1, FailBody DEF merge, Reasons
<1>2. CASE ~f.error
  <2> DEFINE u == [k \in UsageKeys |->
                     IF f.usage[k] = Nil THEN b.sample.usage[k] ELSE f.usage[k]]
             s == [done |-> IF f.done = Nil THEN b.sample.done ELSE f.done, usage |-> u]
             t == b.terminal \/ f.done = TRUE \/ f.stop
  <2>1. merge(b, f) = [b EXCEPT !.sample = s, !.terminal = t]
    BY <1>2 DEF merge, Body, BodyRecord
  <2>2. s \in Samples
    <3>1. u \in [UsageKeys -> Values]
      <4>1. f.usage \in [UsageKeys -> Values] /\ b.sample.usage \in [UsageKeys -> Values]
        BY DEF Body, BodyRecord, Objects, Samples
      <4> QED
        BY <4>1
    <3> HIDE DEF u
    <3> QED
      BY <3>1 DEF Body, BodyRecord, Objects, Samples
  <2>3. t \in BOOLEAN /\ (b.terminal => t)
    OBVIOUS
  <2> HIDE DEF s, t
  <2> QED
    BY <2>1, <2>2, <2>3 DEF Body, BodyRecord, Later
<1> QED
  BY <1>1, <1>2

\* so does the emit callback,
LEMMA EmittedBody ==
  ASSUME NEW b \in Body, NEW f \in Objects
  PROVE  emitted(b, f) \in Body /\ Later(b, emitted(b, f))
<1> DEFINE s == [b EXCEPT !.seen = TRUE]
           e == IF s.eventFields # Nil THEN fail(s, "malformed") ELSE s
<1>1. s \in Body /\ Later(b, s)
  BY DEF Body, BodyRecord, Later
<1>2. merge(s, f) \in Body /\ Later(s, merge(s, f))
  BY <1>1, MergeBody
<1>3. e \in Body /\ Later(s, e)
  <2>1. fail(s, "malformed") \in Body /\ Later(s, fail(s, "malformed"))
    BY <1>1, FailBody DEF Reasons
  <2>2. Later(s, s)
    BY DEF Later
  <2> QED
    BY <1>1, <2>1, <2>2
<1>4. emitted(b, f) = IF sse THEN [e EXCEPT !.eventFields = f] ELSE merge(s, f)
  BY DEF emitted
<1> HIDE DEF s, e
<1>5. [e EXCEPT !.eventFields = f] \in Body /\ Later(e, [e EXCEPT !.eventFields = f])
  BY <1>3 DEF Body, BodyRecord, Later
<1>6. Later(b, merge(s, f)) /\ Later(b, e)
  BY <1>1, <1>2, <1>3, LaterTransitive
<1>7. Later(b, [e EXCEPT !.eventFields = f])
  BY <1>5, <1>6, LaterTransitive
<1> QED
  BY <1>2, <1>4, <1>5, <1>6, <1>7

\* Tokens that carry an object carry one of Objects, and pieces of an object
\* tell whether a long name ends in them.
LEMMA TokenShape ==
  ASSUME NEW t \in StreamTokens
  PROVE  /\ t.kind \in {"object"} \cup Opens => t.object \in Objects
         /\ t.kind \in {"object", "rest"} \cup Opens => t.longName \in BOOLEAN
<1>1. \/ \E o \in Objects, n \in BOOLEAN : t = Obj(o, n)
      \/ \E k \in Opens, o \in Objects, n \in BOOLEAN : t = Open(k, o, n)
      \/ \E n \in BOOLEAN : t = Rest(n)
      \/ \E k \in {"junk", "LF", "CR"} \cup Text \cup Limits : t = Mark(k)
  BY DEF StreamTokens, JSONTokens
<1> QED
  BY <1>1 DEF Obj, Open, Rest, Mark, Limits, Opens, Text

\* so does the parser,
LEMMA ParseBody ==
  ASSUME NEW b \in Body, NEW t \in StreamTokens
  PROVE  parse(b, t) \in Body /\ Later(b, parse(b, t))
<1> DEFINE named == [b EXCEPT !.keySkipped = @ \/ t.longName]
           n == [named EXCEPT !.parser = "between", !.opened = Nil]
           finish(o) == emitted(n, o)
<1>1. ASSUME NEW o \in Objects, t.longName \in BOOLEAN
      PROVE  finish(o) \in Body /\ Later(b, finish(o))
  <2>1. n \in Body /\ Later(b, n)
    <3> DEFINE k == b.keySkipped \/ t.longName
    <3>1. n = [b EXCEPT !.keySkipped = k, !.parser = "between", !.opened = Nil]
      BY DEF Body, BodyRecord
    <3>2. k \in BOOLEAN
      BY <1>1
    <3> HIDE DEF k, n
    <3> QED
      BY <3>1, <3>2 DEF Body, BodyRecord, Later, Opens
  <2> HIDE DEF n
  <2>2. emitted(n, o) \in Body /\ Later(n, emitted(n, o))
    BY <2>1, EmittedBody
  <2> QED
    BY <2>1, <2>2, LaterTransitive
<1> HIDE DEF finish
<1>2. \/ parse(b, t) = b
      \/ t.kind = "object" /\ parse(b, t) = finish(t.object)
      \/ t.kind \in Opens /\ parse(b, t) = [named EXCEPT !.parser = t.kind, !.opened = t.object]
      \/ t.kind = "rest" /\ b.parser \in Opens /\ parse(b, t) = finish(b.opened)
      \/ t.kind \in Limits /\ parse(b, t) = [b EXCEPT !.parser = t.kind]
      \/ parse(b, t) = [b EXCEPT !.parser = "malformed"]
  BY DEF parse, finish, n
<1>3. CASE parse(b, t) = b
  BY <1>3 DEF Later
<1>4. CASE t.kind = "object" /\ parse(b, t) = finish(t.object)
  BY <1>1, <1>4, TokenShape
<1>5. CASE t.kind \in Opens /\ parse(b, t) = [named EXCEPT !.parser = t.kind, !.opened = t.object]
  <2>1. t.object \in Objects /\ t.longName \in BOOLEAN
    BY <1>5, TokenShape
  <2> QED
    BY <1>5, <2>1 DEF Body, BodyRecord, Later
<1>6. CASE t.kind = "rest" /\ b.parser \in Opens /\ parse(b, t) = finish(b.opened)
  BY <1>1, <1>6, TokenShape DEF Body
<1>7. CASE t.kind \in Limits /\ parse(b, t) = [b EXCEPT !.parser = t.kind]
  BY <1>7 DEF Body, BodyRecord, Later, Limits, Opens
<1>8. CASE parse(b, t) = [b EXCEPT !.parser = "malformed"]
  BY <1>8 DEF Body, BodyRecord, Later, Opens
<1> QED
  BY <1>2, <1>3, <1>4, <1>5, <1>6, <1>7, <1>8

\* so does the skip notice,
LEMMA NoteBody ==
  ASSUME NEW b \in Body
  PROVE  noteFieldSkip(b) \in Body /\ Later(b, noteFieldSkip(b))
  BY DEF noteFieldSkip, Body, BodyRecord, Later

\* The end of an event leaves the parser between objects.
LEMMA DispatchBody ==
  ASSUME NEW b \in Body
  PROVE  dispatch(b) \in Body /\ Later(b, dispatch(b))
<1> DEFINE n == noteFieldSkip(b)
           m == CASE n.marker = "done" -> [n EXCEPT !.terminal = TRUE]
                  [] n.marker = "junk" -> fail(n, "malformed")
                  [] OTHER -> n
           d == CASE m.parser # "between" -> fail(m, failureReason(m))
                  [] m.parser = "between" /\ m.eventFields # Nil -> merge(m, m.eventFields)
                  [] OTHER -> m
           r == [d EXCEPT !.eventFields = Nil, !.marker = Nil, !.parser = "between",
                          !.opened = Nil, !.keySkipped = FALSE]
<1>1. dispatch(b) = r
  BY DEF dispatch, finishEvent
<1>2. n \in Body /\ Later(b, n)
  BY NoteBody
<1> HIDE DEF n
<1>3. m \in Body /\ Later(n, m)
  <2>1. fail(n, "malformed") \in Body /\ Later(n, fail(n, "malformed"))
    BY <1>2, FailBody DEF Reasons
  <2>2. [n EXCEPT !.terminal = TRUE] \in Body /\ Later(n, [n EXCEPT !.terminal = TRUE])
    BY <1>2, AssignBody
  <2>3. Later(n, n)
    BY DEF Later
  <2> QED
    BY <1>2, <2>1, <2>2, <2>3
<1> HIDE DEF m
<1>4. d \in Body /\ Later(m, d)
  <2>1. CASE m.parser # "between"
    <3>1. failureReason(m) \in Reasons
      BY <1>3, <2>1 DEF failureReason, Reasons, Body, BodyRecord
    <3> QED
      BY <1>3, <2>1, <3>1, FailBody
  <2>2. CASE m.parser = "between" /\ m.eventFields # Nil
    <3>1. m.eventFields \in Objects
      BY <1>3, <2>2 DEF Body, BodyRecord
    <3> QED
      BY <1>3, <2>2, <3>1, MergeBody
  <2>3. CASE m.parser = "between" /\ m.eventFields = Nil
    BY <1>3, <2>3 DEF Later
  <2> QED
    BY <2>1, <2>2, <2>3
<1> HIDE DEF d
<1>5. r \in Body /\ Later(d, r)
  BY <1>4, AssignBody
<1> HIDE DEF r
<1>6. Later(b, m)
  BY <1>2, <1>3, LaterTransitive
<1>7. Later(b, d)
  BY <1>4, <1>6, LaterTransitive
<1>8. Later(b, r)
  BY <1>5, <1>7, LaterTransitive
<1> QED
  BY <1>1, <1>5, <1>8

\* A line end keeps them too,
LEMMA NewlineBody ==
  ASSUME NEW b \in Body
  PROVE  newline(b) \in Body /\ Later(b, newline(b))
<1> DEFINE d == CASE b.line = "fresh" -> dispatch(b)
                  [] b.line = "data" /\ b.marker = Nil -> parse(b, Mark("LF"))
                  [] OTHER -> b
<1>1. d \in Body /\ Later(b, d)
  <2>1. Later(b, b)
    BY DEF Later
  <2>2. Mark("LF") \in StreamTokens
    BY DEF StreamTokens, JSONTokens
  <2>3. parse(b, Mark("LF")) \in Body /\ Later(b, parse(b, Mark("LF")))
    BY <2>2, ParseBody
  <2> QED
    BY <2>1, <2>3, DispatchBody
<1>2. newline(b) = [d EXCEPT !.line = "fresh"]
  BY DEF newline
<1> HIDE DEF d
<1>3. newline(b) \in Body /\ Later(d, newline(b))
  BY <1>1, <1>2 DEF Body, BodyRecord, Later
<1> QED
  BY <1>1, <1>3, LaterTransitive

\* so does any other token of an event stream,
LEMMA SSETokenBody ==
  ASSUME NEW b \in Body, NEW t \in StreamTokens
  PROVE  sseToken(b, t) \in Body /\ Later(b, sseToken(b, t))
<1>1. PICK l \in {"data", "other"} :
         \/ sseToken(b, t) = [b EXCEPT !.line = l]
         \/ sseToken(b, t) = b
         \/ sseToken(b, t) = [b EXCEPT !.marker = "junk"]
         \/ sseToken(b, t) = [b EXCEPT !.marker = "done"]
         \/ sseToken(b, t) = parse(b, t)
  BY DEF sseToken
<1>2. CASE sseToken(b, t) = parse(b, t)
  BY <1>2, ParseBody
<1>3. CASE sseToken(b, t) = [b EXCEPT !.line = l]
  BY <1>3 DEF Body, BodyRecord, Later
<1>4. CASE sseToken(b, t) = b
  BY <1>4 DEF Later
<1>5. CASE sseToken(b, t) = [b EXCEPT !.marker = "junk"] \/ sseToken(b, t) = [b EXCEPT !.marker = "done"]
  BY <1>5 DEF Body, BodyRecord, Later
<1> QED
  BY <1>1, <1>2, <1>3, <1>4, <1>5

\* so does every token that Read observes,
LEMMA ReadTokenBody ==
  ASSUME NEW b \in Body, NEW t \in StreamTokens
  PROVE  readToken(b, t) \in Body /\ Later(b, readToken(b, t))
<1> DEFINE c == [b EXCEPT !.pendingCR = FALSE]
           s == IF b.pendingCR /\ t.kind # "LF" THEN newline(c) ELSE c
<1>1. c \in Body /\ Later(b, c)
  BY DEF Body, BodyRecord, Later
<1>2. readToken(b, t) = IF ~sse THEN parse(b, t)
                        ELSE CASE t.kind = "CR" -> [s EXCEPT !.pendingCR = TRUE]
                               [] t.kind = "LF" -> newline(s)
                               [] OTHER -> sseToken(s, t)
  BY DEF readToken
<1> HIDE DEF c
<1>3. s \in Body /\ Later(b, s)
  <2>1. newline(c) \in Body /\ Later(c, newline(c))
    BY <1>1, NewlineBody
  <2>2. Later(b, newline(c))
    BY <1>1, <2>1, LaterTransitive
  <2> QED
    BY <1>1, <2>1, <2>2
<1> HIDE DEF s
<1>4. [s EXCEPT !.pendingCR = TRUE] \in Body /\ Later(s, [s EXCEPT !.pendingCR = TRUE])
  BY <1>3, AssignBody
<1>5. newline(s) \in Body /\ Later(s, newline(s))
  BY <1>3, NewlineBody
<1>6. sseToken(s, t) \in Body /\ Later(s, sseToken(s, t))
  BY <1>3, SSETokenBody
<1>7. Later(b, [s EXCEPT !.pendingCR = TRUE]) /\ Later(b, newline(s)) /\ Later(b, sseToken(s, t))
  BY <1>3, <1>4, <1>5, <1>6, LaterTransitive
<1>8. parse(b, t) \in Body /\ Later(b, parse(b, t))
  BY ParseBody
<1> QED
  BY <1>2, <1>4, <1>5, <1>6, <1>7, <1>8

\* and so does the end of the body.
LEMMA FlushBody ==
  ASSUME NEW b \in Body
  PROVE  flushEvent(b) \in Body /\ Later(b, flushEvent(b))
<1> DEFINE l == IF b.line # "fresh" \/ b.pendingCR THEN newline(b) ELSE b
<1>1. l \in Body /\ Later(b, l)
  <2>1. Later(b, b)
    BY DEF Later
  <2> QED
    BY <2>1, NewlineBody
<1>2. flushEvent(b) = IF ~sse THEN b ELSE dispatch(l)
  BY DEF flushEvent
<1> HIDE DEF l
<1>3. dispatch(l) \in Body /\ Later(l, dispatch(l))
  BY <1>1, DispatchBody
<1>4. Later(b, dispatch(l)) /\ Later(b, b)
  BY <1>1, <1>3, LaterTransitive DEF Later
<1> QED
  BY <1>2, <1>3, <1>4

-----------------------------------------------------------------------------
(* Read's loop over the tokens it is given.  FoldLeft is defined through a *)
(* function on the sets of positions; these lemmas show that there is one  *)
(* and that it takes the tokens in order.                                  *)


\* A non-empty set of naturals has a least element.
LEMMA LeastNumber ==
  ASSUME NEW T \in SUBSET Nat, T # {}
  PROVE  \E x \in T : \A y \in T : x <= y
<1>1. PICK x \in T : \A y \in T : ~ (<<y, x>> \in OpToRel(<, Nat))
  BY NatLessThanWellFounded, WFMin
<1>2. \A y \in T : ~ (y < x)
  BY <1>1 DEF OpToRel
<1> QED
  BY <1>2

\* A set that holds 0 and is closed under + 1 holds every natural.
LEMMA Induction ==
  ASSUME NEW S, 0 \in S, \A n \in Nat : n \in S => n + 1 \in S
  PROVE  Nat \subseteq S
<1> SUFFICES ASSUME Nat \ S # {} PROVE FALSE
  OBVIOUS
<1>1. PICK x \in Nat \ S : \A y \in Nat \ S : x <= y
  BY LeastNumber
<1>2. x # 0 /\ x - 1 \in Nat /\ x - 1 \in S
  BY <1>1
<1> QED
  BY <1>1, <1>2

\* An upper bound that belongs to the set is its Max.
LEMMA MaxIs ==
  ASSUME NEW s \in SUBSET Nat, NEW m \in s, \A y \in s : y <= m
  PROVE  Max(s) = m
<1>1. Max(s) \in s /\ \A y \in s : Max(s) >= y
  BY DEF Max
<1>2. Max(s) \in Nat /\ m \in Nat
  BY <1>1
<1> QED
  BY <1>1, <1>2

\* h is what the loop makes of b and the tokens at each set of positions up to n.
Reads(b, data, n, h) ==
    h = [s \in SUBSET (1..n) |->
            IF s = {} THEN b ELSE readToken(h[s \ {Max(s)}], data[Max(s)])]

\* What the loop makes of the first n tokens determines what it makes of n + 1.
LEMMA ReadsExtend ==
  ASSUME NEW b, NEW data, NEW n \in Nat, NEW g, Reads(b, data, n, g)
  PROVE  \E h : Reads(b, data, n + 1, h)
<1> DEFINE B(c, t) == readToken(c, t)
           k == [s \in SUBSET (1..(n + 1)) |->
                    IF n + 1 \in s THEN B(g[s \ {n + 1}], data[n + 1]) ELSE g[s]]
<1>1. \A s \in SUBSET (1..n) : g[s] = IF s = {} THEN b ELSE B(g[s \ {Max(s)}], data[Max(s)])
  BY DEF Reads
<1> HIDE DEF B
<1>2. ASSUME NEW s \in SUBSET (1..(n + 1))
      PROVE  k[s] = IF s = {} THEN b ELSE B(k[s \ {Max(s)}], data[Max(s)])
  <2>1. CASE n + 1 \in s
    <3>1. s \in SUBSET Nat /\ \A y \in s : y <= n + 1
      OBVIOUS
    <3>2. Max(s) = n + 1
      BY <2>1, <3>1, MaxIs
    <3>3. s \ {n + 1} \in SUBSET (1..(n + 1)) /\ n + 1 \notin s \ {n + 1}
      OBVIOUS
    <3>4. k[s \ {n + 1}] = g[s \ {n + 1}]
      BY <3>3
    <3> QED
      BY <2>1, <3>2, <3>4
  <2>2. CASE n + 1 \notin s
    <3>1. s \in SUBSET (1..n)
      BY <2>2
    <3>2. k[s] = g[s]
      BY <2>2
    <3>3. s \ {Max(s)} \in SUBSET (1..(n + 1)) /\ n + 1 \notin s \ {Max(s)}
      BY <2>2
    <3>4. k[s \ {Max(s)}] = g[s \ {Max(s)}]
      BY <3>3
    <3> QED
      BY <1>1, <3>1, <3>2, <3>4
  <2> QED
    BY <2>1, <2>2
<1>3. k = [s \in SUBSET (1..(n + 1)) |-> IF s = {} THEN b ELSE B(k[s \ {Max(s)}], data[Max(s)])]
  BY <1>2
<1>4. Reads(b, data, n + 1, k)
  BY <1>3 DEF Reads, B
<1> QED
  BY <1>4

\* The loop makes something of any number of tokens.
LEMMA ReadsExists ==
  ASSUME NEW b, NEW data, NEW n \in Nat
  PROVE  \E h : Reads(b, data, n, h)
<1> DEFINE S == {m \in Nat : \E h : Reads(b, data, m, h)}
<1>1. 0 \in S
  <2> DEFINE g == [s \in SUBSET (1..0) |-> b]
  <2>1. Reads(b, data, 0, g)
    <3>1. \A s \in SUBSET (1..0) : s = {}
      OBVIOUS
    <3> QED
      BY <3>1 DEF Reads
  <2> QED
    BY <2>1
<1>2. \A m \in Nat : m \in S => m + 1 \in S
  BY ReadsExtend
<1> HIDE DEF S
<1>3. n \in S
  BY <1>1, <1>2, Induction
<1> QED
  BY <1>3 DEF S

\* r[i] is what the loop has made of b after i tokens of data.
Loop(b, data, r) ==
    /\ r[0] = b
    /\ \A i \in 1..Len(data) : r[i] = readToken(r[i - 1], data[i])

\* It takes the tokens from the first to the last.
LEMMA ReadLoop ==
  ASSUME NEW b, NEW T, NEW data \in Seq(T)
  PROVE  \E r : Loop(b, data, r) /\ FoldLeft(readToken, b, data) = r[Len(data)]
<1> DEFINE P(g) == g = [s \in SUBSET DOMAIN data |->
                           IF s = {} THEN b ELSE readToken(g[s \ {Max(s)}], data[Max(s)])]
           h == CHOOSE g : P(g)
           n == Len(data)
<1>1. FoldLeft(readToken, b, data) = h[DOMAIN data]
  BY DEF FoldLeft, MapThenFoldSet
<1>2. n \in Nat /\ DOMAIN data = 1..n
  OBVIOUS
<1>3. \A g : Reads(b, data, n, g) <=> P(g)
  BY <1>2, Zenon DEF Reads
<1>4. \E g : P(g)
  BY <1>2, <1>3, ReadsExists, Zenon
<1>5. P(h)
  BY <1>4, Zenon
<1>6. Reads(b, data, n, h)
  BY <1>3, <1>5, Zenon
<1> HIDE DEF h, P
<1>7. h[1..0] = b
  <2>1. 1..0 = {} /\ 1..0 \in SUBSET (1..n)
    OBVIOUS
  <2> QED
    BY <1>6, <2>1 DEF Reads
<1>8. ASSUME NEW i \in 1..n
      PROVE  h[1..i] = readToken(h[1..(i - 1)], data[i])
  <2>1. /\ i \in Nat /\ 1..i \in SUBSET (1..n) /\ 1..i \in SUBSET Nat /\ i \in 1..i
        /\ \A y \in 1..i : y <= i
    BY <1>2
  <2>2. Max(1..i) = i
    BY <2>1, MaxIs
  <2>3. (1..i) \ {i} = 1..(i - 1) /\ 1..i # {}
    <3>1. \A j : j \in (1..i) \ {i} <=> j \in 1..(i - 1)
      BY <1>2
    <3> QED
      BY <2>1, <3>1
  <2>4. h[1..i] = readToken(h[(1..i) \ {Max(1..i)}], data[Max(1..i)])
    BY <1>6, <2>1, <2>3 DEF Reads
  <2> QED
    BY <2>2, <2>3, <2>4
<1> DEFINE r == [i \in 0..n |-> h[1..i]]
<1>9. r[0] = b /\ h[DOMAIN data] = r[n]
  BY <1>2, <1>7
<1>10. \A i \in 1..n : r[i] = readToken(r[i - 1], data[i])
  BY <1>2, <1>8
<1>11. Loop(b, data, r)
  BY <1>9, <1>10, Zenon DEF Loop
<1> HIDE DEF r
<1> QED
  BY <1>1, <1>9, <1>11, Zenon

\* What every token keeps, the loop keeps.
LEMMA LoopBody ==
  ASSUME NEW b \in Body, NEW data \in Seq(StreamTokens), NEW r, Loop(b, data, r)
  PROVE  \A i \in 0..Len(data) : r[i] \in Body /\ Later(b, r[i])
<1> DEFINE S == {i \in Nat : i <= Len(data) => r[i] \in Body /\ Later(b, r[i])}
<1>1. 0 \in S
  <2>1. Later(b, b)
    BY DEF Later
  <2> QED
    BY <2>1 DEF Loop
<1>2. ASSUME NEW i \in Nat, i \in S
      PROVE  i + 1 \in S
  <2> SUFFICES ASSUME i + 1 <= Len(data) PROVE r[i + 1] \in Body /\ Later(b, r[i + 1])
    OBVIOUS
  <2>1. r[i] \in Body /\ Later(b, r[i])
    BY <1>2
  <2>2. i + 1 \in 1..Len(data) /\ (i + 1) - 1 = i /\ data[i + 1] \in StreamTokens
    OBVIOUS
  <2>3. r[i + 1] = readToken(r[i], data[i + 1])
    BY <2>2 DEF Loop
  <2>4. readToken(r[i], data[i + 1]) \in Body /\ Later(r[i], readToken(r[i], data[i + 1]))
    BY <2>1, <2>2, ReadTokenBody
  <2> QED
    BY <2>1, <2>3, <2>4, LaterTransitive
<1> HIDE DEF S
<1>3. Nat \subseteq S
  BY <1>1, <1>2, Induction
<1> QED
  BY <1>3 DEF S

-----------------------------------------------------------------------------
(* The inductive invariant *)

Types ==
    /\ compatibility \in BOOLEAN /\ sse \in BOOLEAN /\ ended \in BOOLEAN /\ closed \in BOOLEAN
    /\ input \in Seq(StreamTokens)

\* Nothing is counted before the body has ended or been closed, and one result
\* from then on.
Counted ==
    IF ended \/ closed THEN \E o \in Outcomes, r \in ResultReasons : results = <<<<o, r>>>>
                       ELSE results = <<>> /\ recorded = 0

\* A request is recorded by the result that says so and by no other.
Recorded ==
    recorded = IF results \in {<<<<"success", "none">>>>, <<<<"skipped", "usage_absent">>>>}
               THEN 1 ELSE 0

\* A response that failed while it was read is never recorded, and its first
\* failure is what is counted, unless the connection broke or the body was
\* closed before the end was seen (responseBody.fail, finish).
FirstFailureCounts ==
    failed => results \in {<<>>, <<<<"failed", failure>>>>, <<<<"failed", "read_error">>>>,
                           <<<<"skipped", "body_closed">>>>}

IInv == Types /\ BodyState \in Body /\ Counted /\ Recorded /\ FirstFailureCounts

-----------------------------------------------------------------------------
(* It holds at first and is kept by every step *)

\* Become assigns the whole state of the observer.
LEMMA BecomeState ==
  ASSUME NEW b \in Body, Become(b)
  PROVE  BodyState' = b
  BY DEF Become, BodyState, Body, BodyRecord

\* A new observer is well-formed.
LEMMA InitIInv == Init => IInv
<1> SUFFICES ASSUME Init PROVE IInv
  OBVIOUS
<1>1. Types
  <2>1. compatibility \in BOOLEAN /\ sse \in BOOLEAN
    BY Zenon DEF Init
  <2>2. ended \in BOOLEAN /\ closed \in BOOLEAN
    BY Zenon DEF Init
  <2>3. input = <<>>
    BY Zenon DEF Init
  <2>4. input \in Seq(StreamTokens)
    BY <2>3
  <2> QED
    BY <2>1, <2>2, <2>4, Zenon DEF Types
<1>2. NoFields \in Samples
  BY DEF NoFields, Samples, Values
<1>3. BodyState \in Body
  BY <1>2 DEF Init, BodyState, Body, BodyRecord, Opens
<1>4. Counted /\ Recorded /\ FirstFailureCounts
  BY DEF Init, Counted, Recorded, FirstFailureCounts
<1> QED
  BY <1>1, <1>3, <1>4 DEF IInv

\* What the emit callback records is what its result says.
LEMMA CompletionRecords ==
  ASSUME NEW s
  PROVE  /\ Completion(s).outcome \in Outcomes /\ Completion(s).reason \in ResultReasons
         /\ Completion(s).record =
                IF <<Completion(s).outcome, Completion(s).reason>>
                       \in {<<"success", "none">>, <<"skipped", "usage_absent">>}
                THEN 1 ELSE 0
<1>1. \/ Completion(s) = [record |-> 0, outcome |-> "failed", reason |-> "invalid_fields"]
      \/ Completion(s) = [record |-> 0, outcome |-> "skipped", reason |-> "incomplete"]
      \/ Completion(s) = [record |-> 1, outcome |-> "skipped", reason |-> "usage_absent"]
      \/ Completion(s) = [record |-> 1, outcome |-> "success", reason |-> "none"]
  BY DEF Completion
<1> QED
  BY <1>1 DEF Outcomes, ResultReasons, Reasons

\* What a read is given is a sequence of tokens.
LEMMA DataTokens ==
  ASSUME NEW n \in Nat, NEW data \in [1..n -> Tokens]
  PROVE  data \in Seq(StreamTokens) /\ Len(data) = n
<1>1. Tokens \subseteq StreamTokens
  BY ResponseBodyAssumption DEF Tokens, StreamTokens
<1> QED
  BY <1>1

\* Bytes are observed and nothing is counted.
LEMMA ReadKeeps ==
  ASSUME IInv, NEW data \in Seq(StreamTokens), Read(data)
  PROVE  /\ IInv' /\ Later(BodyState, BodyState')
         /\ BodyState' = noteFieldSkip(FoldLeft(readToken, BodyState, data))
<1>1. Types'
  BY DEF IInv, Types, Read, mode
<1> DEFINE c == FoldLeft(readToken, BodyState, data)
           b == noteFieldSkip(c)
<1>2. c \in Body /\ Later(BodyState, c)
  <2>1. PICK r : Loop(BodyState, data, r) /\ c = r[Len(data)]
    BY ReadLoop
  <2>2. Len(data) \in 0..Len(data)
    OBVIOUS
  <2> QED
    BY <2>1, <2>2, LoopBody DEF IInv
<1>3. b \in Body /\ Later(c, b)
  BY <1>2, NoteBody
<1>4. BodyState' = b
  BY <1>3, BecomeState DEF Read
<1>5. Later(BodyState, b)
  BY <1>2, <1>3, LaterTransitive
<1>6. b = noteFieldSkip(FoldLeft(readToken, BodyState, data))
  OBVIOUS
<1> HIDE DEF c, b
<1>7. results = <<>> /\ recorded = 0 /\ results' = <<>> /\ recorded' = 0 /\ ~ended' /\ ~closed'
  BY DEF IInv, Counted, Read
<1>8. Counted' /\ Recorded' /\ FirstFailureCounts'
  BY <1>7 DEF Counted, Recorded, FirstFailureCounts
<1> QED
  BY <1>1, <1>3, <1>4, <1>5, <1>6, <1>8 DEF IInv

\* The end counts one result, the first failure if there is one.
LEMMA EOFKeeps ==
  ASSUME IInv, ReadEOF
  PROVE  IInv' /\ Later(BodyState, BodyState')
<1>1. Types'
  BY DEF IInv, Types, ReadEOF, mode
<1> DEFINE n == noteFieldSkip(BodyState)
           b == flushEvent(n)
           c == Completion(b.sample)
<1>2. n \in Body /\ Later(BodyState, n)
  BY NoteBody DEF IInv
<1>3. b \in Body /\ Later(n, b)
  BY <1>2, FlushBody
<1>4. BodyState' = b
  BY <1>3, BecomeState DEF ReadEOF
<1>5. failed' = b.failed /\ failure' = b.failure
  BY DEF ReadEOF, Become
<1>6. Later(BodyState, b)
  BY <1>2, <1>3, LaterTransitive
<1>7. results = <<>> /\ recorded = 0 /\ ended'
  BY DEF IInv, Counted, ReadEOF
<1>8. \/ ~b.failed /\ recorded' = recorded + c.record /\ results' = <<<<c.outcome, c.reason>>>>
      \/ b.failed /\ recorded' = recorded /\ results' = <<<<"failed", b.failure>>>>
      \/ /\ ~b.failed /\ b.parser # "between"
         /\ recorded' = recorded /\ results' = <<<<"failed", failureReason(b)>>>>
      \/ ~b.failed /\ recorded' = recorded /\ results' = <<<<"skipped", "incomplete">>>>
  BY <1>7 DEF ReadEOF, report
<1>9. /\ b.failed => b.failure \in ResultReasons
      /\ b.parser # "between" => failureReason(b) \in ResultReasons
  <2>1. b.parser \in {"between", "malformed"} \cup Opens \cup Limits /\ (b.failed => b.failure \in Reasons)
    BY <1>3 DEF Body, BodyRecord
  <2>2. b.parser # "between" => failureReason(b) \in {"incomplete", "malformed"} \cup Limits
    BY <2>1 DEF failureReason
  <2> HIDE DEF b
  <2> QED
    BY <2>1, <2>2 DEF ResultReasons, Reasons
<1>10. /\ c.outcome \in Outcomes /\ c.reason \in ResultReasons
       /\ c.record = IF <<c.outcome, c.reason>> \in {<<"success", "none">>, <<"skipped", "usage_absent">>}
                     THEN 1 ELSE 0
  BY CompletionRecords
<1> HIDE DEF n, b, c
<1>11. Counted'
  <2>1. \E o \in Outcomes, r \in ResultReasons : results' = <<<<o, r>>>>
    <3>1. {"failed", "skipped"} \subseteq Outcomes /\ "incomplete" \in ResultReasons
      BY DEF Outcomes, ResultReasons, Reasons
    <3> QED
      BY <1>8, <1>9, <1>10, <3>1
  <2> QED
    BY <1>7, <2>1 DEF Counted
<1>12. Recorded'
  BY <1>7, <1>8, <1>10 DEF Recorded
<1>13. FirstFailureCounts'
  BY <1>5, <1>8 DEF FirstFailureCounts
<1> QED
  BY <1>1, <1>3, <1>4, <1>6, <1>11, <1>12, <1>13 DEF IInv

\* A report that is not the first changes nothing, and one that is records nothing.
LEMMA ReportKeeps ==
  ASSUME IInv, ReadError \/ Close
  PROVE  IInv' /\ Later(BodyState, BodyState')
<1>1. Types'
  BY DEF IInv, Types, ReadError, Close, mode
<1>2. BodyState' \in Body /\ Later(BodyState, BodyState')
  <2>1. noteFieldSkip(BodyState) \in Body /\ Later(BodyState, noteFieldSkip(BodyState))
    BY NoteBody DEF IInv
  <2>2. CASE ReadError
    BY <2>1, <2>2, BecomeState DEF ReadError
  <2>3. CASE Close
    <3>1. BodyState' = BodyState
      BY <2>3 DEF BodyState, Close
    <3> QED
      BY <3>1 DEF IInv, Later
  <2> QED
    BY <2>2, <2>3
<1>3. failed' = failed /\ failure' = failure /\ recorded' = recorded /\ (ended \/ closed)'
  <2>1. noteFieldSkip(BodyState).failed = failed /\ noteFieldSkip(BodyState).failure = failure
    BY DEF noteFieldSkip, BodyState
  <2> QED
    BY <2>1 DEF ReadError, Close, Become
<1>4. CASE results = <<>>
  <2>1. results' = <<<<"failed", "read_error">>>> \/ results' = <<<<"skipped", "body_closed">>>>
    BY <1>4 DEF ReadError, Close, report
  <2>2. recorded = 0
    BY <1>4 DEF IInv, Recorded
  <2> QED
    <3>1. Counted'
      <4>1. {"failed", "skipped"} \subseteq Outcomes /\ {"read_error", "body_closed"} \subseteq ResultReasons
        BY DEF Outcomes, ResultReasons
      <4> QED
        BY <1>3, <2>1, <4>1 DEF Counted
    <3>2. Recorded' /\ FirstFailureCounts'
      BY <1>3, <2>1, <2>2 DEF Recorded, FirstFailureCounts
    <3> QED
      BY <1>1, <1>2, <3>1, <3>2 DEF IInv
<1>5. CASE results # <<>>
  <2>1. results' = results /\ (ended \/ closed)
    BY <1>5 DEF ReadError, Close, report, IInv, Counted
  <2> QED
    BY <1>1, <1>2, <1>3, <2>1 DEF IInv, Counted, Recorded, FirstFailureCounts
<1> QED
  BY <1>4, <1>5

\* Every step keeps the invariant and what must stay.
LEMMA NextIInv ==
  ASSUME IInv, [Next]_vars
  PROVE  IInv' /\ Later(BodyState, BodyState')
<1>1. CASE \E n \in 1..(MaxTokens - Len(input)) : \E data \in [1..n -> Tokens] : Read(data)
  <2>1. PICK n \in 1..(MaxTokens - Len(input)) : \E data \in [1..n -> Tokens] : Read(data)
    BY <1>1
  <2>2. PICK data \in [1..n -> Tokens] : Read(data)
    BY <2>1
  <2>3. data \in Seq(StreamTokens)
    BY DataTokens
  <2> QED
    BY <2>2, <2>3, ReadKeeps
<1>2. CASE ReadEOF
  BY <1>2, EOFKeeps
<1>3. CASE ReadError \/ Close
  BY <1>3, ReportKeeps
<1>4. CASE ReadAgain \/ UNCHANGED vars
  <2>1. UNCHANGED vars
    BY <1>4 DEF ReadAgain
  <2>2. BodyState' = BodyState /\ Later(BodyState, BodyState)
    BY <2>1 DEF vars, BodyState, Later
  <2>3. Types' /\ Counted' /\ Recorded' /\ FirstFailureCounts'
    BY <2>1 DEF vars, mode, IInv, Types, Counted, Recorded, FirstFailureCounts
  <2> QED
    BY <2>2, <2>3 DEF IInv
<1> QED
  BY <1>1, <1>2, <1>3, <1>4 DEF Next

-----------------------------------------------------------------------------
(* Flattening *)

\* f[i] is the concatenation of the first i elements of ss, up to n.
Flat(ss, n, f) == f = [i \in 1..n |-> IF i = 1 THEN ss[i] ELSE f[i - 1] \o ss[i]]

\* There is such a function.
LEMMA FlatExists ==
  ASSUME NEW ss, NEW n \in Nat
  PROVE  \E f : Flat(ss, n, f)
<1> DEFINE S == {m \in Nat : \E f : Flat(ss, m, f)}
<1>1. 0 \in S
  <2>1. Flat(ss, 0, [i \in 1..0 |-> ss[i]])
    BY DEF Flat
  <2> QED
    BY <2>1
<1>2. ASSUME NEW m \in Nat, m \in S
      PROVE  m + 1 \in S
  <2>1. PICK f : Flat(ss, m, f)
    BY <1>2
  <2> DEFINE g == [i \in 1..(m + 1) |->
                     IF i <= m THEN f[i] ELSE IF i = 1 THEN ss[i] ELSE f[i - 1] \o ss[i]]
  <2>2. \A i \in 1..m : f[i] = IF i = 1 THEN ss[i] ELSE f[i - 1] \o ss[i]
    BY <2>1 DEF Flat
  <2>3. ASSUME NEW i \in 1..(m + 1)
        PROVE  g[i] = IF i = 1 THEN ss[i] ELSE g[i - 1] \o ss[i]
    <3>1. CASE i <= m
      <4>1. g[i] = f[i] /\ (i # 1 => g[i - 1] = f[i - 1]) /\ i \in 1..m
        BY <3>1
      <4> QED
        BY <2>2, <4>1
    <3>2. CASE ~(i <= m)
      <4>1. i = m + 1 /\ (i # 1 => i - 1 \in 1..(m + 1) /\ i - 1 <= m)
        BY <3>2
      <4>2. i # 1 => g[i - 1] = f[i - 1]
        BY <4>1
      <4> QED
        BY <3>2, <4>1, <4>2
    <3> QED
      BY <3>1, <3>2
  <2>4. g = [i \in 1..(m + 1) |-> IF i = 1 THEN ss[i] ELSE g[i - 1] \o ss[i]]
    BY <2>3
  <2>5. Flat(ss, m + 1, g)
    BY <2>4 DEF Flat
  <2> QED
    BY <2>5
<1> HIDE DEF S
<1>3. n \in S
  BY <1>1, <1>2, Induction
<1> QED
  BY <1>3 DEF S

Agree(f, g, n) == \A i \in 1..n : f[i] = g[i]

\* What it is at i depends on the first i elements only.
LEMMA FlatAgrees ==
  ASSUME NEW ss, NEW tt, NEW n \in Nat, NEW m \in Nat, n <= m, NEW f, NEW g,
         Flat(ss, n, f), Flat(tt, m, g), Agree(ss, tt, n)
  PROVE  Agree(f, g, n)
<1>1. \A i \in 1..n : f[i] = IF i = 1 THEN ss[i] ELSE f[i - 1] \o ss[i]
  BY DEF Flat
<1>2. \A i \in 1..n : g[i] = IF i = 1 THEN ss[i] ELSE g[i - 1] \o ss[i]
  <2>1. \A i \in 1..m : g[i] = IF i = 1 THEN tt[i] ELSE g[i - 1] \o tt[i]
    BY DEF Flat
  <2>2. \A i \in 1..n : i \in 1..m /\ ss[i] = tt[i]
    BY DEF Agree
  <2> QED
    BY <2>1, <2>2
<1> DEFINE S == {i \in Nat : i \in 1..n => f[i] = g[i]}
<1>3. 0 \in S
  OBVIOUS
<1>4. ASSUME NEW i \in Nat, i \in S
      PROVE  i + 1 \in S
  <2> SUFFICES ASSUME i + 1 \in 1..n PROVE f[i + 1] = g[i + 1]
    OBVIOUS
  <2>1. CASE i = 0
    BY <1>1, <1>2, <2>1
  <2>2. CASE i # 0
    <3>1. i \in 1..n /\ f[i] = g[i]
      BY <1>4, <2>2
    <3>2. i + 1 # 1 /\ (i + 1) - 1 = i
      BY <2>2
    <3>3. f[i + 1] = f[i] \o ss[i + 1] /\ g[i + 1] = g[i] \o ss[i + 1]
      BY <1>1, <1>2, <3>2, Zenon
    <3> QED
      BY <3>1, <3>3
  <2> QED
    BY <2>1, <2>2
<1> HIDE DEF S
<1>5. Nat \subseteq S
  BY <1>3, <1>4, Induction
<1> QED
  BY <1>5 DEF S, Agree

\* Partial concatenations are sequences over the same set.
LEMMA FlatTyped ==
  ASSUME NEW T, NEW ss \in Seq(Seq(T)), NEW f, Flat(ss, Len(ss), f)
  PROVE  \A i \in 1..Len(ss) : f[i] \in Seq(T)
<1>1. \A i \in 1..Len(ss) : f[i] = IF i = 1 THEN ss[i] ELSE f[i - 1] \o ss[i]
  BY DEF Flat
<1> DEFINE S == {i \in Nat : i \in 1..Len(ss) => f[i] \in Seq(T)}
<1>2. 0 \in S
  OBVIOUS
<1>3. ASSUME NEW i \in Nat, i \in S
      PROVE  i + 1 \in S
  <2> SUFFICES ASSUME i + 1 \in 1..Len(ss) PROVE f[i + 1] \in Seq(T)
    OBVIOUS
  <2>1. ss[i + 1] \in Seq(T)
    OBVIOUS
  <2>2. CASE i = 0
    BY <1>1, <2>1, <2>2
  <2>3. CASE i # 0
    <3>1. f[i] \in Seq(T) /\ i + 1 # 1 /\ (i + 1) - 1 = i
      BY <1>3, <2>3
    <3>2. f[i + 1] = f[i] \o ss[i + 1]
      BY <1>1, <3>1, Zenon
    <3> QED
      BY <2>1, <3>1, <3>2
  <2> QED
    BY <2>2, <2>3
<1> HIDE DEF S
<1>4. Nat \subseteq S
  BY <1>2, <1>3, Induction
<1> QED
  BY <1>4 DEF S

\* FlattenSeq is the last value of that function.
LEMMA FlattenIs ==
  ASSUME NEW T, NEW ss \in Seq(Seq(T)), NEW f, Flat(ss, Len(ss), f)
  PROVE  FlattenSeq(ss) = IF Len(ss) = 0 THEN <<>> ELSE f[Len(ss)]
<1> DEFINE P(g) == g = [i \in 1..Len(ss) |-> IF i = 1 THEN ss[i] ELSE g[i - 1] \o ss[i]]
           h == CHOOSE g : P(g)
<1>1. FlattenSeq(ss) = IF Len(ss) = 0 THEN ss ELSE h[Len(ss)]
  BY DEF FlattenSeq
<1>2. P(f)
  BY DEF Flat
<1>3. P(h)
  BY <1>2, Zenon
<1>4. Flat(ss, Len(ss), h)
  BY <1>3 DEF Flat
<1> HIDE DEF h, P
<1>5. Len(ss) \in Nat
  OBVIOUS
<1>6. Agree(f, h, Len(ss))
  BY <1>4, <1>5, FlatAgrees DEF Agree
<1>7. Len(ss) = 0 => ss = <<>>
  OBVIOUS
<1> QED
  BY <1>1, <1>5, <1>6, <1>7 DEF Agree

\* Nothing flattens to nothing.
LEMMA FlattenEmpty == FlattenSeq(<<>>) = <<>>
  BY DEF FlattenSeq

\* Flattening sequences over T gives a sequence over T.
LEMMA FlattenTyped ==
  ASSUME NEW T, NEW ss \in Seq(Seq(T))
  PROVE  FlattenSeq(ss) \in Seq(T)
<1>1. Len(ss) \in Nat
  OBVIOUS
<1>2. PICK f : Flat(ss, Len(ss), f)
  BY <1>1, FlatExists
<1>3. \A i \in 1..Len(ss) : f[i] \in Seq(T)
  BY <1>2, FlatTyped
<1>4. FlattenSeq(ss) = IF Len(ss) = 0 THEN <<>> ELSE f[Len(ss)]
  BY <1>2, FlattenIs
<1> QED
  BY <1>1, <1>3, <1>4

\* Flattening one sequence more appends it.
LEMMA FlattenAppend ==
  ASSUME NEW T, NEW ss \in Seq(Seq(T)), NEW x \in Seq(T)
  PROVE  FlattenSeq(Append(ss, x)) = FlattenSeq(ss) \o x
<1> DEFINE tt == Append(ss, x)
           n == Len(ss)
<1>1. /\ n \in Nat /\ tt \in Seq(Seq(T)) /\ Len(tt) = n + 1 /\ tt[n + 1] = x
      /\ \A i \in 1..n : ss[i] = tt[i]
  OBVIOUS
<1> HIDE DEF tt, n
<1>2. PICK f : Flat(ss, n, f)
  BY <1>1, FlatExists, Zenon
<1>3. PICK g : Flat(tt, n + 1, g)
  <2>1. n + 1 \in Nat
    BY <1>1
  <2> QED
    BY <2>1, FlatExists, Zenon
<1>4. \A i \in 1..n : f[i] = g[i]
  <2>1. n \in Nat /\ n + 1 \in Nat /\ n <= n + 1 /\ Agree(ss, tt, n)
    BY <1>1 DEF Agree
  <2>2. Agree(f, g, n)
    BY <1>2, <1>3, <2>1, FlatAgrees
  <2> QED
    BY <2>2 DEF Agree
<1>5. FlattenSeq(ss) = IF n = 0 THEN <<>> ELSE f[n]
  BY <1>2, FlattenIs DEF n
<1>6. FlattenSeq(tt) = g[n + 1]
  BY <1>1, <1>3, FlattenIs
<1>7. g[n + 1] = IF n + 1 = 1 THEN tt[n + 1] ELSE g[n] \o tt[n + 1]
  <2>1. \A i \in 1..(n + 1) : g[i] = IF i = 1 THEN tt[i] ELSE g[i - 1] \o tt[i]
    BY <1>3 DEF Flat
  <2> QED
    BY <1>1, <2>1
<1>8. CASE n = 0
  BY <1>1, <1>5, <1>6, <1>7, <1>8 DEF tt
<1>9. CASE n # 0
  <2>1. n \in 1..n /\ n + 1 # 1
    BY <1>1, <1>9
  <2>2. FlattenSeq(ss) = g[n]
    BY <1>4, <1>5, <1>9, <2>1, Zenon
  <2> QED
    BY <1>1, <1>6, <1>7, <2>1, <2>2, Zenon DEF tt
<1> QED
  BY <1>8, <1>9

-----------------------------------------------------------------------------
(* The reference's operators when a token is appended *)

\* A function on 1..n is a sequence of length n.
LEMMA FunctionIsSequence ==
  ASSUME NEW U, NEW n \in Nat, NEW f \in [1..n -> U]
  PROVE  f \in Seq(U) /\ Len(f) = n
  OBVIOUS

\* A function on 1..n of sequences, and one more.
LEMMA FlattenExtend ==
  ASSUME NEW T, NEW n \in Nat, NEW f \in [1..n -> Seq(T)], NEW g \in [1..(n + 1) -> Seq(T)],
         Agree(f, g, n)
  PROVE  /\ FlattenSeq(g) = FlattenSeq(f) \o g[n + 1]
         /\ FlattenSeq(f) \in Seq(T)
<1> DEFINE U == Seq(T)
           x == g[n + 1]
<1>1. f \in [1..n -> U] /\ g \in [1..(n + 1) -> U] /\ x \in U
  OBVIOUS
<1> HIDE DEF U
<1>2. f \in Seq(U) /\ Len(f) = n /\ g \in Seq(U) /\ Len(g) = n + 1
  BY <1>1, FunctionIsSequence
<1> HIDE DEF x
<1>3. /\ Append(f, x) \in Seq(U) /\ Len(Append(f, x)) = n + 1
      /\ \A i \in 1..(n + 1) : Append(f, x)[i] = g[i]
  BY <1>1, <1>2 DEF Agree, x
<1>4. g = Append(f, x)
  BY <1>2, <1>3, SeqEqual
<1>5. FlattenSeq(Append(f, x)) = FlattenSeq(f) \o x
  BY <1>1, <1>2, FlattenAppend DEF U
<1> QED
  BY <1>2, <1>4, <1>5, FlattenTyped DEF U, x

\* The same of the positions 1..n.
Same(ps, qs, n) == \A i \in 1..n : i \in ps <=> i \in qs

\* At of a sequence and one more.
LEMMA AtAppend ==
  ASSUME NEW T, NEW s \in Seq(T), NEW t \in T, NEW ps, NEW qs, Same(ps, qs, Len(s))
  PROVE  /\ At(Append(s, t), qs) = At(s, ps) \o (IF Len(s) + 1 \in qs THEN <<t>> ELSE <<>>)
         /\ At(s, ps) \in Seq(T)
<1> DEFINE n == Len(s)
           u == Append(s, t)
           f == [i \in DOMAIN s |-> IF i \in ps THEN <<s[i]>> ELSE <<>>]
           g == [i \in DOMAIN u |-> IF i \in qs THEN <<u[i]>> ELSE <<>>]
<1>1. /\ n \in Nat /\ DOMAIN s = 1..n /\ DOMAIN u = 1..(n + 1) /\ u[n + 1] = t
      /\ \A i \in 1..n : s[i] \in T /\ u[i] = s[i]
  OBVIOUS
<1> HIDE DEF u, n
<1>2. ASSUME NEW i \in 1..n PROVE f[i] \in Seq(T) /\ g[i] = f[i]
  <2>1. i \in DOMAIN s /\ i \in DOMAIN u /\ u[i] = s[i] /\ s[i] \in T /\ (i \in ps <=> i \in qs)
    BY <1>1 DEF n, Same
  <2> QED
    BY <2>1
<1>3. g[n + 1] = IF n + 1 \in qs THEN <<t>> ELSE <<>>
  BY <1>1
<1>4. g[n + 1] \in Seq(T)
  <2>1. <<t>> \in Seq(T) /\ <<>> \in Seq(T)
    OBVIOUS
  <2> HIDE DEF g
  <2> QED
    BY <1>3, <2>1, Zenon
<1>5. f \in [1..n -> Seq(T)] /\ g \in [1..(n + 1) -> Seq(T)] /\ Agree(f, g, n)
  <2>1. DOMAIN f = 1..n /\ DOMAIN g = 1..(n + 1) /\ f = [i \in 1..n |-> f[i]] /\ g = [i \in 1..(n + 1) |-> g[i]]
    BY <1>1
  <2> HIDE DEF f, g
  <2>2. \A i \in 1..(n + 1) : i \in 1..n \/ i = n + 1
    BY <1>1
  <2>3. \A i \in 1..(n + 1) : g[i] \in Seq(T)
    BY <1>2, <1>4, <2>2
  <2> QED
    BY <1>2, <2>1, <2>3, Zenon DEF Agree
<1> HIDE DEF f, g
<1>6. FlattenSeq(g) = FlattenSeq(f) \o g[n + 1] /\ FlattenSeq(f) \in Seq(T)
  BY <1>1, <1>5, FlattenExtend
<1>7. At(u, qs) = FlattenSeq(g) /\ At(s, ps) = FlattenSeq(f)
  BY Zenon DEF At, f, g
<1> QED
  BY <1>3, <1>6, <1>7, Zenon DEF n, u

\* Nothing has elements nowhere.
LEMMA AtNothing == \A ps : At(<<>>, ps) = <<>>
<1>1. \A ps : [i \in DOMAIN <<>> |-> IF i \in ps THEN <<<<>>[i]>> ELSE <<>>] = <<>>
  OBVIOUS
<1> QED
  BY <1>1, FlattenEmpty DEF At

\* No positions, no elements.
LEMMA AtNone ==
  ASSUME NEW T, NEW s \in Seq(T), NEW ps, \A i \in 1..Len(s) : i \notin ps
  PROVE  At(s, ps) = <<>>
<1> DEFINE P(r) == Same(ps, {}, Len(r)) => At(r, ps) = <<>>
           S == {m \in Nat : \A r \in Seq(T) : Len(r) = m => P(r)}
<1>1. 0 \in S
  <2> SUFFICES ASSUME NEW r \in Seq(T), Len(r) = 0 PROVE At(r, ps) = <<>>
    OBVIOUS
  <2>1. r = <<>>
    OBVIOUS
  <2> QED
    BY <2>1, AtNothing
<1>2. ASSUME NEW m \in Nat, m \in S
      PROVE  m + 1 \in S
  <2> SUFFICES ASSUME NEW r \in Seq(T), Len(r) = m + 1, Same(ps, {}, m + 1) PROVE At(r, ps) = <<>>
    OBVIOUS
  <2> DEFINE q == SubSeq(r, 1, m)
             t == r[m + 1]
  <2>1. q \in Seq(T) /\ Len(q) = m /\ t \in T
    BY <1>2
  <2>2. r = Append(q, t)
    <3>1. /\ Append(q, t) \in Seq(T) /\ Len(Append(q, t)) = m + 1
          /\ \A i \in 1..(m + 1) : Append(q, t)[i] = r[i]
      BY <1>2
    <3> QED
      BY <3>1, SeqEqual
  <2> HIDE DEF q, t
  <2>3. Same(ps, {}, m) /\ Same(ps, ps, m) /\ m + 1 \notin ps
    BY DEF Same
  <2>4. At(q, ps) = <<>>
    BY <1>2, <2>1, <2>3
  <2>5. At(Append(q, t), ps) = At(q, ps) \o (IF Len(q) + 1 \in ps THEN <<t>> ELSE <<>>)
    <3>1. Same(ps, ps, Len(q))
      BY <2>1, <2>3
    <3> QED
      BY <2>1, <3>1, AtAppend
  <2> QED
    BY <2>1, <2>2, <2>3, <2>4, <2>5
<1>3. Len(s) \in Nat /\ Same(ps, {}, Len(s))
  BY DEF Same
<1> HIDE DEF P
<1>4. Len(s) \in S
  BY <1>1, <1>2, <1>3, Induction
<1> QED
  BY <1>3, <1>4 DEF P

\* GoodLen is the only number that fits.
LEMMA GoodLenIs ==
  ASSUME NEW T, NEW d \in Seq(T), NEW n \in 0..Len(d),
         \A i \in 1..n : Follows(d, i), n < Len(d) => ~Follows(d, n + 1)
  PROVE  GoodLen(d) = n
<1> DEFINE P(m) == (\A i \in 1..m : Follows(d, i)) /\ (m < Len(d) => ~Follows(d, m + 1))
<1>1. ASSUME NEW m \in 0..Len(d), P(m) PROVE m = n
  <2>1. Len(d) \in Nat /\ n \in Nat /\ m \in Nat /\ n <= Len(d) /\ m <= Len(d)
    OBVIOUS
  <2>2. ~(m < n)
    <3> SUFFICES ASSUME m < n PROVE FALSE
      OBVIOUS
    <3>1. m + 1 \in 1..n /\ m < Len(d)
      BY <2>1
    <3> QED
      BY <1>1, <3>1
  <2>3. ~(n < m)
    <3> SUFFICES ASSUME n < m PROVE FALSE
      OBVIOUS
    <3>1. n + 1 \in 1..m /\ n < Len(d)
      BY <2>1
    <3> QED
      BY <1>1, <3>1
  <2> QED
    BY <2>1, <2>2, <2>3
<1>2. P(n)
  OBVIOUS
<1> HIDE DEF P
<1>3. GoodLen(d) = CHOOSE m \in 0..Len(d) : P(m)
  BY Zenon DEF GoodLen, P
<1> QED
  BY <1>1, <1>2, <1>3

-----------------------------------------------------------------------------
(* Sequences of objects *)

\* Of every sequence some first part is good.
LEMMA GoodLenFits ==
  ASSUME NEW T, NEW d \in Seq(T)
  PROVE  /\ GoodLen(d) \in 0..Len(d)
         /\ \A i \in 1..GoodLen(d) : Follows(d, i)
         /\ GoodLen(d) < Len(d) => ~Follows(d, GoodLen(d) + 1)
<1> DEFINE S == {m \in 0..Len(d) : m < Len(d) => ~Follows(d, m + 1)}
<1>1. Len(d) \in Nat /\ S \in SUBSET Nat /\ Len(d) \in S
  OBVIOUS
<1>2. PICK n \in S : \A m \in S : n <= m
  BY <1>1, LeastNumber
<1>3. \A i \in 1..n : Follows(d, i)
  <2> SUFFICES ASSUME NEW i \in 1..n, ~Follows(d, i) PROVE FALSE
    OBVIOUS
  <2>1. n \in 0..Len(d) /\ i - 1 \in 0..Len(d) /\ (i - 1) + 1 = i /\ i - 1 < n
    BY <1>1, <1>2
  <2>2. i - 1 \in S
    BY <2>1
  <2> HIDE DEF S
  <2> QED
    BY <1>2, <2>1, <2>2
<1>4. n \in 0..Len(d) /\ (n < Len(d) => ~Follows(d, n + 1))
  BY <1>2
<1>5. GoodLen(d) = n
  BY <1>3, <1>4, GoodLenIs
<1> QED
  BY <1>3, <1>4, <1>5

\* Whether a position continues the sequence depends on it and the one before.
LEMMA FollowsAppend ==
  ASSUME NEW T, NEW d \in Seq(T), NEW t \in T
  PROVE  /\ \A i \in 1..Len(d) : Follows(Append(d, t), i) <=> Follows(d, i)
         /\ Follows(Append(d, t), Len(d) + 1) <=>
               \/ /\ t.kind \in {"object"} \cup Opens
                  /\ d = <<>> \/ d[Len(d)].kind \in {"object", "rest"}
               \/ t.kind = "rest" /\ d # <<>> /\ d[Len(d)].kind \in Opens
<1> DEFINE e == Append(d, t)
           n == Len(d)
<1>1. n \in Nat /\ e[n + 1] = t /\ \A i \in 1..n : e[i] = d[i]
  OBVIOUS
<1>2. (d = <<>> <=> n = 0) /\ (n # 0 => n \in 1..n)
  OBVIOUS
<1> HIDE DEF e, n
<1>3. ASSUME NEW i \in 1..n PROVE Follows(e, i) <=> Follows(d, i)
  <2>1. e[i] = d[i] /\ (i # 1 => e[i - 1] = d[i - 1])
    BY <1>1
  <2>2. i \in Nat /\ (i > 1 => i # 1)
    BY <1>1
  <2> QED
    BY <2>1, <2>2 DEF Follows
<1>4. CASE n = 0
  <2>1. e[1] = t
    BY <1>1, <1>4
  <2> QED
    BY <1>2, <1>3, <1>4, <2>1 DEF Follows, e, n
<1>5. CASE n # 0
  <2>1. e[n] = d[n] /\ n + 1 # 1 /\ n + 1 > 1 /\ (n + 1) - 1 = n
    BY <1>1, <1>2, <1>5
  <2>2. Follows(e, n + 1) <=>
           \/ t.kind \in {"object"} \cup Opens /\ d[n].kind \in {"object", "rest"}
           \/ t.kind = "rest" /\ d[n].kind \in Opens
    BY <1>1, <2>1 DEF Follows
  <2> QED
    BY <1>2, <1>3, <1>5, <2>2 DEF e, n
<1> QED
  BY <1>4, <1>5

\* A token makes a good sequence longer or ends it; it does not mend a bad one.
LEMMA GoodAppend ==
  ASSUME NEW T, NEW d \in Seq(T), NEW t \in T
  PROVE  LET e == Append(d, t)
         IN  IF IsGood(d) /\ Follows(e, Len(d) + 1)
             THEN GoodLen(e) = Len(d) + 1 /\ IsGood(e)
             ELSE GoodLen(e) = GoodLen(d) /\ ~IsGood(e)
<1> DEFINE e == Append(d, t)
           n == Len(d)
           m == GoodLen(d)
<1>1. n \in Nat /\ e \in Seq(T) /\ Len(e) = n + 1
  OBVIOUS
<1>2. m \in 0..n /\ (\A i \in 1..m : Follows(d, i)) /\ (m < n => ~Follows(d, m + 1))
  BY GoodLenFits
<1>3. \A i \in 1..n : Follows(e, i) <=> Follows(d, i)
  BY FollowsAppend
<1> HIDE DEF e, n, m
<1>4. CASE m = n /\ Follows(e, n + 1)
  <2>1. \A i \in 1..(n + 1) : i \in 1..n \/ i = n + 1
    BY <1>1
  <2>2. n + 1 \in 0..Len(e) /\ (\A i \in 1..(n + 1) : Follows(e, i)) /\ ~(n + 1 < Len(e))
    BY <1>1, <1>2, <1>3, <1>4, <2>1
  <2>3. GoodLen(e) = n + 1
    BY <1>1, <2>2, GoodLenIs
  <2> QED
    BY <1>1, <1>4, <2>3 DEF IsGood, e, n, m
<1>5. CASE ~(m = n /\ Follows(e, n + 1))
  <2>1. \A i \in 1..m : Follows(e, i)
    BY <1>1, <1>2, <1>3
  <2>2. m \in 0..Len(e) /\ m # Len(e) /\ ~Follows(e, m + 1)
    <3>1. CASE m = n
      BY <1>1, <1>5, <3>1
    <3>2. CASE m # n
      <4>1. m + 1 \in 1..n /\ m < n
        BY <1>1, <1>2, <3>2
      <4> QED
        BY <1>1, <1>2, <1>3, <4>1
    <3> QED
      BY <3>1, <3>2
  <2>3. GoodLen(e) = m
    BY <1>1, <2>1, <2>2, GoodLenIs
  <2> QED
    BY <1>1, <1>5, <2>2, <2>3 DEF IsGood, e, n, m
<1> QED
  BY <1>4, <1>5

\* The reason does not change with what follows.
LEMMA WhyBadAppend ==
  ASSUME NEW T, NEW d \in Seq(T), NEW t \in T, ~IsGood(d)
  PROVE  WhyBad(Append(d, t)) = WhyBad(d)
<1> DEFINE e == Append(d, t)
           m == GoodLen(d)
<1>1. GoodLen(e) = m
  BY GoodAppend
<1>2. m \in 0..Len(d) /\ m # Len(d) /\ Len(d) \in Nat
  BY GoodLenFits DEF IsGood
<1> HIDE DEF m
<1>3. e[m + 1] = d[m + 1] /\ (m > 0 => e[m] = d[m])
  BY <1>2
<1> HIDE DEF e
<1> QED
  BY <1>1, <1>2, <1>3 DEF WhyBad, e, m

\* The object that ends at a good position is an object.
LEMMA EndedTyped ==
  ASSUME NEW d \in Seq(StreamTokens), NEW i \in 1..Len(d), Follows(d, i)
  PROVE  EndedAt(d, i) \in Seq(Objects)
<1>1. d[i] \in StreamTokens /\ (i # 1 => d[i - 1] \in StreamTokens)
  OBVIOUS
<1>2. CASE d[i].kind = "object"
  <2>1. d[i].object \in Objects
    BY <1>1, <1>2, TokenShape
  <2> QED
    BY <1>2, <2>1 DEF EndedAt
<1>3. CASE d[i].kind # "object" /\ d[i].kind = "rest"
  <2>1. i # 1 /\ d[i - 1].kind \in Opens
    BY <1>3 DEF Follows, Opens
  <2>2. d[i - 1].object \in Objects
    BY <1>1, <2>1, TokenShape
  <2> QED
    BY <1>3, <2>2 DEF EndedAt
<1>4. CASE d[i].kind # "object" /\ d[i].kind # "rest"
  BY <1>4 DEF EndedAt
<1> QED
  BY <1>2, <1>3, <1>4

\* A token ends at most one object more.
LEMMA WholeAppend ==
  ASSUME NEW d \in Seq(StreamTokens), NEW t \in StreamTokens
  PROVE  LET e == Append(d, t)
         IN  /\ Whole(d) \in Seq(Objects)
             /\ Whole(e) = IF IsGood(e) THEN Whole(d) \o EndedAt(e, Len(d) + 1) ELSE Whole(d)
<1> DEFINE e == Append(d, t)
           n == Len(d)
           m == GoodLen(d)
           f == [i \in 1..m |-> EndedAt(d, i)]
<1>1. n \in Nat /\ e \in Seq(StreamTokens) /\ Len(e) = n + 1 /\ \A i \in 1..n : e[i] = d[i]
  OBVIOUS
<1>2. m \in 0..n /\ \A i \in 1..m : Follows(d, i)
  BY GoodLenFits
<1> HIDE DEF e, n, m
<1>3. \A i \in 1..m : EndedAt(d, i) \in Seq(Objects)
  <2>1. \A i \in 1..m : i \in 1..n
    BY <1>1, <1>2
  <2> QED
    BY <1>2, <2>1, EndedTyped DEF n
<1>4. f \in [1..m -> Seq(Objects)] /\ m \in Nat
  BY <1>1, <1>2, <1>3
<1>5. \A i \in 1..m : EndedAt(e, i) = EndedAt(d, i)
  <2> SUFFICES ASSUME NEW i \in 1..m PROVE EndedAt(e, i) = EndedAt(d, i)
    OBVIOUS
  <2>1. i \in 1..n /\ (i > 1 => i - 1 \in 1..n) /\ i \in Nat
    BY <1>1, <1>2
  <2>2. d[i].kind = "rest" => i > 1
    BY <1>2 DEF Follows, Opens
  <2>3. e[i] = d[i] /\ (d[i].kind = "rest" => e[i - 1] = d[i - 1])
    BY <1>1, <2>1, <2>2
  <2> QED
    BY <2>3 DEF EndedAt
<1>6. Whole(d) = FlattenSeq(f)
  BY DEF Whole, m
<1>7. Whole(d) \in Seq(Objects)
  <2>1. f \in Seq(Seq(Objects))
    BY <1>4, FunctionIsSequence
  <2> HIDE DEF f
  <2> QED
    BY <1>6, <2>1, FlattenTyped
<1>8. CASE ~IsGood(e)
  <2>1. GoodLen(e) = m
    BY <1>8, GoodAppend DEF e, n, m
  <2>2. Whole(e) = FlattenSeq([i \in 1..m |-> EndedAt(e, i)])
    BY <2>1 DEF Whole
  <2>3. [i \in 1..m |-> EndedAt(e, i)] = f
    BY <1>5
  <2> QED
    BY <1>6, <1>7, <1>8, <2>2, <2>3 DEF e
<1>9. CASE IsGood(e)
  <2>1. GoodLen(e) = n + 1 /\ m = n
    BY <1>9, GoodAppend DEF e, n, m, IsGood
  <2> DEFINE g == [i \in 1..(n + 1) |-> EndedAt(e, i)]
  <2>2. Whole(e) = FlattenSeq(g)
    BY <2>1 DEF Whole
  <2>3. \A i \in 1..(n + 1) : EndedAt(e, i) \in Seq(Objects)
    <3>1. \A i \in 1..(n + 1) : Follows(e, i)
      BY <1>1, <2>1, GoodLenFits
    <3> QED
      BY <1>1, <3>1, EndedTyped
  <2>4. g \in [1..(n + 1) -> Seq(Objects)]
    BY <2>3
  <2>5. Agree(f, g, n)
    BY <1>1, <1>5, <2>1 DEF Agree
  <2>6. f \in [1..n -> Seq(Objects)]
    BY <1>4, <2>1
  <2>7. g[n + 1] = EndedAt(e, n + 1)
    BY <1>1
  <2> HIDE DEF f, g
  <2>8. FlattenSeq(g) = FlattenSeq(f) \o g[n + 1]
    BY <1>1, <2>4, <2>5, <2>6, FlattenExtend
  <2>9. Whole(e) = Whole(d) \o EndedAt(e, n + 1)
    BY <1>6, <2>2, <2>7, <2>8, Zenon
  <2> QED
    BY <1>7, <1>9, <2>9, Zenon DEF e, n
<1> QED
  BY <1>8, <1>9

\* No tokens are a sequence of no objects.
LEMMA NothingRead ==
  GoodLen(<<>>) = 0 /\ IsGood(<<>>) /\ ~IsCut(<<>>) /\ Whole(<<>>) = <<>>
<1>1. GoodLen(<<>>) = 0
  <2>1. <<>> \in Seq(Nat) /\ Len(<<>>) = 0 /\ 0 \in 0..Len(<<>>)
    OBVIOUS
  <2> DEFINE d == <<>>
  <2> HIDE DEF d
  <2>2. GoodLen(d) \in 0..Len(d)
    BY <2>1, GoodLenFits DEF d
  <2> QED
    BY <2>1, <2>2 DEF d
<1>2. [i \in 1..0 |-> EndedAt(<<>>, i)] = <<>>
  OBVIOUS
<1> QED
  BY <1>1, <1>2, FlattenEmpty DEF IsGood, IsCut, Whole

\* The last token of d is of one of these kinds.
LastIn(d, kinds) == d # <<>> /\ d[Len(d)].kind \in kinds

\* t means something to JSON after d.
Kept(t, d) ==
    /\ t.kind = "LF" => LastIn(d, {"string", "scalar"})
    /\ t.kind \in Text => ~LastIn(d, {"string"})

\* What the parser makes of the tokens d: p is its state and x the object it is in.
ParserAt(p, x, d) ==
    /\ p = "between" => IsGood(d) /\ ~IsCut(d) /\ (d = <<>> <=> Whole(d) = <<>>)
    /\ p \in Opens => IsGood(d) /\ IsCut(d) /\ p = d[Len(d)].kind /\ x = d[Len(d)].object
    /\ p \notin {"between"} \cup Opens => ~IsGood(d) /\ p = WhyBad(d)

\* The kinds of token have different names.
LEMMA KindsDiffer ==
  /\ \A k \in Opens : k \notin {"between", "object", "rest", "junk", "LF", "CR", "malformed"}
                      /\ k \notin Text /\ k \notin Limits
  /\ \A k \in Text : k \notin {"object", "rest", "junk", "LF", "CR"} /\ k \notin Limits
  /\ \A k \in Limits : k \notin {"between", "object", "rest", "junk", "LF", "CR"}
  BY DEF Opens, Text, Limits

\* A good sequence that does not stop inside an object stops after one.
LEMMA LastKind ==
  ASSUME NEW T, NEW d \in Seq(T), IsGood(d), d # <<>>, ~IsCut(d)
  PROVE  d[Len(d)].kind \in {"object", "rest"}
<1>1. Len(d) \in 1..Len(d)
  OBVIOUS
<1>2. Follows(d, Len(d))
  BY <1>1, GoodLenFits DEF IsGood
<1> QED
  BY <1>2 DEF Follows, IsCut

\* A token that continues the objects is a piece of one, and its long name counts.
LEMMA LongInAppend ==
  ASSUME NEW d \in Seq(StreamTokens), NEW t \in StreamTokens
  PROVE  LET e == Append(d, t)
         IN  /\ IsGood(e) => t.longName \in BOOLEAN
             /\ LongIn(e) <=> LongIn(d) \/ (IsGood(e) /\ t.longName)
<1> DEFINE e == Append(d, t)
           n == Len(d)
<1>1. n \in Nat /\ e \in Seq(StreamTokens) /\ e[n + 1] = t /\ \A i \in 1..n : e[i] = d[i]
  OBVIOUS
<1>2. IF IsGood(d) /\ Follows(e, n + 1) THEN GoodLen(e) = n + 1 /\ IsGood(e)
                                       ELSE GoodLen(e) = GoodLen(d) /\ ~IsGood(e)
  BY GoodAppend
<1>3. GoodLen(d) \in 0..n
  BY GoodLenFits
<1>4. Follows(e, n + 1) => t.kind \in {"object", "rest"} \cup Opens
  BY <1>1 DEF Follows
<1>5. IsGood(e) => t.longName \in BOOLEAN
  BY <1>2, <1>4, TokenShape
<1> HIDE DEF e, n
<1>6. CASE IsGood(e)
  <2>1. GoodLen(d) = n /\ GoodLen(e) = n + 1
    BY <1>2, <1>6 DEF IsGood, n
  <2>2. \A i : i \in 1..(n + 1) <=> i \in 1..n \/ i = n + 1
    BY <1>1
  <2> QED
    BY <1>1, <1>5, <1>6, <2>1, <2>2 DEF LongIn, e
<1>7. CASE ~IsGood(e)
  <2>1. \A i \in 1..GoodLen(d) : i \in 1..n
    BY <1>1, <1>3
  <2> QED
    BY <1>1, <1>2, <1>5, <1>7, <2>1 DEF LongIn, e
<1> QED
  BY <1>6, <1>7

\* What means nothing to JSON changes nothing.
LEMMA ParseDropped ==
  ASSUME NEW b, NEW d, ParserAt(b.parser, b.opened, d), NEW t, ~Kept(t, d)
  PROVE  parse(b, t) = b
<1>1. CASE b.parser \notin {"between"} \cup Opens
  BY <1>1 DEF parse
<1>2. CASE b.parser \in {"between"} \cup Opens
  <2>1. IF b.parser = "between" THEN ~IsCut(d) ELSE IsCut(d) /\ b.parser = d[Len(d)].kind
    BY <1>2 DEF ParserAt
  <2>2. CASE t.kind = "LF" /\ ~LastIn(d, {"string", "scalar"})
    <3>1. b.parser \in {"between", "open"}
      BY <1>2, <2>1, <2>2 DEF IsCut, LastIn, Opens
    <3> QED
      BY <2>2, <3>1, KindsDiffer DEF parse
  <2>3. CASE t.kind \in Text /\ LastIn(d, {"string"})
    <3>1. b.parser = "string" /\ t.kind # "LF"
      BY <1>2, <2>1, <2>3 DEF IsCut, LastIn, Opens, Text
    <3> QED
      BY <2>3, <3>1, KindsDiffer DEF parse, Opens
  <2> QED
    BY <2>2, <2>3 DEF Kept
<1> QED
  BY <1>1, <1>2

\* jsonFields.byte: a token that means something ends an object, or none, and
\* a long name in it is remembered.
LEMMA ParseStep ==
  ASSUME NEW b \in Body, NEW d \in Seq(StreamTokens), ParserAt(b.parser, b.opened, d),
         b.keySkipped <=> LongIn(d), NEW t \in StreamTokens, Kept(t, d)
  PROVE  LET e == Append(d, t)
         IN  \E p, x, k :
                /\ k \in BOOLEAN /\ (k <=> LongIn(e)) /\ ParserAt(p, x, e)
                /\ LET a == [b EXCEPT !.parser = p, !.opened = x, !.keySkipped = k]
                   IN  \/ Whole(e) = Whole(d) /\ parse(b, t) = a
                       \/ \E o \in Objects : /\ Whole(e) = Append(Whole(d), o)
                                             /\ p = "between" /\ x = Nil
                                             /\ parse(b, t) = emitted(a, o)
<1> DEFINE e == Append(d, t)
           n == Len(d)
           A(p, x, k) == [b EXCEPT !.parser = p, !.opened = x, !.keySkipped = k]
           long == b.keySkipped \/ t.longName
           F == Follows(e, n + 1)
           Q(p, x, k) ==
               /\ k \in BOOLEAN /\ (k <=> LongIn(e)) /\ ParserAt(p, x, e)
               /\ \/ Whole(e) = Whole(d) /\ parse(b, t) = A(p, x, k)
                  \/ \E o \in Objects : /\ Whole(e) = Append(Whole(d), o)
                                        /\ p = "between" /\ x = Nil
                                        /\ parse(b, t) = emitted(A(p, x, k), o)
<1> SUFFICES \E p, x, k : Q(p, x, k)
  BY Zenon
<1>1. /\ n \in Nat /\ e \in Seq(StreamTokens) /\ Len(e) = n + 1 /\ e[n + 1] = t /\ e # <<>>
      /\ \A i \in 1..n : e[i] = d[i]
      /\ (d = <<>> <=> n = 0)
  OBVIOUS
<1>2. IF IsGood(d) /\ F THEN GoodLen(e) = n + 1 /\ IsGood(e)
                        ELSE GoodLen(e) = GoodLen(d) /\ ~IsGood(e)
  BY GoodAppend
<1>3. /\ Whole(d) \in Seq(Objects)
      /\ Whole(e) = IF IsGood(e) THEN Whole(d) \o EndedAt(e, n + 1) ELSE Whole(d)
  BY WholeAppend
<1>4. F <=> \/ t.kind \in {"object"} \cup Opens /\ (d = <<>> \/ d[n].kind \in {"object", "rest"})
            \/ t.kind = "rest" /\ d # <<>> /\ d[n].kind \in Opens
  BY FollowsAppend
<1>5. IsCut(e) <=> t.kind \in Opens
  BY <1>1 DEF IsCut
<1>6. ~IsGood(d) => WhyBad(e) = WhyBad(d)
  BY WhyBadAppend
<1>7. /\ IsGood(e) => long \in BOOLEAN /\ (long <=> LongIn(e))
      /\ ~IsGood(e) => (b.keySkipped <=> LongIn(e))
      /\ b.keySkipped \in BOOLEAN
  <2>1. b.keySkipped \in BOOLEAN
    BY DEF Body, BodyRecord
  <2> QED
    BY <2>1, LongInAppend
<1> HIDE DEF e, n, F, long
<1>8. \A o : Whole(d) \o <<o>> = Append(Whole(d), o)
  BY <1>3
<1>9. ASSUME NEW o \in Objects, IsGood(e), EndedAt(e, n + 1) = <<o>>, t.kind \notin Opens
      PROVE  Whole(e) = Append(Whole(d), o) /\ ParserAt("between", Nil, e)
  <2>1. Whole(e) = Append(Whole(d), o)
    BY <1>3, <1>8, <1>9
  <2>2. Append(Whole(d), o) # <<>>
    BY <1>3
  <2> QED
    BY <1>1, <1>5, <1>9, <2>1, <2>2, KindsDiffer DEF ParserAt
<1>10. CASE b.parser \notin {"between"} \cup Opens
  <2>1. parse(b, t) = b
    BY <1>10 DEF parse
  <2>2. b = A(b.parser, b.opened, b.keySkipped)
    BY DEF Body, BodyRecord
  <2>3. ~IsGood(d) /\ b.parser = WhyBad(d)
    BY <1>10 DEF ParserAt
  <2>4. Whole(e) = Whole(d) /\ ParserAt(b.parser, b.opened, e) /\ (b.keySkipped <=> LongIn(e))
    BY <1>2, <1>3, <1>6, <1>7, <1>10, <2>3 DEF ParserAt
  <2>5. parse(b, t) = A(b.parser, b.opened, b.keySkipped)
    BY <2>1, <2>2
  <2>6. Q(b.parser, b.opened, b.keySkipped)
    BY <1>7, <2>4, <2>5, Zenon
  <2> HIDE DEF Q
  <2> QED
    BY <2>6
<1>11. ASSUME IsGood(d), ~F, NEW p, p \notin {"between"} \cup Opens, p = WhyBad(e),
              parse(b, t) = [b EXCEPT !.parser = p]
       PROVE  \E q, x, k : Q(q, x, k)
  <2>1. Whole(e) = Whole(d) /\ ParserAt(p, b.opened, e) /\ (b.keySkipped <=> LongIn(e))
    BY <1>2, <1>3, <1>7, <1>11 DEF ParserAt
  <2>2. parse(b, t) = A(p, b.opened, b.keySkipped)
    BY <1>11 DEF Body, BodyRecord
  <2>3. Q(p, b.opened, b.keySkipped)
    BY <1>7, <2>1, <2>2
  <2> QED
    BY <2>3
<1>12. IsGood(d) /\ ~F => WhyBad(e) = IF t.kind \in Limits /\ n > 0 /\ d[n].kind \in Opens
                                     THEN t.kind ELSE "malformed"
  <2> SUFFICES ASSUME IsGood(d), ~F
               PROVE  WhyBad(e) = IF t.kind \in Limits /\ n > 0 /\ d[n].kind \in Opens
                                  THEN t.kind ELSE "malformed"
    OBVIOUS
  <2>1. GoodLen(e) = n
    BY <1>2 DEF IsGood, n
  <2>2. n > 0 => e[n] = d[n]
    BY <1>1
  <2> QED
    BY <1>1, <2>1, <2>2 DEF WhyBad
<1>13. CASE b.parser = "between"
  <2>1. IsGood(d) /\ ~IsCut(d)
    BY <1>13 DEF ParserAt
  <2>2. d # <<>> => d[n].kind \in {"object", "rest"}
    BY <2>1, LastKind DEF n
  <2>3. CASE t.kind = "object"
    <3>1. F /\ IsGood(e)
      BY <1>2, <1>4, <2>1, <2>2, <2>3
    <3>2. EndedAt(e, n + 1) = <<t.object>> /\ t.object \in Objects
      BY <1>1, <2>3, TokenShape DEF EndedAt
    <3>3. parse(b, t) = emitted(A("between", Nil, long), t.object)
      <4>1. parse(b, t) = emitted([[b EXCEPT !.keySkipped = @ \/ t.longName]
                                      EXCEPT !.parser = "between", !.opened = Nil], t.object)
        BY <1>13, <2>3, KindsDiffer DEF parse
      <4>2. [[b EXCEPT !.keySkipped = @ \/ t.longName] EXCEPT !.parser = "between", !.opened = Nil]
               = A("between", Nil, long)
        BY DEF Body, BodyRecord, long
      <4> QED
        BY <4>1, <4>2
    <3>4. Whole(e) = Append(Whole(d), t.object) /\ ParserAt("between", Nil, e)
      BY <1>9, <2>3, <3>1, <3>2, KindsDiffer
    <3>5. Q("between", Nil, long)
      BY <1>7, <3>1, <3>2, <3>3, <3>4
    <3> QED
      BY <3>5
  <2>4. CASE t.kind \in Opens
    <3>1. F /\ IsGood(e)
      BY <1>2, <1>4, <2>1, <2>2, <2>4
    <3>2. EndedAt(e, n + 1) = <<>>
      BY <1>1, <2>4, KindsDiffer DEF EndedAt
    <3>3. parse(b, t) = A(t.kind, t.object, long)
      <4>1. parse(b, t) = [[b EXCEPT !.keySkipped = @ \/ t.longName]
                              EXCEPT !.parser = t.kind, !.opened = t.object]
        BY <1>13, <2>4, KindsDiffer DEF parse
      <4>2. [[b EXCEPT !.keySkipped = @ \/ t.longName] EXCEPT !.parser = t.kind, !.opened = t.object]
               = A(t.kind, t.object, long)
        BY DEF Body, BodyRecord, long
      <4> QED
        BY <4>1, <4>2
    <3>4. Whole(e) = Whole(d)
      BY <1>3, <3>1, <3>2
    <3>5. ParserAt(t.kind, t.object, e)
      BY <1>1, <1>5, <2>4, <3>1, KindsDiffer DEF ParserAt
    <3>6. Q(t.kind, t.object, long)
      BY <1>7, <3>1, <3>3, <3>4, <3>5, Zenon
    <3> HIDE DEF Q
    <3> QED
      BY <3>6
  <2>5. CASE t.kind \notin {"object"} \cup Opens
    <3>1. ~F
      BY <1>1, <1>4, <2>2, <2>5, KindsDiffer
    <3>2. WhyBad(e) = "malformed"
      BY <1>1, <1>12, <2>1, <2>2, <3>1, KindsDiffer
    <3>3. t.kind # "LF"
      BY <2>1 DEF Kept, LastIn, IsCut, Opens
    <3>4. parse(b, t) = [b EXCEPT !.parser = "malformed"]
      BY <1>13, <2>5, <3>3, KindsDiffer DEF parse
    <3>5. "malformed" \notin {"between"} \cup Opens
      BY KindsDiffer
    <3> QED
      BY <1>11, <2>1, <3>1, <3>2, <3>4, <3>5
  <2> QED
    BY <2>3, <2>4, <2>5
<1>14. CASE b.parser \in Opens
  <2>1. IsGood(d) /\ d # <<>> /\ d[n].kind \in Opens /\ b.opened = d[n].object /\ b.parser = d[n].kind
    BY <1>14 DEF ParserAt, IsCut, n
  <2>2. CASE t.kind = "rest"
    <3>1. F /\ IsGood(e)
      BY <1>2, <1>4, <2>1, <2>2
    <3>2. e[n] = d[n] /\ (n + 1) - 1 = n
      BY <1>1, <2>1
    <3>3. EndedAt(e, n + 1) = <<b.opened>> /\ b.opened \in Objects
      BY <1>1, <1>14, <2>1, <2>2, <3>2 DEF EndedAt, Body
    <3>4. parse(b, t) = emitted(A("between", Nil, long), b.opened)
      <4>1. parse(b, t) = emitted([[b EXCEPT !.keySkipped = @ \/ t.longName]
                                      EXCEPT !.parser = "between", !.opened = Nil], b.opened)
        BY <1>14, <2>2, KindsDiffer DEF parse
      <4>2. [[b EXCEPT !.keySkipped = @ \/ t.longName] EXCEPT !.parser = "between", !.opened = Nil]
               = A("between", Nil, long)
        BY DEF Body, BodyRecord, long
      <4> QED
        BY <4>1, <4>2
    <3>5. Whole(e) = Append(Whole(d), b.opened) /\ ParserAt("between", Nil, e)
      BY <1>9, <2>2, <3>1, <3>3, KindsDiffer
    <3>6. Q("between", Nil, long)
      BY <1>7, <3>1, <3>3, <3>4, <3>5
    <3> QED
      BY <3>6
  <2>3. CASE t.kind # "rest"
    <3>1. ~F
      BY <1>4, <2>1, <2>3, KindsDiffer
    <3>2. WhyBad(e) = IF t.kind \in Limits THEN t.kind ELSE "malformed"
      BY <1>1, <1>12, <2>1, <3>1
    <3>3. parse(b, t) = [b EXCEPT !.parser = WhyBad(e)]
      <4>1. ~(t.kind = "LF" /\ b.parser \in {"between", "open"}) /\ ~(t.kind \in Text /\ b.parser = "string")
        BY <2>1 DEF Kept, LastIn, n, Opens
      <4> QED
        BY <1>14, <2>3, <3>2, <4>1, KindsDiffer DEF parse
    <3>4. WhyBad(e) \notin {"between"} \cup Opens
      BY <3>2, KindsDiffer
    <3> DEFINE p == WhyBad(e)
    <3> HIDE DEF p
    <3> QED
      BY <1>11, <2>1, <3>1, <3>3, <3>4 DEF p
  <2> QED
    BY <2>2, <2>3
<1> QED
  BY <1>10, <1>13, <1>14

-----------------------------------------------------------------------------
(* The merged fields *)

\* v is the last value given in values, Nil if there is none.
Given(values, v) ==
    \/ v = Nil /\ \A i \in DOMAIN values : values[i] = Nil
    \/ \E i \in DOMAIN values : /\ values[i] = v /\ v # Nil
                                /\ \A j \in DOMAIN values : j > i => values[j] = Nil

\* Given describes LastGiven.
LEMMA GivenIsLast ==
  ASSUME NEW n \in Nat, NEW values, DOMAIN values = 1..n, NEW v, Given(values, v)
  PROVE  LastGiven(values) = v
<1>1. CASE \A i \in DOMAIN values : values[i] = Nil
  BY <1>1 DEF Given, LastGiven
<1>2. CASE ~(\A i \in DOMAIN values : values[i] = Nil)
  <2> DEFINE P(i) == values[i] # Nil /\ \A j \in DOMAIN values : j > i => values[j] = Nil
  <2>1. PICK i \in DOMAIN values : P(i) /\ values[i] = v
    BY <1>2 DEF Given
  <2>2. ASSUME NEW j \in DOMAIN values, P(j) PROVE j = i
    BY <2>1, <2>2
  <2>3. LastGiven(values) = values[CHOOSE j \in DOMAIN values : P(j)]
    BY <1>2, Zenon DEF LastGiven
  <2> HIDE DEF P
  <2>4. (CHOOSE j \in DOMAIN values : P(j)) = i
    BY <2>1, <2>2
  <2> QED
    BY <2>1, <2>3, <2>4
<1> QED
  BY <1>1, <1>2

\* One value more replaces the last one given unless it is Nil.
LEMMA GivenMore ==
  ASSUME NEW n \in Nat, NEW f, NEW g, DOMAIN f = 1..n, DOMAIN g = 1..(n + 1), Agree(f, g, n),
         NEW v, Given(f, v)
  PROVE  Given(g, IF g[n + 1] = Nil THEN v ELSE g[n + 1])
<1>1. n + 1 \in DOMAIN g /\ \A j \in DOMAIN g : j \in 1..n \/ j = n + 1
  OBVIOUS
<1>2. \A j \in 1..n : g[j] = f[j] /\ j \in DOMAIN g /\ j \in DOMAIN f /\ j <= n
  BY DEF Agree
<1>3. CASE g[n + 1] # Nil
  <2>1. \A j \in DOMAIN g : ~(j > n + 1)
    OBVIOUS
  <2> QED
    BY <1>1, <1>3, <2>1 DEF Given
<1>4. CASE g[n + 1] = Nil
  <2>1. CASE v = Nil /\ \A i \in DOMAIN f : f[i] = Nil
    BY <1>1, <1>2, <1>4, <2>1 DEF Given
  <2>2. CASE \E i \in DOMAIN f : /\ f[i] = v /\ v # Nil
                                 /\ \A j \in DOMAIN f : j > i => f[j] = Nil
    <3>1. PICK i \in 1..n : /\ f[i] = v /\ v # Nil
                            /\ \A j \in 1..n : j > i => f[j] = Nil
      BY <2>2
    <3>2. i \in DOMAIN g /\ g[i] = v /\ \A j \in DOMAIN g : j > i => g[j] = Nil
      BY <1>1, <1>2, <1>4, <3>1
    <3> QED
      BY <1>4, <3>1, <3>2 DEF Given
  <2> QED
    BY <2>1, <2>2 DEF Given
<1> QED
  BY <1>3, <1>4

\* s holds the last fields that objects gave.
SampleOf(s, objects) ==
    /\ s \in Samples
    /\ Given([i \in DOMAIN objects |-> objects[i].done], s.done)
    /\ \A k \in UsageKeys : Given([i \in DOMAIN objects |-> objects[i].usage[k]], s.usage[k])

\* SampleOf describes Merged.
LEMMA SampleIsMerged ==
  ASSUME NEW T, NEW objects \in Seq(T), NEW s, SampleOf(s, objects)
  PROVE  s = Merged(objects)
<1> DEFINE f == [i \in DOMAIN objects |-> objects[i].done]
           g(k) == [i \in DOMAIN objects |-> objects[i].usage[k]]
<1>1. /\ Len(objects) \in Nat /\ DOMAIN f = 1..Len(objects)
      /\ \A k : DOMAIN g(k) = 1..Len(objects)
  OBVIOUS
<1>2. Given(f, s.done) /\ \A k \in UsageKeys : Given(g(k), s.usage[k])
  BY Zenon DEF SampleOf
<1>3. Merged(objects) = [done |-> LastGiven(f), usage |-> [k \in UsageKeys |-> LastGiven(g(k))]]
  BY Zenon DEF Merged
<1> HIDE DEF f, g
<1>4. LastGiven(f) = s.done /\ \A k \in UsageKeys : LastGiven(g(k)) = s.usage[k]
  BY <1>1, <1>2, GivenIsLast
<1>5. s = [done |-> s.done, usage |-> s.usage] /\ s.usage = [k \in UsageKeys |-> s.usage[k]]
  BY DEF SampleOf, Samples
<1>6. [k \in UsageKeys |-> LastGiven(g(k))] = s.usage
  BY <1>4, <1>5
<1> QED
  BY <1>3, <1>4, <1>5, <1>6

\* No objects give no fields.
LEMMA NoSample == SampleOf(NoFields, <<>>)
<1>1. /\ NoFields \in Samples /\ NoFields.done = Nil /\ DOMAIN <<>> = {}
      /\ \A k \in UsageKeys : NoFields.usage[k] = Nil
  BY DEF NoFields, Samples, Values
<1> QED
  BY <1>1 DEF SampleOf, Given

\* merge without an error.
LEMMA MergeSample ==
  ASSUME NEW b \in Body, NEW objects \in Seq(Objects), SampleOf(b.sample, objects),
         NEW o \in Objects, ~o.error
  PROVE  SampleOf(merge(b, o).sample, Append(objects, o))
<1> DEFINE n == Len(objects)
           more == Append(objects, o)
           s == merge(b, o).sample
           f1 == [i \in DOMAIN objects |-> objects[i].done]
           f2 == [i \in DOMAIN more |-> more[i].done]
           g1(k) == [i \in DOMAIN objects |-> objects[i].usage[k]]
           g2(k) == [i \in DOMAIN more |-> more[i].usage[k]]
<1>1. /\ n \in Nat /\ DOMAIN objects = 1..n /\ DOMAIN more = 1..(n + 1) /\ more[n + 1] = o
      /\ \A i \in 1..n : more[i] = objects[i]
  OBVIOUS
<1>2. /\ s.done = IF o.done = Nil THEN b.sample.done ELSE o.done
      /\ \A k \in UsageKeys :
            s.usage[k] = IF o.usage[k] = Nil THEN b.sample.usage[k] ELSE o.usage[k]
  BY DEF merge, Body, BodyRecord
<1>3. s \in Samples
  BY MergeBody DEF Body, BodyRecord
<1> HIDE DEF n, more, s
<1>4. /\ DOMAIN f1 = 1..n /\ DOMAIN f2 = 1..(n + 1) /\ f2[n + 1] = o.done /\ Agree(f1, f2, n)
      /\ \A k : /\ DOMAIN g1(k) = 1..n /\ DOMAIN g2(k) = 1..(n + 1)
                /\ g2(k)[n + 1] = o.usage[k] /\ Agree(g1(k), g2(k), n)
  BY <1>1 DEF Agree
<1>5. Given(f1, b.sample.done) /\ \A k \in UsageKeys : Given(g1(k), b.sample.usage[k])
  BY Zenon DEF SampleOf
<1> HIDE DEF f1, f2, g1, g2
<1>6. Given(f2, s.done)
  BY <1>1, <1>2, <1>4, <1>5, GivenMore
<1>7. ASSUME NEW k \in UsageKeys
      PROVE  Given(g2(k), s.usage[k])
  <2> DEFINE f == g1(k)
             g == g2(k)
  <2>1. /\ DOMAIN f = 1..n /\ DOMAIN g = 1..(n + 1) /\ g[n + 1] = o.usage[k] /\ Agree(f, g, n)
        /\ Given(f, b.sample.usage[k])
    BY <1>4, <1>5
  <2> HIDE DEF f, g
  <2>2. Given(g, IF g[n + 1] = Nil THEN b.sample.usage[k] ELSE g[n + 1])
    BY <1>1, <2>1, GivenMore
  <2> QED
    BY <1>2, <2>1, <2>2 DEF g
<1> QED
  BY <1>3, <1>6, <1>7, Zenon DEF SampleOf, f2, g2, s, more

\* What an object adds to what is known of the objects before it.
LEMMA HasMore ==
  ASSUME NEW objects \in Seq(Objects), NEW o \in Objects
  PROVE  /\ HasError(Append(objects, o)) <=> HasError(objects) \/ o.error
         /\ HasEnd(Append(objects, o)) <=> HasEnd(objects) \/ o.done = TRUE \/ o.stop
<1> DEFINE n == Len(objects)
           more == Append(objects, o)
<1>1. /\ n \in Nat /\ DOMAIN objects = 1..n /\ DOMAIN more = 1..(n + 1) /\ more[n + 1] = o
      /\ \A i \in 1..n : more[i] = objects[i]
  OBVIOUS
<1>2. n + 1 \in DOMAIN more /\ (\A i \in DOMAIN more : i \in DOMAIN objects \/ i = n + 1)
      /\ \A i \in DOMAIN objects : i \in DOMAIN more
  BY <1>1
<1> HIDE DEF n, more
<1>3. HasError(more) <=> HasError(objects) \/ o.error
  BY <1>1, <1>2 DEF HasError
<1>4. HasEnd(more) <=> HasEnd(objects) \/ o.done = TRUE \/ o.stop
  BY <1>1, <1>2 DEF HasEnd
<1> QED
  BY <1>3, <1>4 DEF more

\* No objects have no error and no end, and no tokens no long name.
LEMMA HasNone == ~HasError(<<>>) /\ ~HasEnd(<<>>) /\ ~LongIn(<<>>)
<1>1. DOMAIN <<>> = {}
  OBVIOUS
<1> QED
  BY <1>1, NothingRead DEF HasError, HasEnd, LongIn

-----------------------------------------------------------------------------
(* What the observer knows: of a body that is not an event stream, *)

\* What the observer knows after the content d.
PlainAt(b, d) ==
    LET os == Whole(d)
    IN  /\ ParserAt(b.parser, b.opened, d)
        /\ b.failed <=> HasError(os)
        /\ b.failed => b.failure = "upstream_error"
        /\ ~b.failed => b.failure = Nil /\ SampleOf(b.sample, os)
        /\ b.seen <=> os # <<>>
        /\ b.terminal => b.seen
        /\ b.keySkipped <=> LongIn(d)
        /\ b.notices = 1 => b.keySkipped

-----------------------------------------------------------------------------
(* and of an event stream *)

\* What the observer knows of the event it is in, d being its data so far.
EventAt(b, d) ==
    /\ b.marker # Nil =>
           /\ d # <<>> /\ d[1].kind = "DONE" /\ (b.marker = "done" <=> Len(d) = 1)
           /\ b.parser = "between" /\ b.eventFields = Nil
    /\ b.marker = Nil =>
           /\ ParserAt(b.parser, b.opened, d)
           /\ d # <<>> => d[1].kind # "DONE"
           /\ b.eventFields = IF Whole(d) = <<>> THEN Nil ELSE Whole(d)[Len(Whole(d))]
    /\ b.keySkipped <=> LongIn(d)

\* The events of u that end at positions ends and fail.
Failing(u, ends) == {i \in ends : EventFailure(Data(u, i)) # Nil}

\* What the observer knows of the events of u that end at positions ends, os
\* being their objects and d the data of the event it is in.
EventsAt(b, u, ends, os, d) ==
    /\ b.failed <=> Failing(u, ends) # {} \/ Len(Whole(d)) > 1
    /\ b.failed =>
           \/ Failing(u, ends) = {} /\ b.failure = "malformed"
           \/ \E i \in Failing(u, ends) : /\ \A j \in Failing(u, ends) : i <= j
                                          /\ b.failure = EventFailure(Data(u, i))
    /\ ~b.failed =>
           /\ b.failure = Nil /\ SampleOf(b.sample, os)
           /\ b.terminal <=> \E i \in ends : IsDone(Data(u, i)) \/ HasEnd(Whole(Data(u, i)))
    /\ (\E i \in ends : LongIn(Data(u, i))) => b.notices = 1
    /\ b.notices = 1 => (\E i \in ends : LongIn(Data(u, i))) \/ LongIn(d)

LineAt(u) ==
    IF Begins(u, Len(u) + 1) THEN "fresh"
    ELSE IF OnDataLine(u, Len(u) + 1) THEN "data" ELSE "other"

Blanks(u) == {i \in DOMAIN u : BlankAt(u, i)}

StreamAt(b, u) ==
    /\ b.line = LineAt(u)
    /\ EventAt(b, Data(u, Len(u) + 1))
    /\ EventsAt(b, u, Blanks(u), Past(u), Data(u, Len(u) + 1))

\* A line end after CR is still to be acted on.
AfterCR(in) == in # <<>> /\ in[Len(in)].kind = "CR"

InStream(b, in) ==
    /\ b.pendingCR <=> AfterCR(in)
    /\ AfterCR(in) => \E u \in Seq(StreamTokens) : /\ Unified(in) = Append(u, Mark("LF"))
                                                   /\ StreamAt(b, u)
    /\ ~AfterCR(in) => StreamAt(b, Unified(in))

\* What the observer knows while it reads.
Observed == IF sse THEN InStream(BodyState, input) ELSE PlainAt(BodyState, Content(input))
-----------------------------------------------------------------------------
(* Plain bodies *)

\* Whether a position is inside a string depends on what comes before it.
LEMMA InStringAppend ==
  ASSUME NEW T, NEW s \in Seq(T), NEW t \in T
  PROVE  /\ \A i \in 1..(Len(s) + 1) : InString(Append(s, t), i) <=> InString(s, i)
         /\ InString(Append(s, t), Len(s) + 2) <=>
               t.kind = "string" \/ (t.kind \in Text /\ InString(s, Len(s) + 1))
<1> DEFINE n == Len(s)
           r == Append(s, t)
<1>1. n \in Nat /\ r[n + 1] = t /\ \A i \in 1..n : r[i] = s[i]
  OBVIOUS
<1> HIDE DEF n, r
<1>2. ASSUME NEW i \in 1..(n + 1)
      PROVE  InString(r, i) <=> InString(s, i)
  <2>1. \A k \in 1..(i - 1) : r[k] = s[k] /\ \A m \in (k + 1)..(i - 1) : r[m] = s[m]
    BY <1>1
  <2> QED
    BY <2>1 DEF InString
<1>3. InString(r, n + 2) <=> t.kind = "string" \/ (t.kind \in Text /\ InString(s, n + 1))
  <2>1. (n + 2) - 1 = n + 1 /\ (n + 1) - 1 = n
    BY <1>1
  <2>2. ASSUME t.kind = "string" PROVE InString(r, n + 2)
    <3>1. n + 1 \in 1..(n + 1) /\ \A m \in ((n + 1) + 1)..(n + 1) : FALSE
      BY <1>1
    <3> QED
      BY <1>1, <2>1, <2>2, <3>1 DEF InString
  <2>3. ASSUME t.kind \in Text, InString(s, n + 1) PROVE InString(r, n + 2)
    <3>1. PICK k \in 1..n : s[k].kind = "string" /\ \A m \in (k + 1)..n : s[m].kind \in Text
      BY <2>1, <2>3 DEF InString
    <3>2. k \in 1..(n + 1) /\ r[k].kind = "string"
      BY <1>1, <3>1
    <3>3. \A m \in (k + 1)..(n + 1) : m = n + 1 \/ (m \in (k + 1)..n /\ m \in 1..n)
      BY <1>1
    <3>4. \A m \in (k + 1)..(n + 1) : r[m].kind \in Text
      BY <1>1, <2>3, <3>1, <3>3
    <3> QED
      BY <2>1, <3>2, <3>4 DEF InString
  <2>4. ASSUME InString(r, n + 2), t.kind # "string"
        PROVE  t.kind \in Text /\ InString(s, n + 1)
    <3>1. PICK k \in 1..(n + 1) : r[k].kind = "string" /\ \A m \in (k + 1)..(n + 1) : r[m].kind \in Text
      BY <2>1, <2>4 DEF InString
    <3>2. k \in 1..n
      BY <1>1, <2>4, <3>1
    <3>3. n + 1 \in (k + 1)..(n + 1) /\ \A m \in (k + 1)..n : m \in (k + 1)..(n + 1) /\ m \in 1..n
      BY <1>1, <3>2
    <3>4. s[k].kind = "string" /\ \A m \in (k + 1)..n : s[m].kind \in Text
      BY <1>1, <3>1, <3>2, <3>3
    <3> QED
      BY <1>1, <2>1, <3>1, <3>2, <3>3, <3>4 DEF InString
  <2> QED
    BY <2>2, <2>3, <2>4
<1> QED
  BY <1>2, <1>3 DEF n, r

\* t adds to the content of s.
Adds(s, t) ==
    /\ t.kind = "LF" => InString(s, Len(s) + 1) \/ LastIn(s, {"scalar"})
    /\ t.kind \in Text => ~InString(s, Len(s) + 1)

\* What a token adds to the content.
LEMMA ContentGrows ==
  ASSUME NEW s \in Seq(StreamTokens), NEW t \in StreamTokens
  PROVE  /\ Content(s) \in Seq(StreamTokens)
         /\ Content(Append(s, t)) = IF Adds(s, t) THEN Append(Content(s), t) ELSE Content(s)
<1> DEFINE more == Append(s, t)
           n == Len(s)
           P(r, i) == /\ r[i].kind = "LF" => InString(r, i) \/ (i > 1 /\ r[i - 1].kind = "scalar")
                      /\ r[i].kind \in Text => ~InString(r, i)
           ps == {i \in DOMAIN s : P(s, i)}
           qs == {i \in DOMAIN more : P(more, i)}
<1>1. /\ n \in Nat /\ DOMAIN s = 1..n /\ DOMAIN more = 1..(n + 1) /\ more[n + 1] = t
      /\ \A i \in 1..n : more[i] = s[i]
      /\ s # <<>> <=> n > 0
  OBVIOUS
<1>2. \A i \in 1..(n + 1) : InString(more, i) <=> InString(s, i)
  BY InStringAppend
<1> HIDE DEF more, n
<1>3. Same(ps, qs, n)
  <2>1. ASSUME NEW i \in 1..n PROVE P(s, i) <=> P(more, i)
    <3>1. more[i] = s[i] /\ (i > 1 => more[i - 1] = s[i - 1]) /\ i \in 1..(n + 1)
      BY <1>1
    <3> QED
      BY <1>2, <3>1
  <2>2. \A i \in 1..n : i \in DOMAIN s /\ i \in DOMAIN more
    BY <1>1
  <2> HIDE DEF P
  <2> QED
    BY <2>1, <2>2 DEF Same
<1>4. n + 1 \in qs <=> Adds(s, t)
  <2>1. n + 1 \in DOMAIN more /\ n + 1 \in 1..(n + 1) /\ (n + 1) - 1 = n
    BY <1>1
  <2>2. n + 1 > 1 /\ more[n].kind = "scalar" <=> LastIn(s, {"scalar"})
    BY <1>1 DEF LastIn, n
  <2>3. P(more, n + 1) <=> Adds(s, t)
    BY <1>1, <1>2, <2>1, <2>2 DEF Adds, n
  <2> HIDE DEF P
  <2> QED
    BY <2>1, <2>3
<1>5. At(s, ps) = Content(s) /\ At(more, qs) = Content(more)
  BY Zenon DEF Content, ps, qs, P
<1> HIDE DEF ps, qs, P
<1>6. /\ At(more, qs) = At(s, ps) \o (IF n + 1 \in qs THEN <<t>> ELSE <<>>)
      /\ At(s, ps) \in Seq(StreamTokens)
  BY <1>3, AtAppend DEF more, n
<1>7. Content(s) \o <<t>> = Append(Content(s), t) /\ Content(s) \o <<>> = Content(s)
  BY <1>5, <1>6
<1> QED
  BY <1>4, <1>5, <1>6, <1>7, Zenon DEF more

\* Nothing has no content.
LEMMA ContentNothing == Content(<<>>) = <<>>
  BY AtNothing DEF Content

\* The content stops where the tokens do: inside a string, inside a number, or not.
LEMMA ContentStops ==
  ASSUME NEW s \in Seq(StreamTokens)
  PROVE  /\ InString(s, Len(s) + 1) <=> LastIn(Content(s), {"string"})
         /\ LastIn(s, {"scalar"}) <=> LastIn(Content(s), {"scalar"})
<1> DEFINE P(r) == /\ InString(r, Len(r) + 1) <=> LastIn(Content(r), {"string"})
                   /\ LastIn(r, {"scalar"}) <=> LastIn(Content(r), {"scalar"})
           S == {m \in Nat : \A r \in Seq(StreamTokens) : Len(r) = m => P(r)}
<1>1. 0 \in S
  <2> SUFFICES ASSUME NEW r \in Seq(StreamTokens), Len(r) = 0 PROVE P(r)
    OBVIOUS
  <2>1. r = <<>> /\ \A k \in 1..((Len(r) + 1) - 1) : FALSE
    OBVIOUS
  <2> QED
    BY <2>1, ContentNothing DEF InString, LastIn
<1>2. ASSUME NEW m \in Nat, m \in S
      PROVE  m + 1 \in S
  <2> SUFFICES ASSUME NEW r \in Seq(StreamTokens), Len(r) = m + 1 PROVE P(r)
    OBVIOUS
  <2> DEFINE q == SubSeq(r, 1, m)
             t == r[m + 1]
             c == Content(q)
  <2>1. q \in Seq(StreamTokens) /\ Len(q) = m /\ t \in StreamTokens
    BY <1>2
  <2>2. r = Append(q, t)
    <3>1. /\ Append(q, t) \in Seq(StreamTokens) /\ Len(Append(q, t)) = m + 1
          /\ \A i \in 1..(m + 1) : Append(q, t)[i] = r[i]
      BY <1>2
    <3> QED
      BY <3>1, SeqEqual
  <2>3. P(q)
    BY <1>2, <2>1
  <2> HIDE DEF q, t
  <2>4. InString(r, m + 2) <=> t.kind = "string" \/ (t.kind \in Text /\ InString(q, m + 1))
    BY <2>1, <2>2, InStringAppend
  <2>5. c \in Seq(StreamTokens) /\ Content(r) = IF Adds(q, t) THEN Append(c, t) ELSE c
    BY <2>1, <2>2, ContentGrows
  <2> HIDE DEF c
  <2>6. \A ks : LastIn(Append(c, t), ks) <=> t.kind \in ks
    BY <2>5 DEF LastIn
  <2>7. LastIn(r, {"scalar"}) <=> t.kind = "scalar"
    BY <2>1, <2>2 DEF LastIn
  <2>8. /\ InString(q, m + 1) <=> LastIn(c, {"string"})
        /\ LastIn(q, {"scalar"}) <=> LastIn(c, {"scalar"})
    BY <2>1, <2>3 DEF c
  <2>9. ~(LastIn(c, {"string"}) /\ LastIn(c, {"scalar"}))
    BY DEF LastIn
  <2>10. Len(r) + 1 = m + 2 /\ Len(q) + 1 = m + 1
    BY <2>1
  <2>11. Adds(q, t) <=> /\ t.kind = "LF" => InString(q, m + 1) \/ LastIn(q, {"scalar"})
                        /\ t.kind \in Text => ~InString(q, m + 1)
    BY <2>10 DEF Adds
  <2>12. t.kind \in Text => t.kind \notin {"LF", "string", "scalar"}
    BY DEF Text
  <2>13. CASE Adds(q, t)
    BY <2>4, <2>5, <2>6, <2>7, <2>10, <2>11, <2>12, <2>13
  <2>14. CASE ~Adds(q, t)
    BY <2>4, <2>5, <2>7, <2>8, <2>9, <2>10, <2>11, <2>12, <2>14
  <2> QED
    BY <2>13, <2>14
<1> HIDE DEF P, S
<1>3. Len(s) \in S
  <2>1. Len(s) \in Nat
    OBVIOUS
  <2> QED
    BY <1>1, <1>2, <2>1, Induction
<1> QED
  BY <1>3 DEF P, S

\* Only what means something after the content adds to it.
LEMMA ContentAppend ==
  ASSUME NEW in \in Seq(StreamTokens), NEW t \in StreamTokens
  PROVE  /\ Content(in) \in Seq(StreamTokens)
         /\ Content(Append(in, t)) = IF Kept(t, Content(in)) THEN Append(Content(in), t)
                                                            ELSE Content(in)
<1>1. Adds(in, t) <=> Kept(t, Content(in))
  <2> DEFINE d == Content(in)
  <2>1. /\ InString(in, Len(in) + 1) <=> LastIn(d, {"string"})
        /\ LastIn(in, {"scalar"}) <=> LastIn(d, {"scalar"})
    BY ContentStops
  <2> HIDE DEF d
  <2>2. LastIn(d, {"string", "scalar"}) <=> LastIn(d, {"string"}) \/ LastIn(d, {"scalar"})
    BY DEF LastIn
  <2>3. Adds(in, t) <=> Kept(t, d)
    BY <2>1, <2>2 DEF Adds, Kept
  <2> QED
    BY <2>3 DEF d
<1> QED
  BY <1>1, ContentGrows

\* One object more, when objects are merged at once.
LEMMA PlainEmitted ==
  ASSUME ~sse, NEW b \in Body, NEW os \in Seq(Objects), NEW o \in Objects,
         b.failed <=> HasError(os), b.failed => b.failure = "upstream_error",
         ~b.failed => b.failure = Nil /\ SampleOf(b.sample, os)
  PROVE  LET c == emitted(b, o)
             more == Append(os, o)
         IN  /\ c.failed <=> HasError(more)
             /\ c.failed => c.failure = "upstream_error"
             /\ ~c.failed => c.failure = Nil /\ SampleOf(c.sample, more)
             /\ c.seen
             /\ c.parser = b.parser /\ c.opened = b.opened /\ c.keySkipped = b.keySkipped
             /\ c.notices = b.notices
<1> DEFINE s == [b EXCEPT !.seen = TRUE]
           c == merge(s, o)
           more == Append(os, o)
<1>1. emitted(b, o) = c
  BY DEF emitted
<1>2. /\ s \in Body /\ s.failed = b.failed /\ s.failure = b.failure /\ s.sample = b.sample
      /\ s.seen /\ s.parser = b.parser /\ s.opened = b.opened /\ s.keySkipped = b.keySkipped
      /\ s.notices = b.notices
  BY DEF Body, BodyRecord
<1>3. HasError(more) <=> HasError(os) \/ o.error
  BY HasMore
<1> HIDE DEF s
<1>4. CASE o.error
  <2>1. c = fail(s, "upstream_error")
    BY <1>4 DEF merge
  <2>2. /\ c.failed /\ c.failure = IF s.failure = Nil THEN "upstream_error" ELSE s.failure
        /\ c.seen /\ c.parser = b.parser /\ c.opened = b.opened /\ c.keySkipped = b.keySkipped
        /\ c.notices = b.notices
    BY <1>2, <2>1 DEF fail, Body, BodyRecord
  <2> HIDE DEF c, more
  <2> QED
    BY <1>1, <1>2, <1>3, <1>4, <2>2 DEF more
<1>5. CASE ~o.error
  <2>1. /\ c.failed = b.failed /\ c.failure = b.failure
        /\ c.seen /\ c.parser = b.parser /\ c.opened = b.opened /\ c.keySkipped = b.keySkipped
        /\ c.notices = b.notices
    BY <1>2, <1>5 DEF merge, Body, BodyRecord
  <2>2. ~b.failed => SampleOf(c.sample, more)
    BY <1>2, <1>5, MergeSample
  <2> HIDE DEF c, more
  <2> QED
    BY <1>1, <1>3, <1>5, <2>1, <2>2 DEF more
<1> QED
  BY <1>4, <1>5

\* Reading one token of a plain body.
LEMMA PlainStep ==
  ASSUME ~sse, NEW b \in Body, NEW in \in Seq(StreamTokens), NEW t \in StreamTokens,
         PlainAt(b, Content(in))
  PROVE  PlainAt(parse(b, t), Content(Append(in, t)))
<1> DEFINE d == Content(in)
           os == Whole(d)
           e == Append(d, t)
<1>1. d \in Seq(StreamTokens)
  BY ContentAppend
<1>2. os \in Seq(Objects)
  BY <1>1, WholeAppend
<1>3. CASE ~Kept(t, d)
  <2>1. Content(Append(in, t)) = d
    BY <1>3, ContentAppend
  <2>2. ParserAt(b.parser, b.opened, d)
    BY Zenon DEF PlainAt
  <2> HIDE DEF d
  <2>3. parse(b, t) = b
    BY <1>3, <2>2, ParseDropped
  <2> QED
    BY <2>1, <2>3 DEF d
<1>4. CASE Kept(t, d)
  <2>1. Content(Append(in, t)) = e
    BY <1>4, ContentAppend
  <2> HIDE DEF d
  <2>2. /\ ParserAt(b.parser, b.opened, d)
        /\ b.failed <=> HasError(os)
        /\ b.failed => b.failure = "upstream_error"
        /\ ~b.failed => b.failure = Nil /\ SampleOf(b.sample, os)
        /\ b.seen <=> os # <<>>
        /\ b.terminal => b.seen
        /\ b.keySkipped <=> LongIn(d)
        /\ b.notices = 1 => b.keySkipped
    BY Zenon DEF PlainAt, d
  <2>3. PICK p, x, k :
           /\ k \in BOOLEAN /\ (k <=> LongIn(e)) /\ ParserAt(p, x, e)
           /\ LET a == [b EXCEPT !.parser = p, !.opened = x, !.keySkipped = k]
              IN  \/ Whole(e) = Whole(d) /\ parse(b, t) = a
                  \/ \E o \in Objects : /\ Whole(e) = Append(Whole(d), o)
                                        /\ p = "between" /\ x = Nil
                                        /\ parse(b, t) = emitted(a, o)
    BY <1>1, <1>4, <2>2, ParseStep
  <2>4. LongIn(d) => LongIn(e)
    BY <1>1, LongInAppend
  <2> DEFINE a == [b EXCEPT !.parser = p, !.opened = x, !.keySkipped = k]
  <2>5. /\ a.parser = p /\ a.opened = x /\ a.failed = b.failed /\ a.failure = b.failure
        /\ a.sample = b.sample /\ a.seen = b.seen /\ a.terminal = b.terminal
        /\ a.keySkipped = k /\ a.notices = b.notices
    BY DEF Body, BodyRecord
  <2>6. p = "between" /\ x = Nil => a \in Body
    BY <2>3, KindsDiffer DEF Body, BodyRecord
  <2> HIDE DEF os, e, a
  <2>7. CASE Whole(e) = os /\ parse(b, t) = a
    <3>1. PlainAt(a, e)
      BY <2>2, <2>3, <2>4, <2>5, <2>7 DEF PlainAt
    <3> QED
      BY <2>1, <2>7, <3>1
  <2>8. ASSUME NEW o \in Objects, Whole(e) = Append(os, o), p = "between", x = Nil,
               parse(b, t) = emitted(a, o)
        PROVE  PlainAt(parse(b, t), e)
    <3> DEFINE c == emitted(a, o)
    <3>1. /\ c.failed <=> HasError(Append(os, o))
          /\ c.failed => c.failure = "upstream_error"
          /\ ~c.failed => c.failure = Nil /\ SampleOf(c.sample, Append(os, o))
          /\ c.seen
          /\ c.parser = a.parser /\ c.opened = a.opened /\ c.keySkipped = a.keySkipped
          /\ c.notices = a.notices
      BY <1>2, <2>2, <2>5, <2>6, <2>8, PlainEmitted
    <3> HIDE DEF c
    <3>2. Append(os, o) # <<>>
      BY <1>2
    <3>3. PlainAt(c, e)
      BY <2>2, <2>3, <2>4, <2>5, <2>8, <3>1, <3>2 DEF PlainAt
    <3> QED
      BY <2>8, <3>3 DEF c
  <2> QED
    BY <2>1, <2>3, <2>7, <2>8, Zenon DEF os, a
<1> QED
  BY <1>3, <1>4

\* The skip notice changes nothing else.
LEMMA PlainNoted ==
  ASSUME NEW b \in Body, NEW d, PlainAt(b, d)
  PROVE  PlainAt(noteFieldSkip(b), d) /\ (noteFieldSkip(b).notices = 1 <=> LongIn(d))
<1> DEFINE c == noteFieldSkip(b)
<1>1. /\ c.parser = b.parser /\ c.opened = b.opened /\ c.failed = b.failed
      /\ c.failure = b.failure /\ c.sample = b.sample /\ c.seen = b.seen /\ c.terminal = b.terminal
      /\ c.keySkipped = b.keySkipped /\ (c.notices = 1 <=> b.keySkipped \/ b.notices = 1)
  BY DEF noteFieldSkip, Body, BodyRecord
<1> HIDE DEF c
<1> QED
  BY <1>1 DEF PlainAt, c

-----------------------------------------------------------------------------
(* The lines, events and data of a stream, one token at a time *)

\* One token more leaves the lines before it as they were.
LEMMA LinesAppend ==
  ASSUME NEW T, NEW u \in Seq(T), NEW t \in T
  PROVE  LET v == Append(u, t)
             n == Len(u)
         IN  /\ \A i \in 1..(n + 1) : Begins(v, i) <=> Begins(u, i)
             /\ \A i \in 1..n : BlankAt(v, i) <=> BlankAt(u, i)
             /\ \A i \in 1..(n + 1) : OnDataLine(v, i) <=> OnDataLine(u, i)
<1> DEFINE v == Append(u, t)
           n == Len(u)
<1>1. n \in Nat /\ \A i \in 1..n : v[i] = u[i]
  OBVIOUS
<1> HIDE DEF v, n
<1>2. ASSUME NEW i \in 1..(n + 1) PROVE Begins(v, i) <=> Begins(u, i)
  <2>1. i = 1 \/ i - 1 \in 1..n
    BY <1>1
  <2> QED
    BY <1>1, <2>1 DEF Begins
<1>3. ASSUME NEW i \in 1..n PROVE BlankAt(v, i) <=> BlankAt(u, i)
  BY <1>1, <1>2 DEF BlankAt
<1>4. ASSUME NEW i \in 1..(n + 1) PROVE OnDataLine(v, i) <=> OnDataLine(u, i)
  <2>1. ASSUME NEW j \in 1..(i - 1)
        PROVE  /\ j \in 1..n /\ j \in 1..(n + 1) /\ v[j] = u[j]
               /\ \A k \in j..(i - 1) : v[k] = u[k]
    BY <1>1
  <2>2. ASSUME NEW j \in 1..(i - 1) PROVE Begins(v, j) <=> Begins(u, j)
    BY <1>2, <2>1
  <2> QED
    BY <2>1, <2>2 DEF OnDataLine
<1> QED
  BY <1>2, <1>3, <1>4 DEF v, n

\* The line that the next token is on.
LEMMA LastLine ==
  ASSUME NEW T, NEW u \in Seq(T), NEW t \in T
  PROVE  LET v == Append(u, t)
             n == Len(u)
         IN  /\ Begins(v, n + 2) <=> t.kind = "LF"
             /\ BlankAt(v, n + 1) <=> t.kind = "LF" /\ Begins(u, n + 1)
             /\ OnDataLine(v, n + 2) <=>
                   t.kind # "LF" /\ (OnDataLine(u, n + 1) \/ (Begins(u, n + 1) /\ t.kind = "data"))
             /\ Begins(u, n + 1) => ~OnDataLine(u, n + 1)
<1> DEFINE v == Append(u, t)
           n == Len(u)
<1>1. n \in Nat /\ v[n + 1] = t /\ \A i \in 1..n : v[i] = u[i]
  OBVIOUS
<1>2. \A i \in 1..(n + 1) : Begins(v, i) <=> Begins(u, i)
  BY LinesAppend
<1> HIDE DEF v, n
<1>3. Begins(v, n + 2) <=> t.kind = "LF"
  <2>1. (n + 2) - 1 = n + 1 /\ n + 2 # 1
    BY <1>1
  <2> QED
    BY <1>1, <2>1 DEF Begins
<1>4. BlankAt(v, n + 1) <=> t.kind = "LF" /\ Begins(u, n + 1)
  BY <1>1, <1>2 DEF BlankAt
<1>5. Begins(u, n + 1) => ~OnDataLine(u, n + 1)
  <2> SUFFICES ASSUME Begins(u, n + 1), OnDataLine(u, n + 1) PROVE FALSE
    OBVIOUS
  <2>1. PICK j \in 1..n : \A k \in j..n : u[k].kind # "LF"
    BY <1>1 DEF OnDataLine
  <2>2. n \in j..n /\ n + 1 # 1 /\ (n + 1) - 1 = n
    BY <1>1
  <2> QED
    BY <2>1, <2>2 DEF Begins
<1>6. OnDataLine(v, n + 2) <=>
         t.kind # "LF" /\ (OnDataLine(u, n + 1) \/ (Begins(u, n + 1) /\ t.kind = "data"))
  <2> DEFINE P(j) == /\ Begins(v, j) /\ v[j].kind = "data"
                     /\ \A k \in j..(n + 1) : v[k].kind # "LF"
             Q(j) == /\ Begins(u, j) /\ u[j].kind = "data"
                     /\ \A k \in j..n : u[k].kind # "LF"
  <2>1. OnDataLine(v, n + 2) <=> \E j \in 1..(n + 1) : P(j)
    <3>1. (n + 2) - 1 = n + 1
      BY <1>1
    <3> QED
      BY <3>1 DEF OnDataLine
  <2>2. OnDataLine(u, n + 1) <=> \E j \in 1..n : Q(j)
    <3>1. (n + 1) - 1 = n
      BY <1>1
    <3> QED
      BY <3>1 DEF OnDataLine
  <2>3. ASSUME NEW j \in 1..n PROVE P(j) <=> Q(j) /\ t.kind # "LF"
    <3>1. /\ j \in 1..(n + 1) /\ n + 1 \in j..(n + 1) /\ v[j] = u[j]
          /\ \A k \in j..(n + 1) : k \in j..n \/ k = n + 1
          /\ \A k \in j..n : k \in j..(n + 1) /\ v[k] = u[k]
      BY <1>1
    <3> QED
      BY <1>1, <1>2, <3>1
  <2>4. P(n + 1) <=> Begins(u, n + 1) /\ t.kind = "data"
    <3>1. n + 1 \in 1..(n + 1) /\ (\A k \in (n + 1)..(n + 1) : k = n + 1) /\ "data" # "LF"
      BY <1>1
    <3> QED
      BY <1>1, <1>2, <3>1
  <2>5. \A j \in 1..(n + 1) : j \in 1..n \/ j = n + 1
    BY <1>1
  <2>6. n + 1 \in 1..(n + 1) /\ \A j \in 1..n : j \in 1..(n + 1)
    BY <1>1
  <2> HIDE DEF P, Q
  <2>7. ASSUME NEW j \in 1..(n + 1), P(j)
        PROVE  t.kind # "LF" /\ (OnDataLine(u, n + 1) \/ (Begins(u, n + 1) /\ t.kind = "data"))
    <3>1. CASE j \in 1..n
      <4>1. Q(j) /\ t.kind # "LF"
        BY <2>3, <2>7, <3>1
      <4>2. OnDataLine(u, n + 1)
        BY <2>2, <3>1, <4>1
      <4> QED
        BY <4>1, <4>2
    <3>2. CASE j = n + 1
      BY <2>4, <2>7, <3>2
    <3> QED
      BY <2>5, <3>1, <3>2
  <2>8. ASSUME t.kind # "LF", OnDataLine(u, n + 1)
        PROVE  \E j \in 1..(n + 1) : P(j)
    BY <2>2, <2>3, <2>6, <2>8
  <2>9. ASSUME Begins(u, n + 1), t.kind = "data"
        PROVE  \E j \in 1..(n + 1) : P(j)
    BY <2>4, <2>6, <2>9
  <2> QED
    BY <2>1, <2>7, <2>8, <2>9
<1> QED
  BY <1>3, <1>4, <1>5, <1>6 DEF v, n

\* The positions of the data of the event that position i ends.
DataPositions(u, i) ==
    {j \in 1..(i - 1) : OnDataLine(u, j) /\ \A k \in j..(i - 1) : ~BlankAt(u, k)}

\* One token more leaves the data lines of the events before it as they were.
LEMMA LinesBefore ==
  ASSUME NEW T, NEW u \in Seq(T), NEW t \in T, NEW i \in 1..(Len(u) + 1)
  PROVE  DataLines(Append(u, t), i) = DataLines(u, i) /\ DataLines(u, i) \in Seq(T)
<1> DEFINE v == Append(u, t)
           n == Len(u)
           ps == DataPositions(u, i)
           qs == DataPositions(v, i)
<1>1. n \in Nat /\ \A j \in 1..n : v[j] = u[j]
  OBVIOUS
<1>2. /\ \A j \in 1..n : BlankAt(v, j) <=> BlankAt(u, j)
      /\ \A j \in 1..(n + 1) : OnDataLine(v, j) <=> OnDataLine(u, j)
  BY LinesAppend
<1>3. DataLines(u, i) = At(u, ps) /\ DataLines(v, i) = At(v, qs)
  BY Zenon DEF DataLines, DataPositions
<1>4. i \in 1..(n + 1)
  OBVIOUS
<1> HIDE DEF v, n
<1>5. ASSUME NEW j \in 1..n PROVE j \in ps <=> j \in qs
  <2>1. CASE j \in 1..(i - 1)
    <3>1. j \in 1..(n + 1) /\ v[j] = u[j] /\ \A k \in j..(i - 1) : k \in 1..n
      BY <1>1, <1>4, <2>1
    <3>2. \A k \in j..(i - 1) : BlankAt(v, k) <=> BlankAt(u, k)
      BY <1>2, <3>1
    <3>3. OnDataLine(v, j) <=> OnDataLine(u, j)
      BY <1>2, <3>1
    <3> QED
      BY <3>1, <3>2, <3>3 DEF DataPositions
  <2>2. CASE j \notin 1..(i - 1)
    BY <2>2 DEF DataPositions
  <2> QED
    BY <2>1, <2>2
<1>6. n + 1 \notin qs
  <2>1. n + 1 \notin 1..(i - 1)
    BY <1>1, <1>4
  <2> QED
    BY <2>1 DEF DataPositions
<1> HIDE DEF ps, qs
<1>7. Same(ps, qs, Len(u))
  BY <1>5 DEF Same, n
<1>8. At(v, qs) = At(u, ps) \o (IF Len(u) + 1 \in qs THEN <<t>> ELSE <<>>) /\ At(u, ps) \in Seq(T)
  BY <1>7, AtAppend DEF v
<1>9. At(v, qs) = At(u, ps)
  BY <1>6, <1>8 DEF n
<1> QED
  BY <1>3, <1>8, <1>9 DEF v

\* What one token adds to the data lines of the event it is in.
LEMMA DataLinesAppend ==
  ASSUME NEW T, NEW u \in Seq(T), NEW t \in T
  PROVE  LET v == Append(u, t)
             n == Len(u)
         IN  DataLines(v, n + 2) = IF BlankAt(v, n + 1) THEN <<>>
                              ELSE IF OnDataLine(u, n + 1) THEN Append(DataLines(u, n + 1), t)
                              ELSE DataLines(u, n + 1)
<1> DEFINE v == Append(u, t)
           n == Len(u)
           ps == DataPositions(u, n + 1)
           qs == DataPositions(v, n + 2)
<1>1. n \in Nat /\ v[n + 1] = t /\ (\A j \in 1..n : v[j] = u[j]) /\ v \in Seq(T) /\ Len(v) = n + 1
  OBVIOUS
<1>2. /\ \A j \in 1..n : BlankAt(v, j) <=> BlankAt(u, j)
      /\ \A j \in 1..(n + 1) : OnDataLine(v, j) <=> OnDataLine(u, j)
  BY LinesAppend
<1>3. DataLines(u, n + 1) = At(u, ps) /\ DataLines(v, n + 2) = At(v, qs)
  BY Zenon DEF DataLines, DataPositions
<1> HIDE DEF v, n
<1>4. (n + 1) - 1 = n /\ (n + 2) - 1 = n + 1
  BY <1>1
<1>5. CASE BlankAt(v, n + 1)
  <2>1. ASSUME NEW j \in 1..(n + 1) PROVE j \notin qs
    <3>1. n + 1 \in j..(n + 1)
      BY <1>1
    <3> QED
      BY <1>4, <1>5, <3>1 DEF DataPositions
  <2> HIDE DEF qs
  <2>2. At(v, qs) = <<>>
    BY <1>1, <2>1, AtNone
  <2> QED
    BY <1>3, <1>5, <2>2 DEF v, n
<1>6. CASE ~BlankAt(v, n + 1)
  <2>1. ASSUME NEW j \in 1..n PROVE j \in ps <=> j \in qs
    <3>1. /\ j \in 1..(n + 1) /\ v[j] = u[j] /\ (\A k \in j..n : k \in 1..n /\ k \in j..(n + 1))
          /\ \A k \in j..(n + 1) : k \in j..n \/ k = n + 1
      BY <1>1
    <3>2. (\A k \in j..n : ~BlankAt(u, k)) <=> (\A k \in j..(n + 1) : ~BlankAt(v, k))
      BY <1>2, <1>6, <3>1
    <3>3. OnDataLine(v, j) <=> OnDataLine(u, j)
      BY <1>2, <3>1
    <3> QED
      BY <1>4, <3>1, <3>2, <3>3 DEF DataPositions
  <2>2. n + 1 \in qs <=> OnDataLine(u, n + 1)
    <3>1. n + 1 \in 1..(n + 1) /\ \A k \in (n + 1)..(n + 1) : k = n + 1
      BY <1>1
    <3> QED
      BY <1>1, <1>2, <1>4, <1>6, <3>1 DEF DataPositions
  <2> HIDE DEF ps, qs
  <2>3. Same(ps, qs, Len(u))
    BY <2>1 DEF Same, n
  <2>4. At(v, qs) = At(u, ps) \o (IF Len(u) + 1 \in qs THEN <<t>> ELSE <<>>) /\ At(u, ps) \in Seq(T)
    BY <2>3, AtAppend DEF v
  <2>5. At(u, ps) \o <<t>> = Append(At(u, ps), t) /\ At(u, ps) \o <<>> = At(u, ps)
    BY <2>4
  <2>6. CASE n + 1 \in qs
    BY <1>3, <1>6, <2>2, <2>4, <2>5, <2>6 DEF v, n
  <2>7. CASE n + 1 \notin qs
    BY <1>3, <1>6, <2>2, <2>4, <2>5, <2>7 DEF v, n
  <2> QED
    BY <2>6, <2>7
<1> QED
  BY <1>5, <1>6

\* One token more leaves the data of the events before it as it was.
LEMMA DataBefore ==
  ASSUME NEW u \in Seq(StreamTokens), NEW t \in StreamTokens, NEW i \in 1..(Len(u) + 1)
  PROVE  Data(Append(u, t), i) = Data(u, i) /\ Data(u, i) \in Seq(StreamTokens)
<1>1. DataLines(Append(u, t), i) = DataLines(u, i) /\ DataLines(u, i) \in Seq(StreamTokens)
  BY LinesBefore
<1>2. Content(DataLines(u, i)) \in Seq(StreamTokens)
  BY <1>1, ContentAppend
<1> QED
  BY <1>1, <1>2 DEF Data

\* What one token adds to the data of the event it is in.
LEMMA DataAppend ==
  ASSUME NEW u \in Seq(StreamTokens), NEW t \in StreamTokens
  PROVE  LET v == Append(u, t)
             n == Len(u)
             d == Data(u, n + 1)
         IN  Data(v, n + 2) = IF BlankAt(v, n + 1) THEN <<>>
                              ELSE IF OnDataLine(u, n + 1) /\ Kept(t, d) THEN Append(d, t)
                              ELSE d
<1> DEFINE v == Append(u, t)
           n == Len(u)
           l == DataLines(u, n + 1)
<1>1. n + 1 \in 1..(n + 1)
  OBVIOUS
<1>2. l \in Seq(StreamTokens)
  BY <1>1, LinesBefore
<1>3. DataLines(v, n + 2) = IF BlankAt(v, n + 1) THEN <<>>
                            ELSE IF OnDataLine(u, n + 1) THEN Append(l, t) ELSE l
  BY DataLinesAppend
<1>4. Data(u, n + 1) = Content(l) /\ Data(v, n + 2) = Content(DataLines(v, n + 2))
  BY DEF Data
<1> HIDE DEF l, v, n
<1>5. Content(Append(l, t)) = IF Kept(t, Content(l)) THEN Append(Content(l), t) ELSE Content(l)
  BY <1>2, ContentAppend
<1>6. Data(v, n + 2) = IF BlankAt(v, n + 1) THEN <<>>
                       ELSE IF OnDataLine(u, n + 1) /\ Kept(t, Data(u, n + 1))
                            THEN Append(Data(u, n + 1), t) ELSE Data(u, n + 1)
  BY <1>3, <1>4, <1>5, ContentNothing
<1> QED
  BY <1>6 DEF v, n

\* A blank line adds the objects of the event it ends.
LEMMA PastAppend ==
  ASSUME NEW u \in Seq(StreamTokens), NEW t \in StreamTokens
  PROVE  LET v == Append(u, t)
             n == Len(u)
         IN  /\ Past(v) = Past(u) \o (IF BlankAt(v, n + 1) THEN Whole(Data(u, n + 1)) ELSE <<>>)
             /\ Past(u) \in Seq(Objects)
<1> DEFINE v == Append(u, t)
           n == Len(u)
           f == [i \in DOMAIN u |-> IF BlankAt(u, i) THEN Whole(Data(u, i)) ELSE <<>>]
           g == [i \in DOMAIN v |-> IF BlankAt(v, i) THEN Whole(Data(v, i)) ELSE <<>>]
<1>1. n \in Nat /\ DOMAIN u = 1..n /\ DOMAIN v = 1..(n + 1)
  OBVIOUS
<1>2. \A i \in 1..n : BlankAt(v, i) <=> BlankAt(u, i)
  BY LinesAppend
<1>3. ASSUME NEW i \in 1..(n + 1)
      PROVE  Data(v, i) = Data(u, i) /\ Whole(Data(u, i)) \in Seq(Objects)
  <2>1. Data(v, i) = Data(u, i) /\ Data(u, i) \in Seq(StreamTokens)
    BY DataBefore
  <2> QED
    BY <2>1, WholeAppend
<1> HIDE DEF v, n
<1>4. <<>> \in Seq(Objects) /\ (\A i \in 1..n : i \in 1..(n + 1)) /\ n + 1 \in 1..(n + 1)
  BY <1>1
<1>5. f \in [1..n -> Seq(Objects)] /\ g \in [1..(n + 1) -> Seq(Objects)]
  BY <1>1, <1>3, <1>4
<1>6. Agree(f, g, n)
  BY <1>1, <1>2, <1>3, <1>4 DEF Agree
<1>7. g[n + 1] = IF BlankAt(v, n + 1) THEN Whole(Data(u, n + 1)) ELSE <<>>
  BY <1>1, <1>3, <1>4
<1>8. Past(u) = FlattenSeq(f) /\ Past(v) = FlattenSeq(g)
  BY Zenon DEF Past
<1> HIDE DEF f, g
<1>9. FlattenSeq(g) = FlattenSeq(f) \o g[n + 1] /\ FlattenSeq(f) \in Seq(Objects)
  BY <1>1, <1>5, <1>6, FlattenExtend
<1> QED
  BY <1>7, <1>8, <1>9, Zenon DEF v, n

\* CR, LF and CRLF each read as one LF.
LEMMA UnifiedAppend ==
  ASSUME NEW in \in Seq(StreamTokens), NEW t \in StreamTokens
  PROVE  /\ Unified(in) \in Seq(StreamTokens)
         /\ Unified(Append(in, t)) =
               IF t.kind = "CR" THEN Append(Unified(in), Mark("LF"))
               ELSE IF t.kind = "LF" /\ AfterCR(in) THEN Unified(in)
               ELSE Append(Unified(in), t)
<1> DEFINE more == Append(in, t)
           n == Len(in)
           x == IF t.kind = "CR" THEN Mark("LF") ELSE t
           f == [i \in DOMAIN in |-> IF in[i].kind = "CR" THEN Mark("LF") ELSE in[i]]
           g == [i \in DOMAIN more |-> IF more[i].kind = "CR" THEN Mark("LF") ELSE more[i]]
           ps == {i \in DOMAIN in : ~(in[i].kind = "LF" /\ i > 1 /\ in[i - 1].kind = "CR")}
           qs == {i \in DOMAIN more : ~(more[i].kind = "LF" /\ i > 1 /\ more[i - 1].kind = "CR")}
<1>1. /\ n \in Nat /\ DOMAIN in = 1..n /\ DOMAIN more = 1..(n + 1) /\ more[n + 1] = t
      /\ \A i \in 1..n : more[i] = in[i] /\ in[i] \in StreamTokens
  OBVIOUS
<1>2. AfterCR(in) <=> n # 0 /\ in[n].kind = "CR"
  BY DEF AfterCR
<1>3. Mark("LF") \in StreamTokens
  BY DEF StreamTokens, JSONTokens
<1> HIDE DEF more, n
<1>4. /\ f \in [1..n -> StreamTokens] /\ g \in [1..(n + 1) -> StreamTokens]
      /\ g[n + 1] = x /\ \A i \in 1..n : g[i] = f[i]
  <2>1. \A i \in 1..(n + 1) : more[i] \in StreamTokens
    <3>1. \A i \in 1..(n + 1) : i \in 1..n \/ i = n + 1
      BY <1>1
    <3> QED
      BY <1>1, <3>1
  <2>2. (\A i \in 1..n : i \in 1..(n + 1)) /\ n + 1 \in 1..(n + 1)
    BY <1>1
  <2>3. f \in [1..n -> StreamTokens] /\ g \in [1..(n + 1) -> StreamTokens]
    BY <1>1, <1>3, <2>1
  <2> QED
    BY <1>1, <2>2, <2>3
<1>5. \A i \in 1..n : i \in ps <=> i \in qs
  <2> SUFFICES ASSUME NEW i \in 1..n PROVE i \in ps <=> i \in qs
    OBVIOUS
  <2>1. i \in 1..(n + 1) /\ more[i] = in[i] /\ (i > 1 => more[i - 1] = in[i - 1])
    BY <1>1
  <2> QED
    BY <1>1, <2>1
<1>6. n + 1 \in qs <=> ~(t.kind = "LF" /\ AfterCR(in))
  <2>1. n + 1 \in 1..(n + 1) /\ (n + 1) - 1 = n /\ (n + 1 > 1 <=> n # 0) /\ (n # 0 => more[n] = in[n])
    BY <1>1
  <2> QED
    BY <1>1, <1>2, <2>1
<1>7. Unified(in) = At(f, ps) /\ Unified(more) = At(g, qs)
  BY Zenon DEF Unified
<1> HIDE DEF f, g, ps, qs, x
<1>8. f \in Seq(StreamTokens) /\ Len(f) = n /\ g \in Seq(StreamTokens) /\ Len(g) = n + 1
  BY <1>1, <1>4, FunctionIsSequence
<1>9. x \in StreamTokens
  BY <1>3 DEF x
<1>10. g = Append(f, x)
  <2>1. /\ Append(f, x) \in Seq(StreamTokens) /\ Len(Append(f, x)) = n + 1
        /\ \A i \in 1..(n + 1) : Append(f, x)[i] = g[i]
    BY <1>4, <1>8, <1>9
  <2> QED
    BY <1>8, <2>1, SeqEqual
<1>11. Same(ps, qs, Len(f))
  BY <1>5, <1>8 DEF Same
<1>12. /\ At(Append(f, x), qs) = At(f, ps) \o (IF Len(f) + 1 \in qs THEN <<x>> ELSE <<>>)
       /\ At(f, ps) \in Seq(StreamTokens)
  BY <1>8, <1>9, <1>11, AtAppend
<1>13. At(f, ps) \o <<x>> = Append(At(f, ps), x) /\ At(f, ps) \o <<>> = At(f, ps)
  BY <1>9, <1>12
<1>14. Unified(more) = IF n + 1 \in qs THEN Append(Unified(in), x) ELSE Unified(in)
  BY <1>7, <1>8, <1>10, <1>12, <1>13
<1>15. Unified(in) \in Seq(StreamTokens)
  BY <1>7, <1>12
<1> QED
  BY <1>6, <1>14, <1>15 DEF more, x

-----------------------------------------------------------------------------
(* The end of an event *)

\* Data that begins with [DONE] has no objects.
LEMMA DoneData ==
  ASSUME NEW d \in Seq(StreamTokens), d # <<>>, d[1].kind = "DONE"
  PROVE  Whole(d) = <<>> /\ ~IsGood(d) /\ WhyBad(d) = "malformed" /\ ~LongIn(d)
<1>1. Len(d) \in Nat /\ 0 < Len(d) /\ 0 \in 0..Len(d) /\ (\A i \in 1..0 : Follows(d, i)) /\ 0 + 1 = 1
  OBVIOUS
<1>2. ~Follows(d, 1)
  BY DEF Follows, Opens
<1>3. GoodLen(d) = 0
  BY <1>1, <1>2, GoodLenIs
<1>4. [i \in 1..0 |-> EndedAt(d, i)] = <<>>
  OBVIOUS
<1> QED
  BY <1>1, <1>3, <1>4, FlattenEmpty DEF Whole, IsGood, WhyBad, LongIn, Limits

\* The objects of tokens are objects.
LEMMA WholeTyped ==
  ASSUME NEW d \in Seq(StreamTokens)
  PROVE  Whole(d) \in Seq(Objects)
<1>1. Mark("LF") \in StreamTokens
  BY DEF StreamTokens, JSONTokens
<1> QED
  BY <1>1, WholeAppend

\* What fail assigns.
LEMMA FailFields ==
  ASSUME NEW b \in Body, NEW reason \in Reasons
  PROVE  LET c == fail(b, reason)
         IN  /\ c.failed /\ c.failure = IF b.failure = Nil THEN reason ELSE b.failure
             /\ c.parser = b.parser /\ c.opened = b.opened /\ c.keySkipped = b.keySkipped
             /\ c.line = b.line /\ c.marker = b.marker /\ c.eventFields = b.eventFields
             /\ c.notices = b.notices
  BY DEF fail, Body, BodyRecord

\* What merge assigns.
LEMMA MergeFields ==
  ASSUME NEW b \in Body, NEW o \in Objects
  PROVE  LET c == merge(b, o)
         IN  /\ o.error => /\ c.failed
                           /\ c.failure = IF b.failure = Nil THEN "upstream_error" ELSE b.failure
             /\ ~o.error => /\ c.failed = b.failed /\ c.failure = b.failure
                            /\ c.terminal = (b.terminal \/ o.done = TRUE \/ o.stop)
  BY DEF merge, fail, Body, BodyRecord

\* A sequence that is neither empty nor longer than one.
LEMMA Single ==
  ASSUME NEW T, NEW w \in Seq(T), w # <<>>, ~(Len(w) > 1)
  PROVE  Len(w) = 1 /\ w[1] \in T /\ w = <<w[1]>>
<1> DEFINE n == Len(w)
<1>1. n \in Nat /\ n # 0 /\ ~(n > 1)
  OBVIOUS
<1> HIDE DEF n
<1>2. n = 1
  BY <1>1
<1>3. Len(w) = 1
  BY <1>2 DEF n
<1>4. w[1] \in T
  BY <1>3
<1> QED
  BY <1>3, <1>4

\* An object alone in its data.
LEMMA OneObject ==
  ASSUME NEW o \in Objects
  PROVE  /\ HasError(<<o>>) <=> o.error
         /\ HasEnd(<<o>>) <=> o.done = TRUE \/ o.stop
<1>1. <<o>> = Append(<<>>, o) /\ <<>> \in Seq(Objects)
  OBVIOUS
<1>2. /\ HasError(Append(<<>>, o)) <=> HasError(<<>>) \/ o.error
      /\ HasEnd(Append(<<>>, o)) <=> HasEnd(<<>>) \/ o.done = TRUE \/ o.stop
  BY <1>1, HasMore
<1> QED
  BY <1>1, <1>2, HasNone

\* The end of an event, for a response that has not failed: it fails as the
\* event's data says, and otherwise takes the event's object.
LEMMA EventEffect ==
  ASSUME NEW b \in Body, NEW d \in Seq(StreamTokens), EventAt(b, d), ~b.failed, b.failure = Nil,
         ~(Len(Whole(d)) > 1), NEW os \in Seq(Objects), SampleOf(b.sample, os)
  PROVE  LET c == dispatch(b)
         IN  /\ c.failed <=> EventFailure(d) # Nil
             /\ c.failed => c.failure = EventFailure(d)
             /\ ~c.failed => /\ c.failure = Nil /\ SampleOf(c.sample, os \o Whole(d))
                             /\ c.terminal <=> b.terminal \/ IsDone(d) \/ HasEnd(Whole(d))
<1> DEFINE n == noteFieldSkip(b)
           m == CASE n.marker = "done" -> [n EXCEPT !.terminal = TRUE]
                  [] n.marker = "junk" -> fail(n, "malformed")
                  [] OTHER -> n
           e == CASE m.parser # "between" -> fail(m, failureReason(m))
                  [] m.parser = "between" /\ m.eventFields # Nil -> merge(m, m.eventFields)
                  [] OTHER -> m
           c == [e EXCEPT !.eventFields = Nil, !.marker = Nil, !.parser = "between",
                          !.opened = Nil, !.keySkipped = FALSE]
           w == Whole(d)
<1>1. dispatch(b) = c
  BY DEF dispatch, finishEvent
<1>2. /\ n \in Body /\ n.parser = b.parser /\ n.marker = b.marker /\ n.eventFields = b.eventFields
      /\ n.failed = b.failed /\ n.failure = b.failure /\ n.sample = b.sample
      /\ n.terminal = b.terminal
  BY DEF noteFieldSkip, Body, BodyRecord
<1> HIDE DEF n
<1>3. w \in Seq(Objects) /\ os \o <<>> = os
  BY WholeTyped
<1>4. Nil \notin Objects /\ Nil \notin {"done", "junk"} /\ Nil \notin Reasons
  BY ResponseBodyAssumption
<1>5. "malformed" \in Reasons
  BY DEF Reasons
<1>6. CASE b.marker = "done"
  <2>1. d # <<>> /\ d[1].kind = "DONE" /\ Len(d) = 1 /\ b.parser = "between" /\ b.eventFields = Nil
    BY <1>4, <1>6 DEF EventAt
  <2>2. w = <<>> /\ IsDone(d) /\ EventFailure(d) = Nil
    BY <2>1, DoneData DEF IsDone, EventFailure
  <2>3. m = [n EXCEPT !.terminal = TRUE] /\ m \in Body
    BY <1>2, <1>6 DEF Body, BodyRecord
  <2>4. /\ m.parser = "between" /\ m.eventFields = Nil /\ m.failed = b.failed
        /\ m.failure = b.failure /\ m.sample = b.sample /\ m.terminal = TRUE
    BY <1>2, <2>1, <2>3 DEF Body, BodyRecord
  <2> HIDE DEF m
  <2>5. e = m
    BY <2>4
  <2>6. c.failed = m.failed /\ c.failure = m.failure /\ c.sample = m.sample /\ c.terminal = m.terminal
    BY <2>3, <2>5 DEF Body, BodyRecord
  <2> HIDE DEF c, w
  <2> QED
    BY <1>1, <1>3, <2>2, <2>4, <2>6 DEF w
<1>7. CASE b.marker = "junk"
  <2>1. d # <<>> /\ d[1].kind = "DONE" /\ Len(d) # 1 /\ b.parser = "between" /\ b.eventFields = Nil
    BY <1>4, <1>7 DEF EventAt
  <2>2. w = <<>> /\ ~IsDone(d) /\ ~IsGood(d) /\ WhyBad(d) = "malformed" /\ Len(w) = 0
    BY <2>1, DoneData DEF IsDone
  <2>3. EventFailure(d) = "malformed"
    BY <2>1, <2>2 DEF EventFailure
  <2>4. m = fail(n, "malformed") /\ m \in Body
    BY <1>2, <1>5, <1>7, FailBody
  <2> HIDE DEF m
  <2>5. m.parser = "between" /\ m.eventFields = Nil /\ m.failed /\ m.failure = "malformed"
    BY <1>2, <1>5, <2>1, <2>4, FailFields
  <2>6. e = m
    BY <2>5
  <2>7. c.failed = m.failed /\ c.failure = m.failure
    BY <2>4, <2>6 DEF Body, BodyRecord
  <2>8. "malformed" # Nil
    BY <1>4 DEF Reasons
  <2> HIDE DEF c, w
  <2> QED
    BY <1>1, <2>3, <2>5, <2>7, <2>8
<1>8. CASE b.marker = Nil
  <2>1. /\ ParserAt(b.parser, b.opened, d)
        /\ d # <<>> => d[1].kind # "DONE"
        /\ b.eventFields = IF w = <<>> THEN Nil ELSE w[Len(w)]
    BY <1>8 DEF EventAt
  <2>2. ~IsDone(d)
    <3>1. Len(<<>>) = 0
      OBVIOUS
    <3> QED
      BY <2>1, <3>1 DEF IsDone
  <2>3. m = n
    BY <1>2, <1>4, <1>8
  <2> HIDE DEF m, w
  <2>4. CASE b.parser # "between"
    <3>1. d # <<>> /\ EventFailure(d) = failureReason(b)
      <4>1. CASE b.parser \in Opens
        <5>1. IsGood(d) /\ IsCut(d) /\ d # <<>>
          BY <2>1, <4>1 DEF ParserAt, IsCut
        <5> QED
          BY <2>2, <4>1, <5>1 DEF EventFailure, failureReason, w
      <4>2. CASE b.parser \notin Opens
        <5>1. ~IsGood(d) /\ b.parser = WhyBad(d)
          BY <2>1, <2>4, <4>2 DEF ParserAt
        <5>2. d # <<>>
          BY <5>1, NothingRead
        <5> QED
          BY <2>2, <4>2, <5>1, <5>2 DEF EventFailure, failureReason, w
      <4> QED
        BY <4>1, <4>2
    <3>2. failureReason(b) \in Reasons
      BY <2>4 DEF failureReason, Reasons, Body, BodyRecord
    <3>3. e = fail(n, failureReason(b)) /\ e \in Body
      <4>1. failureReason(n) = failureReason(b)
        BY <1>2 DEF failureReason
      <4> QED
        BY <1>2, <2>3, <2>4, <3>2, <4>1, FailBody
    <3>4. e.failed /\ e.failure = failureReason(b)
      BY <1>2, <3>2, <3>3, FailFields
    <3> HIDE DEF e
    <3>5. c.failed = e.failed /\ c.failure = e.failure
      BY <3>3 DEF Body, BodyRecord
    <3> HIDE DEF c
    <3> QED
      BY <1>1, <1>4, <3>1, <3>2, <3>4, <3>5
  <2>5. CASE b.parser = "between" /\ w # <<>>
    <3> DEFINE o == w[1]
    <3>1. Len(w) = 1 /\ o \in Objects /\ w = <<o>>
      <4>1. ~(Len(w) > 1)
        BY DEF w
      <4> QED
        BY <1>3, <2>5, <4>1, Single
    <3> HIDE DEF o
    <3>2. o \in Objects /\ w = <<o>> /\ os \o w = Append(os, o)
      <4>1. os \o <<o>> = Append(os, o)
        BY <3>1
      <4> QED
        BY <3>1, <4>1, Zenon
    <3>3. b.eventFields = o
      BY <2>1, <2>5, <3>1 DEF o
    <3> HIDE DEF o
    <3>4. IsGood(d) /\ ~IsCut(d) /\ d # <<>>
      BY <2>1, <2>5 DEF ParserAt, w
    <3>5. EventFailure(d) = IF o.error THEN "upstream_error" ELSE Nil
      <4>1. HasError(w) <=> o.error
        BY <3>2, OneObject
      <4> QED
        BY <2>2, <3>1, <3>4, <4>1 DEF EventFailure, w
    <3>6. HasEnd(w) <=> o.done = TRUE \/ o.stop
      BY <3>2, OneObject
    <3>7. e = merge(n, o) /\ e \in Body
      BY <1>2, <1>4, <2>3, <2>5, <3>2, <3>3, MergeBody
    <3> HIDE DEF e
    <3>8. CASE o.error
      <4>1. e.failed /\ e.failure = "upstream_error"
        BY <1>2, <3>2, <3>7, <3>8, MergeFields
      <4>2. c.failed = e.failed /\ c.failure = e.failure
        BY <3>7 DEF Body, BodyRecord
      <4>3. "upstream_error" # Nil
        BY <1>4 DEF Reasons
      <4> HIDE DEF c
      <4> QED
        BY <1>1, <3>5, <3>8, <4>1, <4>2, <4>3
    <3>9. CASE ~o.error
      <4> DEFINE g == merge(n, o)
      <4>1. /\ g.failed = n.failed /\ g.failure = n.failure
            /\ g.terminal = (n.terminal \/ o.done = TRUE \/ o.stop)
        BY <1>2, <3>2, <3>9, MergeFields
      <4> HIDE DEF g
      <4>2. /\ e.failed = b.failed /\ e.failure = b.failure
            /\ e.terminal = (b.terminal \/ o.done = TRUE \/ o.stop)
        BY <1>2, <3>7, <4>1 DEF g
      <4>3. SampleOf(e.sample, Append(os, o))
        BY <1>2, <3>2, <3>7, <3>9, MergeSample
      <4>4. c.failed = e.failed /\ c.failure = e.failure /\ c.sample = e.sample /\ c.terminal = e.terminal
        BY <3>7 DEF Body, BodyRecord
      <4> HIDE DEF c
      <4> QED
        BY <1>1, <2>2, <3>2, <3>5, <3>6, <3>9, <4>2, <4>3, <4>4 DEF w
    <3> QED
      BY <3>8, <3>9
  <2>6. CASE b.parser = "between" /\ w = <<>>
    <3>1. d = <<>> /\ b.eventFields = Nil
      BY <2>1, <2>6 DEF ParserAt, w
    <3>2. EventFailure(d) = Nil
      BY <3>1 DEF EventFailure
    <3>3. e = n
      BY <1>2, <2>3, <2>6, <3>1
    <3>4. c.failed = n.failed /\ c.failure = n.failure /\ c.sample = n.sample /\ c.terminal = n.terminal
      BY <1>2, <3>3 DEF Body, BodyRecord
    <3>5. ~HasEnd(w)
      BY <2>6, HasNone
    <3> HIDE DEF c
    <3> QED
      BY <1>1, <1>2, <1>3, <2>2, <2>6, <3>2, <3>4, <3>5 DEF w
  <2> QED
    BY <2>4, <2>5, <2>6
<1> QED
  BY <1>6, <1>7, <1>8 DEF Body, BodyRecord

\* What dispatch assigns whatever the event was.
LEMMA DispatchFields ==
  ASSUME NEW b \in Body
  PROVE  LET c == dispatch(b)
         IN  /\ c.parser = "between" /\ c.opened = Nil /\ c.marker = Nil /\ c.eventFields = Nil
             /\ c.keySkipped = FALSE /\ c.line = b.line
             /\ c.notices = 1 <=> (b.notices = 1 \/ b.keySkipped)
<1> DEFINE n == noteFieldSkip(b)
           m == CASE n.marker = "done" -> [n EXCEPT !.terminal = TRUE]
                  [] n.marker = "junk" -> fail(n, "malformed")
                  [] OTHER -> n
           e == CASE m.parser # "between" -> fail(m, failureReason(m))
                  [] m.parser = "between" /\ m.eventFields # Nil -> merge(m, m.eventFields)
                  [] OTHER -> m
           c == [e EXCEPT !.eventFields = Nil, !.marker = Nil, !.parser = "between",
                          !.opened = Nil, !.keySkipped = FALSE]
<1>1. dispatch(b) = c
  BY DEF dispatch, finishEvent
<1>2. /\ n \in BodyRecord /\ n.line = b.line
      /\ n.notices = 1 <=> (b.notices = 1 \/ b.keySkipped)
  BY DEF noteFieldSkip, Body, BodyRecord
<1> HIDE DEF n
<1>3. \A x \in BodyRecord, r \in Reasons \cup {Nil, "between"} :
         fail(x, r).line = x.line /\ fail(x, r).notices = x.notices /\ DOMAIN fail(x, r) = DOMAIN x
  BY DEF fail, BodyRecord
<1>4. /\ m.line = n.line /\ m.notices = n.notices /\ DOMAIN m = DOMAIN n
  BY <1>2 DEF fail, BodyRecord
<1> HIDE DEF m
<1>5. /\ e.line = m.line /\ e.notices = m.notices /\ DOMAIN e = DOMAIN m
  BY <1>2, <1>4 DEF fail, merge, BodyRecord
<1> HIDE DEF e
<1>6. /\ c.parser = "between" /\ c.opened = Nil /\ c.marker = Nil /\ c.eventFields = Nil
      /\ c.keySkipped = FALSE /\ c.line = e.line /\ c.notices = e.notices
  BY <1>2, <1>4, <1>5 DEF BodyRecord
<1> HIDE DEF c
<1> QED
  BY <1>1, <1>2, <1>4, <1>5, <1>6

\* The end of an event: position p becomes one of the ends.
LEMMA DispatchStep ==
  ASSUME NEW b \in Body, NEW u, NEW ends, NEW p \in Nat, \A i \in ends : i \in Nat /\ i < p,
         NEW os \in Seq(Objects), Data(u, p) \in Seq(StreamTokens),
         EventAt(b, Data(u, p)), EventsAt(b, u, ends, os, Data(u, p))
  PROVE  LET c == dispatch(b)
         IN  /\ EventAt(c, <<>>)
             /\ EventsAt(c, u, ends \cup {p}, os \o Whole(Data(u, p)), <<>>)
             /\ c.line = b.line
<1> DEFINE c == dispatch(b)
           d == Data(u, p)
           w == Whole(d)
           more == ends \cup {p}
<1>1. /\ c.parser = "between" /\ c.opened = Nil /\ c.marker = Nil /\ c.eventFields = Nil
      /\ c.keySkipped = FALSE /\ c.line = b.line
      /\ c.notices = 1 <=> (b.notices = 1 \/ b.keySkipped)
  BY DispatchFields
<1>2. c \in Body /\ Later(b, c)
  BY DispatchBody
<1>3. w \in Seq(Objects)
  BY WholeTyped
<1> HIDE DEF c, d, w
<1>4. EventAt(c, <<>>)
  <2>1. ParserAt("between", Nil, <<>>)
    BY NothingRead, KindsDiffer DEF ParserAt
  <2> QED
    BY <1>1, <2>1, NothingRead, HasNone DEF EventAt
<1>5. (\E i \in more : LongIn(Data(u, i))) <=> b.notices = 1 \/ b.keySkipped
  <2>1. b.keySkipped <=> LongIn(d)
    BY DEF EventAt, d
  <2>2. /\ (\E i \in ends : LongIn(Data(u, i))) => b.notices = 1
        /\ b.notices = 1 => (\E i \in ends : LongIn(Data(u, i))) \/ LongIn(d)
    BY DEF EventsAt, d
  <2>3. (\E i \in more : LongIn(Data(u, i))) <=> (\E i \in ends : LongIn(Data(u, i))) \/ LongIn(d)
    BY DEF d
  <2> QED
    BY <2>1, <2>2, <2>3
<1>6. /\ (\E i \in more : LongIn(Data(u, i))) => c.notices = 1
      /\ c.notices = 1 => (\E i \in more : LongIn(Data(u, i))) \/ LongIn(<<>>)
  BY <1>1, <1>5
<1>7. Len(Whole(<<>>)) = 0 /\ ~(0 > 1)
  BY NothingRead
<1>8. \A i : i \in Failing(u, more) <=> i \in Failing(u, ends) \/ (i = p /\ EventFailure(d) # Nil)
  BY DEF Failing, d
<1>9. \A i \in Failing(u, ends) : i \in Nat /\ i < p
  BY DEF Failing
<1>10. \A j \in Failing(u, more) : j \in Nat /\ (j \in Failing(u, ends) \/ j = p)
  BY <1>8, <1>9
<1>11. \A j \in Failing(u, ends) : j \in Failing(u, more)
  BY <1>8
<1>12. EventFailure(d) # Nil => p \in Failing(u, more)
  BY <1>8
<1>13. CASE b.failed
  <2>1. c.failed /\ c.failure = b.failure
    BY <1>2, <1>13 DEF Later
  <2>2. CASE Failing(u, ends) = {}
    <3>1. Len(w) > 1 /\ b.failure = "malformed"
      BY <1>13, <2>2 DEF EventsAt, d, w
    <3>2. w # <<>>
      BY <3>1
    <3>3. d # <<>> /\ ~IsDone(d)
      <4>1. d # <<>>
        BY <3>2, NothingRead DEF w
      <4>2. d \in Seq(StreamTokens)
        BY DEF d
      <4>3. d[1].kind # "DONE"
        BY <3>2, <4>1, <4>2, DoneData DEF w
      <4> QED
        BY <4>1, <4>3 DEF IsDone
    <3>4. EventFailure(d) = "malformed"
      BY <3>1, <3>3 DEF EventFailure, w
    <3>5. "malformed" # Nil
      BY ResponseBodyAssumption DEF Reasons
    <3>6. p \in Failing(u, more) /\ \A j \in Failing(u, more) : p <= j
      <4>1. p \in Failing(u, more)
        BY <1>12, <3>4, <3>5
      <4>2. ASSUME NEW j \in Failing(u, more) PROVE p <= j
        <5>1. j = p
          BY <1>10, <2>2
        <5> QED
          BY <5>1
      <4> QED
        BY <4>1, <4>2
    <3>7. c.failure = EventFailure(Data(u, p))
      BY <2>1, <3>1, <3>4 DEF d
    <3> QED
      BY <1>1, <1>4, <1>6, <2>1, <3>6, <3>7 DEF EventsAt, c, d, w
  <2>3. CASE Failing(u, ends) # {}
    <3>1. PICK i \in Failing(u, ends) : /\ \A j \in Failing(u, ends) : i <= j
                                        /\ b.failure = EventFailure(Data(u, i))
      BY <1>13, <2>3 DEF EventsAt
    <3>2. i \in Failing(u, more) /\ \A j \in Failing(u, more) : i <= j
      <4>1. i \in Nat /\ i < p /\ i \in Failing(u, more)
        BY <1>9, <1>11
      <4>2. ASSUME NEW j \in Failing(u, more) PROVE i <= j
        <5>1. CASE j = p
          BY <4>1, <5>1
        <5>2. CASE j \in Failing(u, ends)
          BY <3>1, <5>2
        <5> QED
          BY <1>10, <5>1, <5>2
      <4> QED
        BY <4>1, <4>2
    <3>3. c.failure = EventFailure(Data(u, i))
      BY <2>1, <3>1
    <3> QED
      BY <1>1, <1>4, <1>6, <2>1, <3>2, <3>3 DEF EventsAt, c, d, w
  <2> QED
    BY <2>2, <2>3
<1>14. CASE ~b.failed
  <2>1. /\ Failing(u, ends) = {} /\ ~(Len(w) > 1)
        /\ b.failure = Nil /\ SampleOf(b.sample, os)
        /\ b.terminal <=> \E i \in ends : IsDone(Data(u, i)) \/ HasEnd(Whole(Data(u, i)))
    BY <1>14 DEF EventsAt, d, w
  <2>2. /\ c.failed <=> EventFailure(d) # Nil
        /\ c.failed => c.failure = EventFailure(d)
        /\ ~c.failed => /\ c.failure = Nil /\ SampleOf(c.sample, os \o w)
                        /\ c.terminal <=> b.terminal \/ IsDone(d) \/ HasEnd(w)
    <3>1. d \in Seq(StreamTokens) /\ EventAt(b, d)
      BY DEF d
    <3> QED
      BY <1>14, <2>1, <3>1, EventEffect DEF c, w
  <2>3. (b.terminal \/ IsDone(d) \/ HasEnd(w)) <=>
           \E i \in more : IsDone(Data(u, i)) \/ HasEnd(Whole(Data(u, i)))
    BY <2>1 DEF d, w
  <2>4. c.failed <=> Failing(u, more) # {}
    BY <1>8, <2>1, <2>2
  <2>5. CASE c.failed
    <3>1. p \in Failing(u, more) /\ \A j \in Failing(u, more) : p <= j
      <4>1. p \in Failing(u, more)
        BY <1>12, <2>2, <2>5
      <4>2. ASSUME NEW j \in Failing(u, more) PROVE p <= j
        <5>1. j = p
          BY <1>10, <2>1
        <5> QED
          BY <5>1
      <4> QED
        BY <4>1, <4>2
    <3>2. c.failure = EventFailure(Data(u, p))
      BY <2>2, <2>5 DEF d
    <3> QED
      BY <1>1, <1>4, <1>6, <2>5, <3>1, <3>2 DEF EventsAt, c, d, w
  <2>6. CASE ~c.failed
    <3>1. /\ c.failure = Nil /\ SampleOf(c.sample, os \o w)
          /\ c.terminal <=> \E i \in more : IsDone(Data(u, i)) \/ HasEnd(Whole(Data(u, i)))
      BY <2>2, <2>3, <2>6
    <3>2. Failing(u, more) = {} /\ ~(Len(Whole(<<>>)) > 1)
      BY <1>7, <2>4, <2>6
    <3>3. EventsAt(c, u, more, os \o w, <<>>)
      BY <1>6, <2>6, <3>1, <3>2 DEF EventsAt
    <3> QED
      BY <1>1, <1>4, <3>3 DEF c, d, w
  <2> QED
    BY <2>5, <2>6
<1> QED
  BY <1>13, <1>14

-----------------------------------------------------------------------------
(* Line ends and tokens of an event stream *)

\* b and c hold the same of the events.
Alike(b, c) ==
    /\ c.parser = b.parser /\ c.opened = b.opened /\ c.marker = b.marker
    /\ c.eventFields = b.eventFields /\ c.keySkipped = b.keySkipped /\ c.failed = b.failed
    /\ c.failure = b.failure /\ c.sample = b.sample /\ c.terminal = b.terminal
    /\ c.notices = b.notices

\* What holds of one holds of the other.
LEMMA AlikeHolds ==
  ASSUME NEW b, NEW c, Alike(b, c), NEW u, NEW ends, NEW os, NEW d
  PROVE  /\ EventAt(b, d) => EventAt(c, d)
         /\ EventsAt(b, u, ends, os, d) => EventsAt(c, u, ends, os, d)
<1>1. EventAt(b, d) => EventAt(c, d)
  BY DEF Alike, EventAt
<1>2. EventsAt(b, u, ends, os, d) => EventsAt(c, u, ends, os, d)
  BY DEF Alike, EventsAt
<1> QED
  BY <1>1, <1>2

\* Only the data of the events that have ended matters.
LEMMA SameEvents ==
  ASSUME NEW b, NEW u, NEW v, NEW ends, NEW os, NEW d, \A i \in ends : Data(v, i) = Data(u, i),
         EventsAt(b, u, ends, os, d)
  PROVE  EventsAt(b, v, ends, os, d)
<1>1. Failing(v, ends) = Failing(u, ends)
  BY DEF Failing
<1>2. \A i \in Failing(u, ends) : Data(v, i) = Data(u, i)
  BY DEF Failing
<1>3. (\E i \in ends : IsDone(Data(v, i)) \/ HasEnd(Whole(Data(v, i)))) <=>
         (\E i \in ends : IsDone(Data(u, i)) \/ HasEnd(Whole(Data(u, i))))
  OBVIOUS
<1>4. (\E i \in ends : LongIn(Data(v, i))) <=> (\E i \in ends : LongIn(Data(u, i)))
  OBVIOUS
<1>5. ASSUME b.failed
      PROVE  \/ Failing(v, ends) = {} /\ b.failure = "malformed"
             \/ \E i \in Failing(v, ends) : /\ \A j \in Failing(v, ends) : i <= j
                                            /\ b.failure = EventFailure(Data(v, i))
  <2>1. CASE Failing(u, ends) = {} /\ b.failure = "malformed"
    BY <1>1, <2>1
  <2>2. CASE \E i \in Failing(u, ends) : /\ \A j \in Failing(u, ends) : i <= j
                                         /\ b.failure = EventFailure(Data(u, i))
    BY <1>1, <1>2, <2>2
  <2> QED
    BY <1>5, <2>1, <2>2 DEF EventsAt
<1> QED
  BY <1>1, <1>3, <1>4, <1>5 DEF EventsAt

\* What a token changes of the events and the line.
LEMMA TokenFacts ==
  ASSUME NEW u \in Seq(StreamTokens), NEW t \in StreamTokens
  PROVE  LET v == Append(u, t)
             n == Len(u)
             d == Data(u, n + 1)
             blank == t.kind = "LF" /\ Begins(u, n + 1)
         IN  /\ n \in Nat /\ Len(v) + 1 = n + 2
             /\ d \in Seq(StreamTokens) /\ Past(u) \in Seq(Objects)
             /\ \A i \in Blanks(u) : i \in Nat /\ i < n + 1
             /\ \A i \in Blanks(u) : Data(v, i) = Data(u, i)
             /\ Data(v, n + 1) = d
             /\ blank => /\ Blanks(v) = Blanks(u) \cup {n + 1} /\ Past(v) = Past(u) \o Whole(d)
                         /\ Data(v, n + 2) = <<>>
             /\ ~blank => /\ Blanks(v) = Blanks(u) /\ Past(v) = Past(u)
                          /\ Data(v, n + 2) = IF OnDataLine(u, n + 1) /\ Kept(t, d)
                                              THEN Append(d, t) ELSE d
<1> DEFINE v == Append(u, t)
           n == Len(u)
           d == Data(u, n + 1)
           blank == t.kind = "LF" /\ Begins(u, n + 1)
<1>1. n \in Nat /\ Len(v) + 1 = n + 2 /\ DOMAIN u = 1..n /\ DOMAIN v = 1..(n + 1) /\ n + 1 \in 1..(n + 1)
  OBVIOUS
<1>2. \A i \in 1..(n + 1) : Data(v, i) = Data(u, i) /\ Data(u, i) \in Seq(StreamTokens)
  BY DataBefore
<1>3. Data(v, n + 1) = d /\ d \in Seq(StreamTokens)
  BY <1>1, <1>2
<1>4. BlankAt(v, n + 1) <=> blank
  BY LastLine
<1>5. \A i \in 1..n : BlankAt(v, i) <=> BlankAt(u, i)
  BY LinesAppend
<1>6. /\ Past(v) = Past(u) \o (IF BlankAt(v, n + 1) THEN Whole(d) ELSE <<>>)
      /\ Past(u) \in Seq(Objects)
  BY PastAppend
<1>7. Data(v, n + 2) = IF BlankAt(v, n + 1) THEN <<>>
                       ELSE IF OnDataLine(u, n + 1) /\ Kept(t, d) THEN Append(d, t) ELSE d
  BY DataAppend
<1> HIDE DEF v, n, d, blank
<1>8. \A i \in Blanks(u) : i \in 1..n /\ i \in Nat /\ i < n + 1 /\ i \in 1..(n + 1)
  BY <1>1 DEF Blanks
<1>9. \A i \in Blanks(u) : Data(v, i) = Data(u, i)
  BY <1>2, <1>8
<1>10. CASE blank
  <2>1. Blanks(v) = Blanks(u) \cup {n + 1}
    BY <1>1, <1>4, <1>5, <1>10 DEF Blanks
  <2> QED
    BY <1>1, <1>3, <1>4, <1>6, <1>7, <1>8, <1>9, <1>10, <2>1 DEF v, n, d, blank
<1>11. CASE ~blank
  <2>1. Blanks(v) = Blanks(u)
    <3>1. ~BlankAt(v, n + 1) /\ \A i \in 1..(n + 1) : i \in 1..n \/ i = n + 1
      BY <1>1, <1>4, <1>11
    <3>2. \A i \in 1..n : i \in 1..(n + 1)
      BY <1>1
    <3> QED
      BY <1>1, <1>5, <3>1, <3>2 DEF Blanks
  <2>2. Past(v) = Past(u)
    BY <1>4, <1>6, <1>11
  <2> QED
    BY <1>1, <1>3, <1>4, <1>6, <1>7, <1>8, <1>9, <1>11, <2>1, <2>2 DEF v, n, d, blank
<1> QED
  BY <1>10, <1>11
\* What the emit callback does in an event stream.
LEMMA EmittedFields ==
  ASSUME sse, NEW b \in Body, NEW o \in Objects
  PROVE  LET c == emitted(b, o)
         IN  /\ c.parser = b.parser /\ c.opened = b.opened /\ c.marker = b.marker
             /\ c.line = b.line /\ c.keySkipped = b.keySkipped /\ c.eventFields = o
             /\ c.notices = b.notices
             /\ b.eventFields = Nil => /\ c.failed = b.failed /\ c.failure = b.failure
                                       /\ c.sample = b.sample /\ c.terminal = b.terminal
             /\ b.eventFields # Nil =>
                   c.failed /\ c.failure = IF b.failure = Nil THEN "malformed" ELSE b.failure
  BY DEF emitted, fail, Body, BodyRecord

\* A token of the event's data that is not [DONE] and means something to JSON.
LEMMA ParsedKept ==
  ASSUME sse, NEW b \in Body, NEW d \in Seq(StreamTokens), NEW t \in StreamTokens, Kept(t, d),
         NEW u, NEW ends, NEW os,
         EventAt(b, d), EventsAt(b, u, ends, os, d), b.marker = Nil,
         ~(t.kind = "DONE" /\ b.parser = "between" /\ b.eventFields = Nil)
  PROVE  LET c == parse(b, t)
             e == Append(d, t)
         IN  EventAt(c, e) /\ EventsAt(c, u, ends, os, e) /\ c.line = b.line
<1> DEFINE c == parse(b, t)
           e == Append(d, t)
           w == Whole(d)
<1>1. /\ ParserAt(b.parser, b.opened, d)
      /\ d # <<>> => d[1].kind # "DONE"
      /\ b.eventFields = IF w = <<>> THEN Nil ELSE w[Len(w)]
      /\ b.keySkipped <=> LongIn(d)
  BY DEF EventAt
<1>2. w \in Seq(Objects) /\ Nil \notin Objects
  BY WholeTyped, ResponseBodyAssumption
<1>3. e # <<>> /\ e[1].kind # "DONE"
  <2>1. CASE d = <<>>
    <3>1. w = <<>>
      BY <2>1, NothingRead
    <3>2. b.parser = "between"
      BY <1>1, <2>1, NothingRead DEF ParserAt
    <3>3. t.kind # "DONE"
      BY <1>1, <3>1, <3>2
    <3> QED
      BY <2>1, <3>3
  <2>2. CASE d # <<>>
    <3>1. e[1] = d[1] /\ e # <<>>
      BY <2>2
    <3> QED
      BY <1>1, <2>2, <3>1
  <2> QED
    BY <2>1, <2>2
<1>4. b.eventFields = Nil <=> w = <<>>
  <2>1. w # <<>> => w[Len(w)] \in Objects
    BY <1>2
  <2> QED
    BY <1>1, <1>2, <2>1
<1> HIDE DEF c, e, w
<1>5. LongIn(d) => LongIn(e)
  BY LongInAppend DEF e
<1>6. PICK p, x, k :
         /\ k \in BOOLEAN /\ (k <=> LongIn(e)) /\ ParserAt(p, x, e)
         /\ LET a == [b EXCEPT !.parser = p, !.opened = x, !.keySkipped = k]
            IN  \/ Whole(e) = w /\ c = a
                \/ \E o \in Objects : /\ Whole(e) = Append(w, o)
                                      /\ p = "between" /\ x = Nil
                                      /\ c = emitted(a, o)
  BY <1>1, ParseStep DEF c, e, w
<1> DEFINE a == [b EXCEPT !.parser = p, !.opened = x, !.keySkipped = k]
<1>7. /\ a.parser = p /\ a.opened = x /\ a.keySkipped = k
      /\ a.marker = b.marker /\ a.line = b.line
      /\ a.eventFields = b.eventFields /\ a.failed = b.failed /\ a.failure = b.failure
      /\ a.sample = b.sample /\ a.terminal = b.terminal /\ a.notices = b.notices
      /\ p = "between" /\ x = Nil => a \in Body
  <2>1. k \in BOOLEAN
    BY <1>6
  <2> QED
    BY <2>1, KindsDiffer DEF Body, BodyRecord
<1>8. \/ Whole(e) = w /\ c = a
      \/ \E o \in Objects : Whole(e) = Append(w, o) /\ p = "between" /\ x = Nil /\ c = emitted(a, o)
  BY <1>6
<1> HIDE DEF a
<1>9. CASE Whole(e) = w /\ c = a
  <2>1. EventAt(c, e)
    BY <1>1, <1>3, <1>6, <1>7, <1>9 DEF EventAt
  <2>2. EventsAt(c, u, ends, os, e)
    BY <1>5, <1>7, <1>9 DEF EventsAt, w
  <2> QED
    BY <1>7, <1>9, <2>1, <2>2 DEF c, e
<1>10. CASE \E o \in Objects :
               Whole(e) = Append(w, o) /\ p = "between" /\ x = Nil /\ c = emitted(a, o)
  <2>1. PICK o \in Objects :
           Whole(e) = Append(w, o) /\ p = "between" /\ x = Nil /\ c = emitted(a, o)
    BY <1>10
  <2>2. /\ c.parser = a.parser /\ c.opened = a.opened /\ c.marker = a.marker
        /\ c.line = a.line /\ c.keySkipped = a.keySkipped /\ c.eventFields = o
        /\ c.notices = a.notices
        /\ a.eventFields = Nil => /\ c.failed = a.failed /\ c.failure = a.failure
                                  /\ c.sample = a.sample /\ c.terminal = a.terminal
        /\ a.eventFields # Nil =>
              c.failed /\ c.failure = IF a.failure = Nil THEN "malformed" ELSE a.failure
    BY <1>7, <2>1, EmittedFields
  <2> DEFINE more == Append(w, o)
  <2>3. more # <<>> /\ more[Len(more)] = o
    BY <1>2
  <2>4. Len(more) > 1 <=> w # <<>>
    <3> DEFINE n == Len(w)
    <3>1. n \in Nat /\ Len(more) = n + 1 /\ (w = <<>> <=> n = 0)
      BY <1>2
    <3> HIDE DEF n, more
    <3>2. n + 1 > 1 <=> n # 0
      BY <3>1
    <3> QED
      BY <3>1, <3>2
  <2>5. Len(w) > 1 => w # <<>>
    <3>1. Len(<<>>) = 0
      OBVIOUS
    <3> QED
      BY <3>1
  <2>6. Whole(e) = more
    BY <2>1
  <2> HIDE DEF more
  <2>7. EventAt(c, e)
    BY <1>1, <1>3, <1>6, <1>7, <2>1, <2>2, <2>3, <2>6 DEF EventAt
  <2>8. /\ b.failed <=> Failing(u, ends) # {} \/ Len(w) > 1
        /\ b.failed =>
              \/ Failing(u, ends) = {} /\ b.failure = "malformed"
              \/ \E i \in Failing(u, ends) : /\ \A j \in Failing(u, ends) : i <= j
                                             /\ b.failure = EventFailure(Data(u, i))
        /\ ~b.failed =>
              /\ b.failure = Nil /\ SampleOf(b.sample, os)
              /\ b.terminal <=> \E i \in ends : IsDone(Data(u, i)) \/ HasEnd(Whole(Data(u, i)))
        /\ (\E i \in ends : LongIn(Data(u, i))) => b.notices = 1
        /\ b.notices = 1 => (\E i \in ends : LongIn(Data(u, i))) \/ LongIn(d)
    BY DEF EventsAt, w
  <2>9. /\ (\E i \in ends : LongIn(Data(u, i))) => c.notices = 1
        /\ c.notices = 1 => (\E i \in ends : LongIn(Data(u, i))) \/ LongIn(e)
    BY <1>5, <1>7, <2>2, <2>8
  <2>10. EventsAt(c, u, ends, os, e)
    <3>1. CASE w = <<>>
      <4>1. c.failed = b.failed /\ c.failure = b.failure /\ c.sample = b.sample /\ c.terminal = b.terminal
        BY <1>4, <1>7, <2>2, <3>1
      <4>2. ~(Len(more) > 1) /\ ~(Len(w) > 1)
        BY <2>4, <2>5, <3>1
      <4> QED
        BY <2>6, <2>8, <2>9, <4>1, <4>2 DEF EventsAt
    <3>2. CASE w # <<>>
      <4>1. c.failed /\ c.failure = IF b.failure = Nil THEN "malformed" ELSE b.failure
        BY <1>4, <1>7, <2>2, <3>2
      <4>2. Len(more) > 1
        BY <2>4, <3>2
      <4>3. CASE b.failed
        <5>1. b.failure # Nil
          BY <4>3, ResponseBodyAssumption DEF Body
        <5> QED
          BY <2>6, <2>8, <2>9, <4>1, <4>2, <4>3, <5>1 DEF EventsAt
      <4>4. CASE ~b.failed
        <5>1. Failing(u, ends) = {} /\ c.failure = "malformed"
          BY <2>8, <4>1, <4>4
        <5> QED
          BY <2>6, <2>8, <2>9, <4>1, <4>2, <5>1 DEF EventsAt
      <4> QED
        BY <4>3, <4>4
    <3> QED
      BY <3>1, <3>2
  <2> QED
    BY <1>7, <2>2, <2>7, <2>10 DEF c, e
<1> QED
  BY <1>8, <1>9, <1>10

\* A token of the event's data that is not [DONE] goes to the parser.
LEMMA ParsedToken ==
  ASSUME sse, NEW b \in Body, NEW d \in Seq(StreamTokens), NEW t \in StreamTokens,
         NEW u, NEW ends, NEW os,
         EventAt(b, d), EventsAt(b, u, ends, os, d), b.marker = Nil,
         ~(t.kind = "DONE" /\ b.parser = "between" /\ b.eventFields = Nil)
  PROVE  LET c == parse(b, t)
             e == IF Kept(t, d) THEN Append(d, t) ELSE d
         IN  EventAt(c, e) /\ EventsAt(c, u, ends, os, e) /\ c.line = b.line
<1>1. CASE Kept(t, d)
  <2> DEFINE c == parse(b, t)
  <2>1. EventAt(c, Append(d, t)) /\ EventsAt(c, u, ends, os, Append(d, t)) /\ c.line = b.line
    BY <1>1, ParsedKept
  <2> HIDE DEF c
  <2> QED
    BY <1>1, <2>1 DEF c
<1>2. CASE ~Kept(t, d)
  <2>1. ParserAt(b.parser, b.opened, d)
    BY DEF EventAt
  <2>2. parse(b, t) = b
    BY <1>2, <2>1, ParseDropped
  <2> QED
    BY <1>2, <2>2
<1> QED
  BY <1>1, <1>2

\* Data after [DONE] means nothing, and is no [DONE].
LEMMA AfterDone ==
  ASSUME NEW d \in Seq(StreamTokens), d # <<>>, d[1].kind = "DONE", NEW t \in StreamTokens
  PROVE  LET e == Append(d, t)
         IN  /\ e # <<>> /\ e[1].kind = "DONE" /\ Len(e) # 1 /\ e \in Seq(StreamTokens)
             /\ Whole(e) = Whole(d) /\ ~LongIn(d) /\ ~LongIn(e)
<1> DEFINE e == Append(d, t)
<1>1. Len(d) \in Nat /\ Len(d) # 0 /\ Len(e) = Len(d) + 1
  OBVIOUS
<1>2. e[1] = d[1] /\ e # <<>> /\ e \in Seq(StreamTokens)
  OBVIOUS
<1> HIDE DEF e
<1>3. Len(e) # 1
  BY <1>1
<1>4. Whole(d) = <<>> /\ ~LongIn(d)
  BY DoneData
<1>5. Whole(e) = <<>> /\ ~LongIn(e)
  BY <1>2, DoneData
<1> QED
  BY <1>2, <1>3, <1>4, <1>5 DEF e

\* A line end, blank or not.
LEMMA NewlineStep ==
  ASSUME sse, NEW b \in Body, NEW u \in Seq(StreamTokens), StreamAt(b, u)
  PROVE  StreamAt(newline(b), Append(u, Mark("LF")))
<1> DEFINE t == Mark("LF")
           v == Append(u, t)
           n == Len(u)
           d == Data(u, n + 1)
           a == CASE b.line = "fresh" -> dispatch(b)
                  [] b.line = "data" /\ b.marker = Nil -> parse(b, t)
                  [] OTHER -> b
           c == newline(b)
<1>1. t \in StreamTokens /\ t.kind = "LF"
  BY DEF Mark, StreamTokens, JSONTokens
<1>2. c = [a EXCEPT !.line = "fresh"]
  BY DEF newline
<1> HIDE DEF t
<1>3. /\ n \in Nat /\ Len(v) + 1 = n + 2
      /\ d \in Seq(StreamTokens) /\ Past(u) \in Seq(Objects)
      /\ \A i \in Blanks(u) : i \in Nat /\ i < n + 1
      /\ \A i \in Blanks(u) : Data(v, i) = Data(u, i)
      /\ Data(v, n + 1) = d
      /\ Begins(u, n + 1) => /\ Blanks(v) = Blanks(u) \cup {n + 1} /\ Past(v) = Past(u) \o Whole(d)
                             /\ Data(v, n + 2) = <<>>
      /\ ~Begins(u, n + 1) => /\ Blanks(v) = Blanks(u) /\ Past(v) = Past(u)
                              /\ Data(v, n + 2) = IF OnDataLine(u, n + 1) /\ Kept(t, d)
                                                  THEN Append(d, t) ELSE d
  BY <1>1, TokenFacts
<1>4. Begins(v, n + 2)
  BY <1>1, LastLine
<1>5. b.line = IF Begins(u, n + 1) THEN "fresh" ELSE IF OnDataLine(u, n + 1) THEN "data" ELSE "other"
  BY DEF StreamAt, LineAt
<1>6. EventAt(b, d) /\ EventsAt(b, u, Blanks(u), Past(u), d)
  BY DEF StreamAt
<1>7. a \in Body
  BY <1>1, DispatchBody, ParseBody
<1> HIDE DEF v, n, d, a, c
<1>8. Alike(a, c) /\ c.line = "fresh"
  BY <1>2, <1>7 DEF Alike, Body, BodyRecord
<1>9. EventsAt(b, v, Blanks(u), Past(u), d)
  BY <1>3, <1>6, SameEvents
<1>10. EventAt(a, Data(v, n + 2)) /\ EventsAt(a, v, Blanks(v), Past(v), Data(v, n + 2))
  <2>1. CASE Begins(u, n + 1)
    <3>1. a = dispatch(b)
      BY <1>5, <2>1 DEF a
    <3> DEFINE ends == Blanks(u)
               os == Past(u)
               p == n + 1
    <3>2. /\ p \in Nat /\ (\A i \in ends : i \in Nat /\ i < p) /\ os \in Seq(Objects)
          /\ Data(v, p) \in Seq(StreamTokens) /\ EventAt(b, Data(v, p))
          /\ EventsAt(b, v, ends, os, Data(v, p))
      BY <1>3, <1>6, <1>9
    <3> HIDE DEF ends, os, p
    <3>3. EventAt(a, <<>>) /\ EventsAt(a, v, ends \cup {p}, os \o Whole(Data(v, p)), <<>>)
      BY <3>1, <3>2, DispatchStep
    <3> QED
      BY <1>3, <2>1, <3>3 DEF ends, os, p
  <2>2. CASE ~Begins(u, n + 1) /\ OnDataLine(u, n + 1) /\ b.marker = Nil
    <3>1. a = parse(b, t)
      BY <1>5, <2>2 DEF a
    <3>2. EventAt(b, d) /\ EventsAt(b, v, Blanks(u), Past(u), d) /\ t.kind # "DONE"
      BY <1>1, <1>6, <1>9
    <3> DEFINE ends == Blanks(u)
               os == Past(u)
               e == IF Kept(t, d) THEN Append(d, t) ELSE d
    <3> HIDE DEF ends, os, e
    <3>3. EventAt(a, e) /\ EventsAt(a, v, ends, os, e)
      BY <1>1, <1>3, <2>2, <3>1, <3>2, ParsedToken DEF ends, os, e
    <3>4. Data(v, n + 2) = e /\ Blanks(v) = ends /\ Past(v) = os
      BY <1>3, <2>2 DEF ends, os, e
    <3> QED
      BY <3>3, <3>4
  <2>3. CASE ~Begins(u, n + 1) /\ OnDataLine(u, n + 1) /\ b.marker # Nil
    <3>1. a = b
      BY <1>5, <2>3 DEF a
    <3>2. CASE ~Kept(t, d)
      BY <1>3, <1>6, <1>9, <2>3, <3>1, <3>2
    <3>3. CASE Kept(t, d)
      <4> DEFINE e == Append(d, t)
      <4>1. /\ d # <<>> /\ d[1].kind = "DONE" /\ (b.marker = "done" <=> Len(d) = 1)
            /\ b.parser = "between" /\ b.eventFields = Nil
        BY <1>6, <2>3 DEF EventAt
      <4>2. b.marker # "done"
        <5>1. d[Len(d)].kind \in {"string", "scalar"}
          BY <1>1, <3>3 DEF Kept, LastIn
        <5> QED
          BY <4>1, <5>1
      <4>3. /\ e # <<>> /\ e[1].kind = "DONE" /\ Len(e) # 1
            /\ Whole(e) = Whole(d) /\ ~LongIn(d) /\ ~LongIn(e)
        BY <1>1, <1>3, <4>1, AfterDone
      <4>4. Data(v, n + 2) = e
        BY <1>3, <2>3, <3>3
      <4> HIDE DEF e
      <4>5. EventAt(b, e)
        BY <1>6, <2>3, <4>1, <4>2, <4>3 DEF EventAt
      <4>6. EventsAt(b, v, Blanks(u), Past(u), e)
        BY <1>9, <4>3 DEF EventsAt
      <4> QED
        BY <1>3, <2>3, <3>1, <4>4, <4>5, <4>6
    <3> QED
      BY <3>2, <3>3
  <2>4. CASE ~Begins(u, n + 1) /\ ~OnDataLine(u, n + 1)
    <3>1. a = b
      BY <1>5, <2>4 DEF a
    <3> QED
      BY <1>3, <1>6, <1>9, <2>4, <3>1
  <2> QED
    BY <2>1, <2>2, <2>3, <2>4
<1>11. EventAt(c, Data(v, n + 2)) /\ EventsAt(c, v, Blanks(v), Past(v), Data(v, n + 2))
  BY <1>8, <1>10, AlikeHolds
<1>12. c.line = LineAt(v)
  BY <1>3, <1>4, <1>8 DEF LineAt
<1> QED
  BY <1>3, <1>11, <1>12 DEF StreamAt, c, v, t

\* A token that is not a line end.
LEMMA TokenStep ==
  ASSUME sse, NEW b \in Body, NEW u \in Seq(StreamTokens), StreamAt(b, u),
         NEW t \in StreamTokens, t.kind # "LF"
  PROVE  StreamAt(sseToken(b, t), Append(u, t))
<1> DEFINE v == Append(u, t)
           n == Len(u)
           d == Data(u, n + 1)
           ends == Blanks(u)
           os == Past(u)
           c == sseToken(b, t)
<1>1. /\ n \in Nat /\ Len(v) + 1 = n + 2 /\ d \in Seq(StreamTokens)
      /\ \A i \in ends : Data(v, i) = Data(u, i)
      /\ Blanks(v) = ends /\ Past(v) = os
      /\ Data(v, n + 2) = IF OnDataLine(u, n + 1) /\ Kept(t, d) THEN Append(d, t) ELSE d
  BY TokenFacts
<1>2. /\ ~Begins(v, n + 2)
      /\ OnDataLine(v, n + 2) <=> OnDataLine(u, n + 1) \/ (Begins(u, n + 1) /\ t.kind = "data")
      /\ Begins(u, n + 1) => ~OnDataLine(u, n + 1)
  BY LastLine
<1>3. EventAt(b, d) /\ EventsAt(b, u, ends, os, d)
  BY DEF StreamAt
<1>4. b.line = IF Begins(u, n + 1) THEN "fresh" ELSE IF OnDataLine(u, n + 1) THEN "data" ELSE "other"
  BY DEF StreamAt, LineAt
<1>5. LineAt(v) = IF OnDataLine(u, n + 1) \/ (Begins(u, n + 1) /\ t.kind = "data") THEN "data" ELSE "other"
  BY <1>1, <1>2 DEF LineAt
<1> HIDE DEF v, n, d, ends, os
<1>6. EventsAt(b, v, ends, os, d)
  BY <1>1, <1>3, SameEvents
<1>7. SUFFICES /\ c.line = LineAt(v) /\ EventAt(c, Data(v, n + 2))
               /\ EventsAt(c, v, ends, os, Data(v, n + 2))
  BY <1>1 DEF StreamAt, c, v
<1>8. CASE Begins(u, n + 1)
  <2> DEFINE l == IF t.kind = "data" THEN "data" ELSE "other"
  <2>1. c = [b EXCEPT !.line = l]
    BY <1>4, <1>8 DEF sseToken
  <2>2. Alike(b, c) /\ c.line = l
    BY <2>1 DEF Alike, Body, BodyRecord
  <2>3. Data(v, n + 2) = d /\ LineAt(v) = l
    BY <1>1, <1>2, <1>5, <1>8
  <2> HIDE DEF c, l
  <2> QED
    BY <1>3, <1>6, <2>2, <2>3, AlikeHolds
<1>9. CASE ~Begins(u, n + 1) /\ ~OnDataLine(u, n + 1)
  <2>1. c = b
    BY <1>4, <1>9 DEF sseToken
  <2>2. Data(v, n + 2) = d /\ LineAt(v) = "other" /\ b.line = "other"
    BY <1>1, <1>4, <1>5, <1>9
  <2> HIDE DEF c
  <2> QED
    BY <1>3, <1>6, <2>1, <2>2
<1>10. CASE ~Begins(u, n + 1) /\ OnDataLine(u, n + 1)
  <2> DEFINE e == IF Kept(t, d) THEN Append(d, t) ELSE d
  <2>1. Data(v, n + 2) = e /\ LineAt(v) = "data" /\ b.line = "data"
    BY <1>1, <1>4, <1>5, <1>10
  <2>2. "done" # Nil /\ "junk" # Nil /\ Nil \notin Objects
    BY ResponseBodyAssumption
  <2>3. CASE b.marker # Nil
    <3>1. c = [b EXCEPT !.marker = "junk"]
      BY <2>1, <2>3 DEF sseToken
    <3>2. /\ c.parser = b.parser /\ c.opened = b.opened /\ c.marker = "junk"
          /\ c.eventFields = b.eventFields /\ c.keySkipped = b.keySkipped /\ c.failed = b.failed
          /\ c.failure = b.failure /\ c.sample = b.sample /\ c.terminal = b.terminal
          /\ c.notices = b.notices /\ c.line = b.line
      BY <3>1 DEF Body, BodyRecord
    <3>3. d # <<>> /\ d[1].kind = "DONE" /\ b.parser = "between" /\ b.eventFields = Nil
      BY <1>3, <2>3 DEF EventAt
    <3>4. /\ e # <<>> /\ e[1].kind = "DONE" /\ Len(e) # 1
          /\ Whole(e) = Whole(d) /\ ~LongIn(d) /\ ~LongIn(e)
      <4>1. CASE Kept(t, d)
        BY <1>1, <3>3, <4>1, AfterDone
      <4>2. CASE ~Kept(t, d)
        <5>1. d[Len(d)].kind = "string"
          BY <4>2 DEF Kept, LastIn
        <5>2. Whole(d) = <<>> /\ ~LongIn(d) /\ Len(d) # 1
          BY <1>1, <3>3, <5>1, DoneData
        <5> QED
          BY <3>3, <4>2, <5>2
      <4> QED
        BY <4>1, <4>2
    <3> HIDE DEF c, e
    <3>5. EventAt(c, e)
      BY <1>3, <2>2, <3>2, <3>3, <3>4 DEF EventAt
    <3>6. EventsAt(c, v, ends, os, e)
      BY <1>6, <3>2, <3>4 DEF EventsAt
    <3> QED
      BY <2>1, <3>2, <3>5, <3>6
  <2>4. CASE b.marker = Nil /\ t.kind = "DONE" /\ b.parser = "between" /\ b.eventFields = Nil
    <3>1. c = [b EXCEPT !.marker = "done"]
      BY <2>1, <2>4 DEF sseToken
    <3>2. /\ c.parser = b.parser /\ c.opened = b.opened /\ c.marker = "done"
          /\ c.eventFields = b.eventFields /\ c.keySkipped = b.keySkipped /\ c.failed = b.failed
          /\ c.failure = b.failure /\ c.sample = b.sample /\ c.terminal = b.terminal
          /\ c.notices = b.notices /\ c.line = b.line
      BY <3>1 DEF Body, BodyRecord
    <3>3. d = <<>>
      <4>1. Whole(d) = <<>>
        <5>1. Whole(d) \in Seq(Objects)
          BY <1>1, WholeTyped
        <5>2. Whole(d) # <<>> => Whole(d)[Len(Whole(d))] \in Objects
          BY <5>1
        <5> QED
          BY <1>3, <2>2, <2>4, <5>2 DEF EventAt
      <4> QED
        BY <1>3, <2>4, <4>1 DEF EventAt, ParserAt
    <3>4. e = Append(d, t)
      BY <2>4, <3>3 DEF Kept, LastIn
    <3>5. e # <<>> /\ e[1].kind = "DONE" /\ Len(e) = 1 /\ e \in Seq(StreamTokens)
      BY <2>4, <3>3, <3>4
    <3>6. Whole(d) = <<>> /\ Whole(e) = <<>> /\ ~LongIn(d) /\ ~LongIn(e)
      BY <3>3, <3>5, DoneData, NothingRead, HasNone
    <3> HIDE DEF c, e
    <3>7. EventAt(c, e)
      BY <1>3, <2>2, <2>4, <3>2, <3>5, <3>6 DEF EventAt
    <3>8. EventsAt(c, v, ends, os, e)
      BY <1>6, <3>2, <3>6 DEF EventsAt
    <3> QED
      BY <2>1, <3>2, <3>7, <3>8
  <2>5. CASE b.marker = Nil /\ ~(t.kind = "DONE" /\ b.parser = "between" /\ b.eventFields = Nil)
    <3>1. c = parse(b, t)
      BY <2>1, <2>5 DEF sseToken
    <3> HIDE DEF c
    <3>2. EventAt(c, e) /\ EventsAt(c, v, ends, os, e) /\ c.line = b.line
      BY <1>1, <1>3, <1>6, <2>5, <3>1, ParsedToken
    <3> QED
      BY <2>1, <3>2
  <2> QED
    BY <2>3, <2>4, <2>5
<1> QED
  BY <1>8, <1>9, <1>10

\* The skip notice changes nothing else.
LEMMA StreamNoted ==
  ASSUME NEW b \in Body, NEW u, StreamAt(b, u)
  PROVE  StreamAt(noteFieldSkip(b), u)
<1> DEFINE c == noteFieldSkip(b)
           d == Data(u, Len(u) + 1)
<1>1. /\ c.parser = b.parser /\ c.opened = b.opened /\ c.marker = b.marker
      /\ c.eventFields = b.eventFields /\ c.keySkipped = b.keySkipped /\ c.failed = b.failed
      /\ c.failure = b.failure /\ c.sample = b.sample /\ c.terminal = b.terminal
      /\ c.line = b.line
      /\ c.notices = 1 <=> (b.keySkipped \/ b.notices = 1)
  BY DEF noteFieldSkip, Body, BodyRecord
<1>2. b.line = LineAt(u) /\ EventAt(b, d) /\ EventsAt(b, u, Blanks(u), Past(u), d)
  BY DEF StreamAt
<1> HIDE DEF c, d
<1>3. EventAt(c, d)
  BY <1>1, <1>2 DEF EventAt
<1>4. b.keySkipped <=> LongIn(d)
  BY <1>2 DEF EventAt
<1>5. EventsAt(c, u, Blanks(u), Past(u), d)
  BY <1>1, <1>2, <1>4 DEF EventsAt
<1> QED
  BY <1>1, <1>2, <1>3, <1>5 DEF StreamAt, c, d

\* pendingCR is not part of what is known of the stream.
LEMMA StreamAssigned ==
  ASSUME NEW b \in Body, NEW x \in BOOLEAN, NEW u, StreamAt(b, u)
  PROVE  LET c == [b EXCEPT !.pendingCR = x]
         IN  c \in Body /\ c.pendingCR = x /\ StreamAt(c, u)
<1> DEFINE c == [b EXCEPT !.pendingCR = x]
<1>1. c \in Body /\ c.pendingCR = x /\ Alike(b, c) /\ c.line = b.line
  BY DEF Alike, Body, BodyRecord
<1> HIDE DEF c
<1>2. StreamAt(c, u)
  BY <1>1, AlikeHolds DEF StreamAt
<1> QED
  BY <1>1, <1>2 DEF c

-----------------------------------------------------------------------------
(* Reading and ending an event stream *)

\* Only Read assigns pendingCR.
LEMMA PendingKept ==
  ASSUME NEW b \in Body
  PROVE  /\ noteFieldSkip(b).pendingCR = b.pendingCR
         /\ newline(b).pendingCR = b.pendingCR
         /\ \A t \in StreamTokens : sseToken(b, t).pendingCR = b.pendingCR
<1> DEFINE KeepsCR(x, y) == /\ DOMAIN x = DOMAIN y /\ x.pendingCR = y.pendingCR
<1>1. ASSUME NEW x, "pendingCR" \in DOMAIN x, NEW r PROVE KeepsCR(fail(x, r), x)
  BY DEF fail
<1>2. ASSUME NEW x, "pendingCR" \in DOMAIN x, NEW o PROVE KeepsCR(merge(x, o), x)
  BY DEF merge, fail
<1>3. ASSUME NEW x, "pendingCR" \in DOMAIN x, NEW o PROVE KeepsCR(emitted(x, o), x)
  BY DEF emitted, merge, fail
<1>4. ASSUME NEW x, "pendingCR" \in DOMAIN x PROVE KeepsCR(noteFieldSkip(x), x)
  BY DEF noteFieldSkip
<1>5. ASSUME NEW x, "pendingCR" \in DOMAIN x PROVE KeepsCR(dispatch(x), x)
  <2> DEFINE n == noteFieldSkip(x)
             m == CASE n.marker = "done" -> [n EXCEPT !.terminal = TRUE]
                    [] n.marker = "junk" -> fail(n, "malformed")
                    [] OTHER -> n
             e == CASE m.parser # "between" -> fail(m, failureReason(m))
                    [] m.parser = "between" /\ m.eventFields # Nil -> merge(m, m.eventFields)
                    [] OTHER -> m
             c == [e EXCEPT !.eventFields = Nil, !.marker = Nil, !.parser = "between",
                            !.opened = Nil, !.keySkipped = FALSE]
  <2>1. dispatch(x) = c
    BY DEF dispatch, finishEvent
  <2>2. KeepsCR(n, x)
    BY <1>4, <1>5
  <2> HIDE DEF n
  <2>3. KeepsCR(m, n)
    BY <1>1, <1>5, <2>2
  <2> HIDE DEF m
  <2>4. KeepsCR(e, m)
    BY <1>1, <1>2, <1>5, <2>2, <2>3
  <2> HIDE DEF e
  <2>5. KeepsCR(c, e)
    BY <1>5, <2>2, <2>3, <2>4
  <2> QED
    BY <2>1, <2>2, <2>3, <2>4, <2>5
<1>6. "pendingCR" \in DOMAIN b
  BY DEF Body, BodyRecord
<1>7. ASSUME NEW t \in StreamTokens PROVE KeepsCR(parse(b, t), b)
  <2> DEFINE named == [b EXCEPT !.keySkipped = @ \/ t.longName]
             over == [named EXCEPT !.parser = "between", !.opened = Nil]
  <2>1. KeepsCR(named, b) /\ KeepsCR(over, b) /\ "pendingCR" \in DOMAIN over
    BY <1>6
  <2>2. \/ parse(b, t) = b
        \/ parse(b, t) = emitted(over, t.object)
        \/ parse(b, t) = [named EXCEPT !.parser = t.kind, !.opened = t.object]
        \/ parse(b, t) = emitted(over, b.opened)
        \/ parse(b, t) = [b EXCEPT !.parser = t.kind]
        \/ parse(b, t) = [b EXCEPT !.parser = "malformed"]
    BY DEF parse
  <2> HIDE DEF over
  <2>3. KeepsCR(emitted(over, t.object), over) /\ KeepsCR(emitted(over, b.opened), over)
    BY <1>3, <2>1
  <2> QED
    BY <1>6, <2>1, <2>2, <2>3
<1>8. KeepsCR(newline(b), b)
  <2>1. KeepsCR(dispatch(b), b) /\ Mark("LF") \in StreamTokens
    BY <1>5, <1>6 DEF StreamTokens, JSONTokens
  <2>2. KeepsCR(parse(b, Mark("LF")), b)
    BY <1>7, <2>1
  <2> QED
    BY <1>6, <2>1, <2>2 DEF newline
<1>9. ASSUME NEW t \in StreamTokens PROVE KeepsCR(sseToken(b, t), b)
  <2>1. KeepsCR(parse(b, t), b)
    BY <1>7
  <2> QED
    BY <1>6, <2>1 DEF sseToken
<1> QED
  BY <1>4, <1>6, <1>8, <1>9

\* Reading one token of an event stream.
LEMMA StreamRead ==
  ASSUME sse, NEW b \in Body, NEW in \in Seq(StreamTokens), NEW t \in StreamTokens, InStream(b, in)
  PROVE  InStream(readToken(b, t), Append(in, t))
<1> DEFINE more == Append(in, t)
           un == Unified(in)
           c == [b EXCEPT !.pendingCR = FALSE]
           s == IF b.pendingCR /\ t.kind # "LF" THEN newline(c) ELSE c
           r == readToken(b, t)
<1>1. /\ un \in Seq(StreamTokens)
      /\ Unified(more) = IF t.kind = "CR" THEN Append(un, Mark("LF"))
                         ELSE IF t.kind = "LF" /\ AfterCR(in) THEN un ELSE Append(un, t)
  BY UnifiedAppend
<1>2. AfterCR(more) <=> t.kind = "CR"
  BY DEF AfterCR
<1>3. r = CASE t.kind = "CR" -> [s EXCEPT !.pendingCR = TRUE]
            [] t.kind = "LF" -> newline(s)
            [] OTHER -> sseToken(s, t)
  BY DEF readToken
<1>4. b.pendingCR <=> AfterCR(in)
  BY DEF InStream
<1>5. ~AfterCR(in) => StreamAt(b, un)
  BY DEF InStream
<1>6. AfterCR(in) => \E u \in Seq(StreamTokens) : un = Append(u, Mark("LF")) /\ StreamAt(b, u)
  BY DEF InStream
<1>7. t.kind = "LF" => t = Mark("LF")
  BY DEF StreamTokens, JSONTokens, Obj, Open, Rest, Mark, Limits, Opens, Text
<1>8. c \in Body /\ c.pendingCR = FALSE
  BY DEF Body, BodyRecord
<1>9. \A u : StreamAt(b, u) => StreamAt(c, u)
  BY StreamAssigned
<1> HIDE DEF more, un, c, r
<1>10. AfterCR(in) => StreamAt(newline(c), un)
  BY <1>6, <1>8, <1>9, NewlineStep
<1>11. /\ newline(c) \in Body /\ newline(c).pendingCR = FALSE
  BY <1>8, NewlineBody, PendingKept
<1>12. CASE t.kind = "LF" /\ AfterCR(in)
  <2>1. r = newline(c)
    BY <1>3, <1>12
  <2>2. StreamAt(r, un) /\ r.pendingCR = FALSE
    BY <1>10, <1>11, <1>12, <2>1
  <2> QED
    BY <1>1, <1>2, <1>12, <2>2 DEF InStream, more, r
<1>13. CASE ~(t.kind = "LF" /\ AfterCR(in))
  <2>1. StreamAt(s, un) /\ s \in Body /\ s.pendingCR = FALSE
    <3>1. CASE AfterCR(in)
      BY <1>4, <1>10, <1>11, <1>13, <3>1
    <3>2. CASE ~AfterCR(in)
      BY <1>4, <1>5, <1>8, <1>9, <3>2
    <3> QED
      BY <3>1, <3>2
  <2> HIDE DEF s
  <2>2. CASE t.kind = "CR"
    <3>1. r = [s EXCEPT !.pendingCR = TRUE]
      BY <1>3, <2>2
    <3>2. r \in Body /\ r.pendingCR = TRUE /\ StreamAt(r, un)
      BY <2>1, <3>1, StreamAssigned
    <3>3. Unified(more) = Append(un, Mark("LF"))
      BY <1>1, <2>2
    <3> QED
      BY <1>1, <1>2, <2>2, <3>2, <3>3 DEF InStream, more, r
  <2>3. CASE t.kind # "CR"
    <3>1. Unified(more) = Append(un, t)
      BY <1>1, <1>13, <2>3
    <3>2. StreamAt(r, Append(un, t)) /\ r \in Body /\ r.pendingCR = FALSE
      <4>1. CASE t.kind = "LF"
        <5>1. r = newline(s)
          BY <1>3, <4>1
        <5> QED
          BY <1>1, <1>7, <2>1, <4>1, <5>1, NewlineStep, NewlineBody, PendingKept
      <4>2. CASE t.kind # "LF"
        <5>1. r = sseToken(s, t)
          BY <1>3, <2>3, <4>2
        <5> QED
          BY <1>1, <2>1, <4>2, <5>1, TokenStep, SSETokenBody, PendingKept
      <4> QED
        BY <4>1, <4>2
    <3> QED
      BY <1>2, <2>3, <3>1, <3>2 DEF InStream, more, r
  <2> QED
    BY <2>2, <2>3
<1> QED
  BY <1>12, <1>13

\* The end of an event stream ends its last line and its last event.
LEMMA StreamEnd ==
  ASSUME sse, NEW b \in Body, NEW in \in Seq(StreamTokens), InStream(b, in)
  PROVE  LET c == flushEvent(b)
             v == Ended(Unified(in))
         IN  /\ c.parser = "between" /\ v \in Seq(StreamTokens)
             /\ EventsAt(c, v, EventEnds(v), EventObjects(v), <<>>)
<1> DEFINE u == Unified(in)
           v == Ended(u)
           l == IF b.line # "fresh" \/ b.pendingCR THEN newline(b) ELSE b
           c == flushEvent(b)
           n == Len(v)
           d == Data(v, n + 1)
<1>1. Mark("LF") \in StreamTokens /\ Mark("LF").kind = "LF"
  <2>1. Mark("LF") \in StreamTokens
    BY DEF StreamTokens, JSONTokens
  <2>2. Mark("LF").kind = "LF"
    BY DEF Mark
  <2> QED
    BY <2>1, <2>2
<1>2. u \in Seq(StreamTokens)
  BY <1>1, UnifiedAppend
<1>3. c = dispatch(l)
  BY DEF flushEvent
<1>4. l \in Body
  BY NewlineBody
<1> HIDE DEF u
<1>5. v \in Seq(StreamTokens) /\ StreamAt(l, v)
  <2>1. CASE AfterCR(in)
    <3>1. l = newline(b)
      BY <2>1 DEF InStream
    <3>2. PICK w \in Seq(StreamTokens) : u = Append(w, Mark("LF")) /\ StreamAt(b, w)
      BY <2>1 DEF InStream, u
    <3>3. StreamAt(l, u)
      BY <3>1, <3>2, NewlineStep
    <3>4. u[Len(u)] = Mark("LF")
      BY <1>1, <3>2
    <3>5. v = u
      BY <1>1, <3>4 DEF Ended, Last
    <3> QED
      BY <1>2, <3>3, <3>5
  <2>2. CASE ~AfterCR(in)
    <3>1. StreamAt(b, u) /\ ~b.pendingCR
      BY <2>2 DEF InStream, u
    <3>2. b.line = "fresh" <=> Begins(u, Len(u) + 1)
      BY <3>1 DEF StreamAt, LineAt
    <3>3. Begins(u, Len(u) + 1) <=> u = <<>> \/ u[Len(u)].kind = "LF"
      <4>1. Len(u) \in Nat /\ (Len(u) + 1) - 1 = Len(u) /\ (Len(u) + 1 = 1 <=> u = <<>>)
        BY <1>2
      <4> QED
        BY <4>1 DEF Begins
    <3>4. CASE b.line = "fresh"
      <4>1. v = u
        BY <3>2, <3>3, <3>4 DEF Ended, Last
      <4>2. l = b
        BY <3>1, <3>4
      <4> QED
        BY <1>2, <3>1, <4>1, <4>2
    <3>5. CASE b.line # "fresh"
      <4>1. v = Append(u, Mark("LF"))
        BY <3>2, <3>3, <3>5 DEF Ended, Last
      <4>2. l = newline(b)
        BY <3>5
      <4> HIDE DEF l, v
      <4>3. StreamAt(l, v)
        BY <1>2, <3>1, <4>1, <4>2, NewlineStep
      <4>4. v \in Seq(StreamTokens)
        BY <1>1, <1>2, <4>1
      <4> QED
        BY <4>3, <4>4
    <3> QED
      BY <3>4, <3>5
  <2> QED
    BY <2>1, <2>2
<1> HIDE DEF l, c, v
<1>6. /\ n \in Nat /\ d \in Seq(StreamTokens) /\ Past(v) \in Seq(Objects)
      /\ \A i \in Blanks(v) : i \in Nat /\ i < n + 1
  BY <1>1, <1>5, TokenFacts
<1>7. c.parser = "between"
  BY <1>3, <1>4, DispatchFields
<1> DEFINE ends == Blanks(v)
           os == Past(v)
           p == n + 1
<1>8. /\ p \in Nat /\ (\A i \in ends : i \in Nat /\ i < p) /\ os \in Seq(Objects)
      /\ Data(v, p) \in Seq(StreamTokens) /\ EventAt(l, Data(v, p))
      /\ EventsAt(l, v, ends, os, Data(v, p))
  BY <1>5, <1>6 DEF StreamAt
<1>9. EventEnds(v) = ends \cup {p} /\ EventObjects(v) = os \o Whole(Data(v, p))
  BY DEF EventEnds, EventObjects, Blanks
<1> HIDE DEF ends, os, p
<1>10. EventsAt(c, v, ends \cup {p}, os \o Whole(Data(v, p)), <<>>)
  BY <1>3, <1>4, <1>8, DispatchStep
<1> QED
  BY <1>5, <1>7, <1>9, <1>10 DEF c, v, u

-----------------------------------------------------------------------------
(* Field names beyond the limit *)

LongEvent(u) == \E i \in EventEnds(u) : LongIn(Data(u, i))

\* A line end adds no name.
LEMMA LongEnd ==
  ASSUME NEW u \in Seq(StreamTokens)
  PROVE  LongEvent(Append(u, Mark("LF"))) <=> LongEvent(u)
<1> DEFINE t == Mark("LF")
           v == Append(u, t)
           n == Len(u)
           d == Data(u, n + 1)
<1>1. t \in StreamTokens /\ t.kind = "LF"
  BY DEF Mark, StreamTokens, JSONTokens
<1> HIDE DEF t
<1>2. /\ n \in Nat /\ Len(v) + 1 = n + 2
      /\ d \in Seq(StreamTokens)
      /\ \A i \in Blanks(u) : Data(v, i) = Data(u, i)
      /\ Data(v, n + 1) = d
      /\ Begins(u, n + 1) => Blanks(v) = Blanks(u) \cup {n + 1} /\ Data(v, n + 2) = <<>>
      /\ ~Begins(u, n + 1) => /\ Blanks(v) = Blanks(u)
                              /\ Data(v, n + 2) \in {d, Append(d, t)}
  BY <1>1, TokenFacts
<1>3. EventEnds(u) = Blanks(u) \cup {n + 1} /\ EventEnds(v) = Blanks(v) \cup {n + 2}
  BY <1>2 DEF EventEnds, Blanks
<1>4. LongIn(Append(d, t)) <=> LongIn(d)
  <2> DEFINE e == Append(d, t)
  <2>1. Len(d) \in Nat /\ e[Len(d) + 1] = t /\ Len(e) = Len(d) + 1 /\ e \in Seq(StreamTokens)
    BY <1>1, <1>2
  <2>2. LongIn(e) <=> LongIn(d) \/ (IsGood(e) /\ t.longName)
    BY <1>1, <1>2, LongInAppend
  <2> HIDE DEF e
  <2>3. ~Follows(e, Len(d) + 1)
    BY <1>1, <2>1, KindsDiffer DEF Follows
  <2>4. ~IsGood(e)
    <3>1. \A i \in 1..GoodLen(e) : Follows(e, i)
      BY <2>1, GoodLenFits
    <3>2. IsGood(e) => Len(d) + 1 \in 1..GoodLen(e)
      BY <2>1 DEF IsGood
    <3> QED
      BY <2>3, <3>1, <3>2
  <2> QED
    BY <2>2, <2>4 DEF e
<1> HIDE DEF v, n, d
<1>5. LongEvent(u) <=> (\E i \in Blanks(u) : LongIn(Data(u, i))) \/ LongIn(Data(u, n + 1))
  BY <1>3, Zenon DEF LongEvent
<1>6. LongEvent(v) <=> (\E i \in Blanks(v) : LongIn(Data(v, i))) \/ LongIn(Data(v, n + 2))
  BY <1>3, Zenon DEF LongEvent
<1>7. (\E i \in Blanks(u) : LongIn(Data(v, i))) <=> (\E i \in Blanks(u) : LongIn(Data(u, i)))
  BY <1>2
<1>8. Data(u, n + 1) = d
  BY DEF d
<1>9. CASE Begins(u, n + 1)
  <2>1. (\E i \in Blanks(v) : LongIn(Data(v, i))) <=>
           (\E i \in Blanks(u) : LongIn(Data(v, i))) \/ LongIn(d)
    <3>1. Blanks(v) = Blanks(u) \cup {n + 1} /\ Data(v, n + 1) = d
      BY <1>2, <1>9
    <3> QED
      BY <3>1, Zenon
  <2>2. ~LongIn(Data(v, n + 2))
    BY <1>2, <1>9, HasNone
  <2> QED
    BY <1>5, <1>6, <1>7, <1>8, <2>1, <2>2 DEF v, t
<1>10. CASE ~Begins(u, n + 1)
  <2>1. LongIn(Data(v, n + 2)) <=> LongIn(d)
    BY <1>2, <1>4, <1>10
  <2> QED
    BY <1>2, <1>5, <1>6, <1>7, <1>8, <1>10, <2>1 DEF v, t
<1> QED
  BY <1>9, <1>10 DEF v, t

\* An observer that has noticed the names of its event has noticed those of the stream.
LEMMA StreamNoticed ==
  ASSUME NEW b \in Body, NEW in \in Seq(StreamTokens), InStream(b, in),
         b.keySkipped => b.notices = 1
  PROVE  b.notices = 1 <=> LongEvent(Unified(in))
<1>1. ASSUME NEW u \in Seq(StreamTokens), StreamAt(b, u)
      PROVE  b.notices = 1 <=> LongEvent(u)
  <2> DEFINE d == Data(u, Len(u) + 1)
  <2>1. b.keySkipped <=> LongIn(d)
    BY <1>1 DEF StreamAt, EventAt
  <2>2. /\ (\E i \in Blanks(u) : LongIn(Data(u, i))) => b.notices = 1
        /\ b.notices = 1 => (\E i \in Blanks(u) : LongIn(Data(u, i))) \/ LongIn(d)
    BY <1>1 DEF StreamAt, EventsAt
  <2>3. EventEnds(u) = Blanks(u) \cup {Len(u) + 1}
    BY DEF EventEnds, Blanks
  <2>4. LongEvent(u) <=> (\E i \in Blanks(u) : LongIn(Data(u, i))) \/ LongIn(d)
    BY <2>3, Zenon DEF LongEvent
  <2> HIDE DEF d
  <2> QED
    BY <2>1, <2>2, <2>4
<1>2. CASE AfterCR(in)
  <2>1. PICK u \in Seq(StreamTokens) : Unified(in) = Append(u, Mark("LF")) /\ StreamAt(b, u)
    BY <1>2 DEF InStream
  <2> QED
    BY <1>1, <2>1, LongEnd
<1>3. CASE ~AfterCR(in)
  <2>1. Mark("LF") \in StreamTokens
    BY DEF StreamTokens, JSONTokens
  <2>2. Unified(in) \in Seq(StreamTokens)
    BY <2>1, UnifiedAppend
  <2> QED
    BY <1>1, <1>3, <2>2 DEF InStream
<1> QED
  BY <1>2, <1>3

-----------------------------------------------------------------------------
(* The observer and the reference agree *)

\* Nothing has been read.
LEMMA NothingObserved ==
  ASSUME NEW b \in Body, b.parser = "between", ~b.keySkipped, b.line = "fresh", ~b.pendingCR,
         b.marker = Nil, b.eventFields = Nil, b.sample = NoFields, ~b.terminal, ~b.seen, ~b.failed,
         b.failure = Nil, b.notices = 0
  PROVE  PlainAt(b, Content(<<>>)) /\ InStream(b, <<>>) /\ ~HasLongName(<<>>)
<1>1. DOMAIN <<>> = {} /\ Len(<<>>) + 1 = 1 /\ Len(<<>>) = 0 /\ ~(0 > 1) /\ 0 # 1
  OBVIOUS
<1>2. Content(<<>>) = <<>> /\ \A i : Data(<<>>, i) = <<>>
  BY AtNothing DEF Content, Data, DataLines
<1>3. Unified(<<>>) = <<>>
  <2>1. [i \in DOMAIN <<>> |-> IF <<>>[i].kind = "CR" THEN Mark("LF") ELSE <<>>[i]] = <<>>
    OBVIOUS
  <2> QED
    BY <2>1, AtNothing DEF Unified
<1>4. Past(<<>>) = <<>>
  <2>1. [i \in DOMAIN <<>> |-> IF BlankAt(<<>>, i) THEN Whole(Data(<<>>, i)) ELSE <<>>] = <<>>
    OBVIOUS
  <2> QED
    BY <2>1, FlattenEmpty DEF Past
<1>5. Blanks(<<>>) = {} /\ Failing(<<>>, {}) = {} /\ LineAt(<<>>) = "fresh"
  BY <1>1 DEF Blanks, Failing, LineAt, Begins
<1>6. ParserAt("between", b.opened, <<>>)
  BY NothingRead, KindsDiffer DEF ParserAt
<1>7. PlainAt(b, <<>>)
  BY <1>1, <1>6, NothingRead, HasNone, NoSample DEF PlainAt
<1>8. EventAt(b, <<>>)
  BY <1>6, NothingRead, HasNone DEF EventAt
<1>9. EventsAt(b, <<>>, {}, <<>>, <<>>)
  BY <1>1, <1>5, NothingRead, HasNone, NoSample DEF EventsAt
<1>10. StreamAt(b, <<>>)
  BY <1>2, <1>4, <1>5, <1>8, <1>9 DEF StreamAt
<1>11. \A i : ~LongIn(Data(<<>>, i))
  BY <1>2, HasNone
<1>12. ~HasLongName(<<>>)
  BY <1>2, <1>3, <1>11, HasNone, Zenon DEF HasLongName
<1> QED
  BY <1>2, <1>3, <1>7, <1>10, <1>12 DEF InStream, AfterCR

\* A response that is still read has no result, or was closed.
NoResultYet == ~ended => results \in {<<>>, <<<<"skipped", "body_closed">>>>}

\* While it is read the observer knows what the tokens so far mean; at a clean
\* end its result is the one they deserve.
MInv == IInv /\ NoResultYet /\ (~ended => Observed) /\ MatchesReference /\ SkipNoticedOnce

\* Before anything is read there is nothing to know.
LEMMA InitMInv == Init => MInv
<1> SUFFICES ASSUME Init PROVE MInv
  OBVIOUS
<1>1. IInv
  BY InitIInv
<1>2. ~ended /\ results = <<>> /\ input = <<>>
  BY DEF Init
<1> DEFINE b == BodyState
<1>3. b \in Body
  BY <1>1 DEF IInv
<1>4. /\ b.parser = "between" /\ ~b.keySkipped /\ b.line = "fresh" /\ ~b.pendingCR
      /\ b.marker = Nil /\ b.eventFields = Nil /\ b.sample = NoFields /\ ~b.terminal /\ ~b.seen
      /\ ~b.failed /\ b.failure = Nil /\ b.notices = 0
  BY DEF Init, BodyState
<1> HIDE DEF b
<1>5. PlainAt(b, Content(<<>>)) /\ InStream(b, <<>>) /\ ~HasLongName(<<>>)
  BY <1>3, <1>4, NothingObserved
<1>6. Observed
  BY <1>2, <1>5 DEF Observed, b
<1>7. SkipNoticedOnce
  BY <1>2, <1>5 DEF SkipNoticedOnce, Init
<1> QED
  BY <1>1, <1>2, <1>6, <1>7 DEF MInv, NoResultYet, MatchesReference, CleanEOF

\* What has been read after i tokens of data.
LEMMA ReadPrefix ==
  ASSUME NEW T, NEW in \in Seq(T), NEW data \in Seq(T)
  PROVE  LET sofar(i) == in \o SubSeq(data, 1, i)
         IN  /\ sofar(0) = in /\ sofar(Len(data)) = in \o data
             /\ \A i \in 1..Len(data) : /\ sofar(i) = Append(sofar(i - 1), data[i])
                                        /\ sofar(i - 1) \in Seq(T)
<1> DEFINE sofar(i) == in \o SubSeq(data, 1, i)
<1>1. sofar(0) = in
  <2>1. SubSeq(data, 1, 0) = <<>>
    OBVIOUS
  <2> QED
    BY <2>1
<1>2. sofar(Len(data)) = in \o data
  <2>1. SubSeq(data, 1, Len(data)) = data
    OBVIOUS
  <2> QED
    BY <2>1
<1>3. ASSUME NEW i \in 1..Len(data)
      PROVE  sofar(i) = Append(sofar(i - 1), data[i]) /\ sofar(i - 1) \in Seq(T)
  <2> DEFINE s == SubSeq(data, 1, i - 1)
  <2>1. s \in Seq(T) /\ data[i] \in T
    OBVIOUS
  <2>2. SubSeq(data, 1, i) = Append(s, data[i])
    OBVIOUS
  <2> HIDE DEF s
  <2>3. in \o Append(s, data[i]) = Append(in \o s, data[i]) /\ in \o s \in Seq(T)
    BY <2>1
  <2> QED
    BY <2>2, <2>3 DEF s
<1> QED
  BY <1>1, <1>2, <1>3

\* What the observer knows of the tokens in.
Knows(b, in) == IF sse THEN InStream(b, in) ELSE PlainAt(b, Content(in))

\* One token more.
LEMMA TokenKnown ==
  ASSUME NEW b \in Body, NEW in \in Seq(StreamTokens), NEW t \in StreamTokens, Knows(b, in)
  PROVE  Knows(readToken(b, t), Append(in, t))
<1>1. CASE sse
  BY <1>1, StreamRead DEF Knows
<1>2. CASE ~sse
  <2>1. readToken(b, t) = parse(b, t)
    BY <1>2 DEF readToken
  <2>2. PlainAt(parse(b, t), Content(Append(in, t)))
    BY <1>2, PlainStep DEF Knows
  <2> QED
    BY <1>2, <2>1, <2>2 DEF Knows
<1> QED
  BY <1>1, <1>2

\* The loop's tokens, one after the other.
LEMMA LoopKnown ==
  ASSUME NEW b \in Body, NEW in \in Seq(StreamTokens), NEW data \in Seq(StreamTokens), NEW r,
         Loop(b, data, r), Knows(b, in)
  PROVE  r[Len(data)] \in Body /\ Knows(r[Len(data)], in \o data)
<1> DEFINE sofar(i) == in \o SubSeq(data, 1, i)
           S == {i \in Nat : i <= Len(data) => Knows(r[i], sofar(i))}
<1>1. /\ sofar(0) = in /\ sofar(Len(data)) = in \o data
      /\ \A i \in 1..Len(data) : /\ sofar(i) = Append(sofar(i - 1), data[i])
                                 /\ sofar(i - 1) \in Seq(StreamTokens)
  BY ReadPrefix
<1> HIDE DEF sofar
<1>2. \A i \in 0..Len(data) : r[i] \in Body
  BY LoopBody
<1>3. 0 \in S
  BY <1>1 DEF Loop
<1>4. ASSUME NEW i \in Nat, i \in S
      PROVE  i + 1 \in S
  <2> SUFFICES ASSUME i + 1 <= Len(data) PROVE Knows(r[i + 1], sofar(i + 1))
    OBVIOUS
  <2>1. Knows(r[i], sofar(i))
    BY <1>4
  <2>2. i + 1 \in 1..Len(data) /\ (i + 1) - 1 = i /\ data[i + 1] \in StreamTokens /\ i \in 0..Len(data)
    OBVIOUS
  <2>3. r[i + 1] = readToken(r[i], data[i + 1])
    BY <2>2 DEF Loop
  <2>4. sofar(i + 1) = Append(sofar(i), data[i + 1]) /\ sofar(i) \in Seq(StreamTokens)
    BY <1>1, <2>2
  <2>5. r[i] \in Body
    BY <1>2, <2>2
  <2> QED
    BY <2>1, <2>2, <2>3, <2>4, <2>5, TokenKnown
<1> HIDE DEF S
<1>5. Nat \subseteq S
  BY <1>3, <1>4, Induction
<1>6. Len(data) \in Nat /\ Len(data) \in 0..Len(data)
  OBVIOUS
<1>7. Knows(r[Len(data)], sofar(Len(data)))
  BY <1>5, <1>6 DEF S
<1> QED
  BY <1>1, <1>2, <1>6, <1>7

\* The skip notice changes nothing else, and after it the count is right.
LEMMA Noticed ==
  ASSUME NEW b \in Body, NEW in \in Seq(StreamTokens), Knows(b, in)
  PROVE  LET c == noteFieldSkip(b)
         IN  c \in Body /\ Knows(c, in) /\ (c.notices = 1 <=> HasLongName(in))
<1> DEFINE c == noteFieldSkip(b)
<1>1. c \in Body
  BY NoteBody
<1>2. c.keySkipped => c.notices = 1
  BY DEF noteFieldSkip, Body, BodyRecord
<1>3. CASE sse
  <2>1. InStream(c, in)
    <3>1. c.pendingCR = b.pendingCR /\ \A u : StreamAt(b, u) => StreamAt(c, u)
      BY StreamNoted, PendingKept
    <3> QED
      BY <1>3, <3>1 DEF Knows, InStream
  <2> HIDE DEF c
  <2>2. c.notices = 1 <=> LongEvent(Unified(in))
    BY <1>1, <1>2, <2>1, StreamNoticed
  <2> QED
    BY <1>1, <1>3, <2>1, <2>2 DEF Knows, HasLongName, LongEvent, c
<1>4. CASE ~sse
  <2>1. PlainAt(c, Content(in)) /\ (c.notices = 1 <=> LongIn(Content(in)))
    BY <1>4, PlainNoted DEF Knows
  <2> HIDE DEF c
  <2> QED
    BY <1>1, <1>4, <2>1 DEF Knows, HasLongName, c
<1> QED
  BY <1>3, <1>4

\* A step changes what is known and what the body means only through its input.
LEMMA SameMode ==
  ASSUME sse' = sse, compatibility' = compatibility
  PROVE  /\ Expected(input)' = Expected(input')
         /\ HasLongName(input)' <=> HasLongName(input')
         /\ Observed' <=> Knows(BodyState', input')
  BY DEF Expected, ExpectedSSE, ExpectedPlain, Verdict, Completion, HasLongName, Observed, Knows

\* Every read leaves the observer knowing what it should.
LEMMA ReadObserved ==
  ASSUME MInv, NEW data \in Seq(StreamTokens), Read(data)
  PROVE  MInv'
<1> DEFINE b == BodyState
           f == FoldLeft(readToken, b, data)
           c == noteFieldSkip(f)
<1>1. IInv' /\ BodyState' = c
  BY ReadKeeps DEF MInv
<1>2. /\ ~ended /\ ~ended' /\ results' = results /\ sse' = sse /\ compatibility' = compatibility
      /\ input' = input \o data
  BY DEF Read, mode
<1>3. input \in Seq(StreamTokens) /\ input \o data \in Seq(StreamTokens) /\ b \in Body
  BY DEF MInv, IInv, Types
<1>4. Knows(b, input)
  BY <1>2 DEF MInv, Observed, Knows
<1> HIDE DEF b
<1>5. PICK r : Loop(b, data, r) /\ f = r[Len(data)]
  BY ReadLoop
<1> HIDE DEF f
<1>6. f \in Body /\ Knows(f, input \o data)
  BY <1>3, <1>4, <1>5, LoopKnown
<1>7. c \in Body /\ Knows(c, input \o data) /\ (c.notices = 1 <=> HasLongName(input \o data))
  BY <1>3, <1>6, Noticed
<1> HIDE DEF c
<1>8. /\ HasLongName(input)' <=> HasLongName(input')
      /\ Observed' <=> Knows(BodyState', input')
  BY <1>2, SameMode
<1>9. Observed'
  BY <1>1, <1>2, <1>7, <1>8
<1>10. SkipNoticedOnce'
  <2>1. notices' = c.notices /\ notices' \in {0, 1}
    BY <1>1, <1>7 DEF BodyState, Body, BodyRecord
  <2>2. notices' = 1 <=> HasLongName(input)'
    BY <1>2, <1>7, <1>8, <2>1
  <2> QED
    BY <2>1, <2>2 DEF SkipNoticedOnce
<1>11. NoResultYet' /\ MatchesReference'
  BY <1>2 DEF MInv, NoResultYet, MatchesReference, CleanEOF
<1> QED
  BY <1>1, <1>9, <1>10, <1>11 DEF MInv

\* What the end of a body counts, b being the observer's state at the end.
Ending(b) ==
    LET c == Completion(b.sample)
    IN  IF b.failed THEN <<0, "failed", b.failure>>
        ELSE IF b.parser # "between" THEN <<0, "failed", failureReason(b)>>
        ELSE IF (b.seen \/ b.terminal) /\ (~sse \/ b.terminal) THEN <<c.record, c.outcome, c.reason>>
        ELSE <<0, "skipped", "incomplete">>

\* A plain body ends as the reference says.
LEMMA PlainEnds ==
  ASSUME ~sse, NEW b \in Body, NEW in \in Seq(StreamTokens), PlainAt(b, Content(in))
  PROVE  Ending(b) = Expected(in)
<1> DEFINE d == Content(in)
           os == Whole(d)
<1>1. Mark("LF") \in StreamTokens
  BY DEF StreamTokens, JSONTokens
<1>2. d \in Seq(StreamTokens) /\ os \in Seq(Objects)
  BY <1>1, ContentAppend, WholeTyped
<1>3. Expected(in) = IF HasError(os) THEN <<0, "failed", "upstream_error">>
                     ELSE IF ~IsGood(d) THEN <<0, "failed", WhyBad(d)>>
                     ELSE IF IsCut(d) THEN <<0, "failed", "incomplete">>
                     ELSE IF d = <<>> THEN <<0, "skipped", "incomplete">>
                     ELSE Verdict(os)
  BY DEF Expected, ExpectedPlain
<1> HIDE DEF d
<1>4. /\ ParserAt(b.parser, b.opened, d)
      /\ b.failed <=> HasError(os)
      /\ b.failed => b.failure = "upstream_error"
      /\ ~b.failed => SampleOf(b.sample, os)
      /\ b.seen <=> os # <<>>
      /\ b.terminal => b.seen
  BY DEF PlainAt, d
<1> HIDE DEF os
<1>5. CASE b.failed
  BY <1>3, <1>4, <1>5 DEF Ending
<1>6. CASE ~b.failed /\ b.parser # "between"
  <2>1. CASE b.parser \in Opens
    BY <1>3, <1>4, <1>6, <2>1 DEF Ending, failureReason, ParserAt
  <2>2. CASE b.parser \notin Opens
    BY <1>3, <1>4, <1>6, <2>2 DEF Ending, failureReason, ParserAt
  <2> QED
    BY <2>1, <2>2
<1>7. CASE ~b.failed /\ b.parser = "between"
  <2>1. IsGood(d) /\ ~IsCut(d) /\ (d = <<>> <=> os = <<>>)
    BY <1>4, <1>7 DEF ParserAt, os
  <2>2. CASE b.seen
    <3>1. b.sample = Merged(os)
      BY <1>2, <1>4, <1>7, SampleIsMerged
    <3>2. Verdict(os) = Ending(b)
      BY <1>7, <2>2, <3>1 DEF Verdict, Ending
    <3> QED
      BY <1>3, <1>4, <1>7, <2>1, <2>2, <3>2
  <2>3. CASE ~b.seen
    BY <1>3, <1>4, <1>7, <2>1, <2>3 DEF Ending
  <2> QED
    BY <2>2, <2>3
<1> QED
  BY <1>5, <1>6, <1>7

\* An event stream ends as the reference says, once its last event has ended.
LEMMA StreamEnds ==
  ASSUME sse, NEW b \in Body, NEW in \in Seq(StreamTokens), b.parser = "between",
         NEW u \in Seq(StreamTokens), u = Ended(Unified(in)),
         EventsAt(b, u, EventEnds(u), EventObjects(u), <<>>)
  PROVE  Ending(b) = Expected(in) /\ (b.notices = 1 <=> LongEvent(u))
<1> DEFINE ends == EventEnds(u)
           os == EventObjects(u)
           bad == {i \in ends : EventFailure(Data(u, i)) # Nil}
           over == \E i \in ends : IsDone(Data(u, i)) \/ HasEnd(Whole(Data(u, i)))
<1>1. Expected(in) = IF bad # {} THEN <<0, "failed", EventFailure(Data(u, Min(bad)))>>
                     ELSE IF ~over THEN <<0, "skipped", "incomplete">>
                     ELSE Verdict(os)
  BY DEF Expected, ExpectedSSE
<1>2. os \in Seq(Objects)
  <2>1. Mark("LF") \in StreamTokens
    BY DEF StreamTokens, JSONTokens
  <2>2. Past(u) \in Seq(Objects) /\ Data(u, Len(u) + 1) \in Seq(StreamTokens)
    BY <2>1, TokenFacts
  <2>3. Whole(Data(u, Len(u) + 1)) \in Seq(Objects)
    BY <2>2, WholeTyped
  <2> QED
    BY <2>2, <2>3 DEF EventObjects
<1>3. bad = Failing(u, ends)
  BY DEF Failing
<1> HIDE DEF ends, os, bad
<1>4. /\ b.failed <=> bad # {} \/ Len(Whole(<<>>)) > 1
      /\ b.failed =>
             \/ bad = {} /\ b.failure = "malformed"
             \/ \E i \in bad : (\A j \in bad : i <= j) /\ b.failure = EventFailure(Data(u, i))
      /\ ~b.failed => SampleOf(b.sample, os) /\ (b.terminal <=> over)
      /\ LongEvent(u) => b.notices = 1
      /\ b.notices = 1 => LongEvent(u) \/ LongIn(<<>>)
  BY <1>3 DEF EventsAt, LongEvent, ends, os
<1>5. ~(Len(Whole(<<>>)) > 1) /\ ~LongIn(<<>>)
  <2>1. Len(<<>>) = 0 /\ ~(0 > 1)
    OBVIOUS
  <2> QED
    BY <2>1, NothingRead, HasNone
<1> HIDE DEF over
<1>6. b.notices = 1 <=> LongEvent(u)
  BY <1>4, <1>5
<1>7. CASE b.failed
  <2>1. bad # {}
    BY <1>4, <1>5, <1>7
  <2>2. PICK i \in bad : (\A j \in bad : i <= j) /\ b.failure = EventFailure(Data(u, i))
    BY <1>4, <1>7, <2>1
  <2>3. \A j \in bad : j \in Nat
    <3>1. \A j \in ends : j \in Nat
      BY DEF EventEnds, ends
    <3> QED
      BY <3>1 DEF bad
  <2>4. \A j \in bad : (\A k \in bad : j <= k) => j = i
    BY <2>2, <2>3
  <2>5. Min(bad) = i
    BY <2>2, <2>4 DEF Min
  <2> QED
    BY <1>1, <1>6, <1>7, <2>1, <2>2, <2>5 DEF Ending
<1>8. CASE ~b.failed
  <2>1. bad = {} /\ b.sample = Merged(os) /\ (b.terminal <=> over)
    BY <1>2, <1>4, <1>8, SampleIsMerged
  <2>2. Ending(b) = IF b.terminal THEN Verdict(os) ELSE <<0, "skipped", "incomplete">>
    BY <1>8, <2>1 DEF Ending, Verdict
  <2> QED
    BY <1>1, <1>6, <2>1, <2>2
<1> QED
  BY <1>7, <1>8

\* A clean end counts what the body deserves.
LEMMA EOFObserved ==
  ASSUME MInv, ReadEOF
  PROVE  MInv'
<1>1. IInv'
  BY EOFKeeps DEF MInv
<1>2. /\ ~ended /\ ended' /\ sse' = sse /\ compatibility' = compatibility /\ input' = input
      /\ results = <<>> /\ recorded = 0
  BY DEF ReadEOF, mode, MInv, IInv, Counted
<1>3. input \in Seq(StreamTokens)
  BY DEF MInv, IInv, Types
<1> DEFINE a == BodyState
           n == noteFieldSkip(a)
           b == flushEvent(n)
           c == Completion(b.sample)
<1>4. a \in Body
  BY DEF MInv, IInv
<1>5. n \in Body
  BY <1>4, NoteBody
<1>6. b \in Body
  BY <1>5, FlushBody
<1>7. BodyState' = b
  BY <1>6, BecomeState DEF ReadEOF
<1>8. IF sse THEN InStream(a, input) ELSE PlainAt(a, Content(input))
  BY <1>2 DEF MInv, Observed
<1>9. Knows(a, input)
  BY <1>8 DEF Knows
<1>10. \/ /\ ~b.failed /\ b.parser = "between" /\ (b.seen \/ b.terminal) /\ (~sse \/ b.terminal)
          /\ recorded' = recorded + c.record /\ results' = <<<<c.outcome, c.reason>>>>
       \/ b.failed /\ recorded' = recorded /\ results' = <<<<"failed", b.failure>>>>
       \/ /\ ~b.failed /\ b.parser # "between"
          /\ recorded' = recorded /\ results' = <<<<"failed", failureReason(b)>>>>
       \/ /\ ~b.failed /\ b.parser = "between" /\ ~((b.seen \/ b.terminal) /\ (~sse \/ b.terminal))
          /\ recorded' = recorded /\ results' = <<<<"skipped", "incomplete">>>>
  BY <1>2 DEF ReadEOF, report
<1>11. c.record \in {0, 1}
  BY CompletionRecords
<1> HIDE DEF a, n
<1>12. Ending(b) = Expected(input) /\ (b.notices = 1 <=> HasLongName(input))
  <2>1. CASE sse
    <3> DEFINE u == Unified(input)
               v == Ended(u)
    <3>1. InStream(n, input)
      BY <1>3, <1>4, <1>9, <2>1, Noticed DEF Knows, n
    <3>2. /\ b.parser = "between" /\ v \in Seq(StreamTokens)
          /\ EventsAt(b, v, EventEnds(v), EventObjects(v), <<>>)
      BY <1>3, <1>5, <2>1, <3>1, StreamEnd
    <3>3. u \in Seq(StreamTokens)
      <4>1. Mark("LF") \in StreamTokens
        BY DEF StreamTokens, JSONTokens
      <4> QED
        BY <1>3, <4>1, UnifiedAppend
    <3>4. LongEvent(v) <=> LongEvent(u)
      BY <3>3, LongEnd DEF Ended
    <3> HIDE DEF b, u, v
    <3>5. Ending(b) = Expected(input) /\ (b.notices = 1 <=> LongEvent(v))
      BY <1>3, <1>6, <2>1, <3>2, StreamEnds DEF u, v
    <3> QED
      BY <2>1, <3>4, <3>5 DEF HasLongName, LongEvent, u
  <2>2. CASE ~sse
    <3>1. b = n
      BY <2>2 DEF flushEvent
    <3>2. PlainAt(b, Content(input)) /\ (b.notices = 1 <=> HasLongName(input))
      BY <1>3, <1>4, <1>9, <2>2, <3>1, Noticed DEF Knows, n
    <3> HIDE DEF b
    <3> QED
      BY <1>3, <1>6, <2>2, <3>2, PlainEnds
  <2> QED
    BY <2>1, <2>2
<1>13. notices' = b.notices
  BY DEF ReadEOF, Become, n, a
<1> HIDE DEF b
<1>14. <<recorded', results'[1][1], results'[1][2]>> = Ending(b)
  <2>1. 0 + c.record = c.record
    BY <1>11
  <2> HIDE DEF c
  <2> QED
    BY <1>2, <1>10, <2>1 DEF Ending, c
<1>15. Expected(input)' = Expected(input) /\ (HasLongName(input)' <=> HasLongName(input))
  BY <1>2, SameMode
<1>16. MatchesReference'
  BY <1>12, <1>14, <1>15 DEF MatchesReference
<1>17. SkipNoticedOnce'
  <2>1. notices' \in {0, 1}
    BY <1>6, <1>13 DEF Body, BodyRecord
  <2> QED
    BY <1>12, <1>13, <1>15, <2>1 DEF SkipNoticedOnce
<1>18. NoResultYet' /\ (~ended => Observed)'
  BY <1>2 DEF NoResultYet
<1> QED
  BY <1>1, <1>16, <1>17, <1>18 DEF MInv

\* A broken connection and a close count nothing of the body.
LEMMA ReportObserved ==
  ASSUME MInv, ReadError \/ Close
  PROVE  MInv'
<1>1. IInv'
  BY ReportKeeps DEF MInv
<1>2. /\ sse' = sse /\ compatibility' = compatibility /\ input' = input
      /\ recorded' = recorded
  BY DEF ReadError, Close, mode
<1>3. Expected(input)' = Expected(input) /\ (HasLongName(input)' <=> HasLongName(input))
  BY <1>2, SameMode
<1>4. BodyState \in Body /\ input \in Seq(StreamTokens)
  BY DEF MInv, IInv, Types
<1>5. SkipNoticedOnce'
  <2>1. CASE Close
    <3>1. notices' = notices
      BY <2>1 DEF Close
    <3> QED
      BY <1>3, <3>1 DEF MInv, SkipNoticedOnce
  <2>2. CASE ReadError
    <3> DEFINE c == noteFieldSkip(BodyState)
    <3>1. Knows(BodyState, input)
      BY <2>2 DEF ReadError, MInv, Observed, Knows
    <3>2. c \in Body /\ (c.notices = 1 <=> HasLongName(input))
      BY <1>4, <3>1, Noticed
    <3>3. notices' = c.notices
      BY <2>2 DEF ReadError, Become
    <3> HIDE DEF c
    <3>4. c.notices \in {0, 1}
      BY <3>2 DEF Body, BodyRecord
    <3> QED
      BY <1>3, <3>2, <3>3, <3>4 DEF SkipNoticedOnce
  <2> QED
    BY <2>1, <2>2
<1>6. CASE ended
  <2>1. ended' /\ results' = results
    <3>1. results # <<>>
      BY <1>6 DEF MInv, IInv, Counted
    <3> QED
      BY <1>6, <3>1 DEF ReadError, Close, report
  <2>2. CleanEOF' <=> CleanEOF
    BY <1>6, <2>1 DEF CleanEOF
  <2>3. MatchesReference'
    BY <1>2, <1>3, <2>1, <2>2 DEF MInv, MatchesReference
  <2> QED
    BY <1>1, <1>5, <2>1, <2>3 DEF MInv, NoResultYet
<1>7. CASE ~ended
  <2>1. results \in {<<>>, <<<<"skipped", "body_closed">>>>}
    BY <1>7 DEF MInv, NoResultYet
  <2>2. results' \in {<<<<"failed", "read_error">>>>, <<<<"skipped", "body_closed">>>>}
    BY <2>1 DEF ReadError, Close, report
  <2>3. ~CleanEOF'
    BY <2>2 DEF CleanEOF
  <2>4. NoResultYet'
    <3>1. CASE ReadError
      BY <3>1 DEF ReadError, NoResultYet
    <3>2. CASE Close
      BY <2>1, <3>2 DEF Close, report, NoResultYet
    <3> QED
      BY <3>1, <3>2
  <2>5. (~ended => Observed)'
    <3>1. CASE ReadError
      BY <3>1 DEF ReadError
    <3>2. CASE Close
      <4>1. BodyState' = BodyState
        BY <3>2 DEF Close, BodyState
      <4>2. Observed
        BY <1>7 DEF MInv
      <4> QED
        BY <1>2, <4>1, <4>2 DEF Observed
    <3> QED
      BY <3>1, <3>2
  <2> QED
    BY <1>1, <1>5, <2>3, <2>4, <2>5 DEF MInv, MatchesReference
<1> QED
  BY <1>6, <1>7

\* Every step keeps what the observer knows right.
LEMMA NextMInv ==
  ASSUME MInv, [Next]_vars
  PROVE  MInv'
<1>1. CASE \E n \in 1..(MaxTokens - Len(input)) : \E data \in [1..n -> Tokens] : Read(data)
  <2>1. PICK n \in 1..(MaxTokens - Len(input)) : \E data \in [1..n -> Tokens] : Read(data)
    BY <1>1
  <2>2. PICK data \in [1..n -> Tokens] : Read(data)
    BY <2>1
  <2>3. data \in Seq(StreamTokens)
    BY DataTokens
  <2> QED
    BY <2>2, <2>3, ReadObserved
<1>2. CASE ReadEOF
  BY <1>2, EOFObserved
<1>3. CASE ReadError \/ Close
  BY <1>3, ReportObserved
<1>4. CASE ReadAgain \/ UNCHANGED vars
  <2>1. UNCHANGED vars
    BY <1>4 DEF ReadAgain
  <2>2. /\ sse' = sse /\ compatibility' = compatibility /\ input' = input /\ notices' = notices
        /\ recorded' = recorded /\ BodyState' = BodyState /\ ended' = ended /\ results' = results
    BY <2>1 DEF vars, mode, BodyState
  <2>3. IInv'
    BY NextIInv DEF MInv
  <2>4. Expected(input)' = Expected(input) /\ (HasLongName(input)' <=> HasLongName(input))
    BY <2>2, SameMode
  <2>5. CleanEOF' <=> CleanEOF
    BY <2>2 DEF CleanEOF
  <2>6. MatchesReference'
    BY <2>2, <2>4, <2>5 DEF MInv, MatchesReference
  <2>7. SkipNoticedOnce'
    BY <2>2, <2>4 DEF MInv, SkipNoticedOnce
  <2>8. NoResultYet' /\ (~ended => Observed)'
    BY <2>2 DEF MInv, NoResultYet, Observed
  <2> QED
    BY <2>3, <2>6, <2>7, <2>8 DEF MInv
<1> QED
  BY <1>1, <1>2, <1>3, <1>4 DEF Next

-----------------------------------------------------------------------------
(* Theorems *)

\* The observer is in a state its code can be in: a half-read object is there, a
\* failure has its reason, and the field-name notice is given at most once.
THEOREM ResponseBodyInvariant == Spec => []IInv
<1>1. IInv /\ [Next]_vars => IInv'
  BY NextIInv
<1> QED
  BY <1>1, InitIInv, PTL DEF Spec

\* Every variable keeps its type, the reasons that reach the result included.
THEOREM ResponseBodyTypeCorrect == Spec => []TypeOK
<1>1. IInv => TypeOK
  <2> SUFFICES ASSUME IInv PROVE TypeOK
    OBVIOUS
  <2>1. /\ parser \in {"between", "malformed"} \cup Opens \cup Limits /\ keySkipped \in BOOLEAN
        /\ opened \in Objects \cup {Nil} /\ line \in {"fresh", "data", "other"}
        /\ pendingCR \in BOOLEAN /\ marker \in {Nil, "done", "junk"}
        /\ eventFields \in Objects \cup {Nil} /\ sample \in Samples
        /\ terminal \in BOOLEAN /\ seen \in BOOLEAN /\ failed \in BOOLEAN
        /\ failure \in Reasons \cup {Nil} /\ notices \in {0, 1}
    BY DEF IInv, Body, BodyRecord, BodyState
  <2>2. recorded \in Nat
    BY DEF IInv, Recorded
  <2>3. results \in Seq(Outcomes \X ResultReasons)
    <3>1. CASE ended \/ closed
      <4>1. PICK o \in Outcomes, r \in ResultReasons : results = <<<<o, r>>>>
        BY <3>1 DEF IInv, Counted
      <4>2. <<o, r>> \in Outcomes \X ResultReasons
        OBVIOUS
      <4> QED
        BY <4>1, <4>2
    <3>2. CASE ~(ended \/ closed)
      BY <3>2 DEF IInv, Counted
    <3> QED
      BY <3>1, <3>2
  <2>4. \A x \in {terminal, seen, failed, ended, closed} : x \in BOOLEAN
    BY <2>1, Zenon DEF IInv, Types
  <2>5. notices \in Nat
    BY <2>1
  <2> QED
    BY <2>1, <2>2, <2>3, <2>4, <2>5, Zenon DEF TypeOK, IInv, Types, Outcomes
<1> QED
  BY <1>1, ResponseBodyInvariant, PTL

\* resultOnce: a response is counted once, and recorded as its result says,
\* whatever order reads, errors and closes come in.
THEOREM CountedExactlyOnce == Spec => []ReportedOnce
<1>1. IInv => ReportedOnce
  <2> SUFFICES ASSUME IInv PROVE ReportedOnce
    OBVIOUS
  <2>1. CASE ended \/ closed
    <3>1. PICK o \in Outcomes, r \in ResultReasons : results = <<<<o, r>>>>
      BY <2>1 DEF IInv, Counted
    <3>2. Len(results) = 1
      BY <3>1
    <3> QED
      BY <3>2 DEF IInv, Recorded, ReportedOnce
  <2>2. CASE ~(ended \/ closed)
    <3>1. Len(results) = 0
      BY <2>2 DEF IInv, Counted
    <3> QED
      BY <2>2, <3>1 DEF IInv, Recorded, ReportedOnce
  <2> QED
    BY <2>1, <2>2
<1> QED
  BY <1>1, ResponseBodyInvariant, PTL

\* Once a result is counted neither it nor the request's metrics change.
THEOREM ResultIsFinal == Spec => ResultStands
<1>1. IInv /\ [Next]_vars => [results # <<>> => results' = results /\ recorded' = recorded]_vars
  <2> SUFFICES ASSUME IInv, [Next]_vars, results # <<>>
               PROVE  results' = results /\ recorded' = recorded
    OBVIOUS
  <2>1. ended \/ closed
    BY DEF IInv, Counted
  <2> QED
    BY <2>1 DEF Next, Read, ReadEOF, ReadError, ReadAgain, Close, report, vars
<1> QED
  BY <1>1, ResponseBodyInvariant, PTL DEF ResultStands, Spec

\* The first failure met while reading stands, whatever follows it, and is what
\* is counted at the end: nothing that failed is recorded (responseBody.fail).
THEOREM FirstFailureStands ==
  Spec => /\ [](FirstFailureCounts /\ (failed => recorded = 0))
          /\ [][failed => failed' /\ failure' = failure]_vars
<1>1. IInv => FirstFailureCounts /\ (failed => recorded = 0)
  BY DEF IInv, FirstFailureCounts, Recorded
<1>2. IInv /\ [Next]_vars => [failed => failed' /\ failure' = failure]_vars
  <2> SUFFICES ASSUME IInv, [Next]_vars, failed
               PROVE  failed' /\ failure' = failure
    OBVIOUS
  <2>1. Later(BodyState, BodyState')
    BY NextIInv
  <2> QED
    BY <2>1 DEF Later, BodyState
<1> QED
  BY <1>1, <1>2, ResponseBodyInvariant, PTL DEF Spec

\* Token by token, the observer knows what the body so far means.
THEOREM ObserverInvariant == Spec => []MInv
<1>1. MInv /\ [Next]_vars => MInv'
  BY NextMInv
<1> QED
  BY <1>1, InitMInv, PTL DEF Spec

\* For every body, plain or an event stream, of any length and any objects: at a
\* clean EOF the observer counts and records what the whole body deserves.
THEOREM VerdictIsRight == Spec => []MatchesReference
<1>1. MInv => MatchesReference
  BY DEF MInv
<1> QED
  BY <1>1, ObserverInvariant, PTL

\* A field name beyond the limit is counted once per response, as soon as the
\* read that holds its end returns, whatever else that read holds (the end of its
\* event, a failure, other names) and however the body is cut into reads; and it
\* is counted only for a body that has one.
THEOREM SkipCountedOnce == Spec => []SkipNoticedOnce
<1>1. MInv => SkipNoticedOnce
  BY DEF MInv
<1> QED
  BY <1>1, ObserverInvariant, PTL
=============================================================================
