--------------------------- MODULE StartupProofs ---------------------------
(***************************************************************************)
(* Startup.tla for every config file, every environment and every meaning  *)
(* of the texts in them: whatever Load accepts, the parts main constructs  *)
(* get what they rely on.                                                  *)
(***************************************************************************)
EXTENDS Startup, TLAPS, WellFoundedInduction, SequenceTheorems

-----------------------------------------------------------------------------
(* Numbers.  Induction in the form of a set that is closed under + 1. *)

\* A non-empty set of naturals has a least element.
LEMMA LeastNumber ==
  ASSUME NEW T \in SUBSET Nat, T # {}
  PROVE  \E x \in T : \A y \in T : x <= y
<1>1. PICK x \in T : \A y \in T : ~ (<<y, x>> \in OpToRel(<, Nat))
  BY NatLessThanWellFounded, WFMin
<1>2. \A y \in T : ~ (y < x)
  BY <1>1 DEF OpToRel
<1> QED
  BY <1>2

\* A set that holds 0 and is closed under + 1 holds every natural.
LEMMA Induction ==
  ASSUME NEW S, 0 \in S, \A n \in Nat : n \in S => n + 1 \in S
  PROVE  Nat \subseteq S
<1> SUFFICES ASSUME Nat \ S # {} PROVE FALSE
  OBVIOUS
<1>1. PICK x \in Nat \ S : \A y \in Nat \ S : x <= y
  BY LeastNumber
<1>2. x # 0 /\ x - 1 \in Nat /\ x - 1 \in S
  BY <1>1
<1> QED
  BY <1>1, <1>2

\* A set of positions has a last one.
LEMMA MaxOf ==
  ASSUME NEW n \in Nat, NEW s \in SUBSET (1..n), s # {}
  PROVE  Max(s) \in s /\ \A y \in s : y <= Max(s)
<1> DEFINE up == {k \in Nat : \A y \in s : y <= k}
<1>1. up \in SUBSET Nat /\ n \in up
  OBVIOUS
<1>2. PICK k \in up : \A j \in up : k <= j
  BY <1>1, LeastNumber
<1>3. k \in s
  <2> SUFFICES ASSUME k \notin s PROVE FALSE
    OBVIOUS
  <2>1. k \in Nat /\ \A y \in s : y \in Nat /\ y >= 1 /\ y <= k /\ y # k
    BY <1>2
  <2>2. PICK y \in s : y >= 1
    BY <2>1
  <2>3. k - 1 \in Nat
    BY <2>1, <2>2
  <2>4. \A z \in s : z <= k - 1
    BY <2>1
  <2>5. k - 1 \in up
    BY <2>3, <2>4
  <2> HIDE DEF up
  <2> QED
    BY <1>2, <2>1, <2>5
<1>4. \E x \in s : \A y \in s : x >= y
  BY <1>2, <1>3
<1>5. Max(s) \in s /\ \A y \in s : Max(s) >= y
  BY <1>4 DEF Max
<1> QED
  BY <1>5

\* An upper bound that belongs to the set is its Max.
LEMMA MaxIs ==
  ASSUME NEW n \in Nat, NEW s \in SUBSET (1..n), NEW m \in s, \A y \in s : y <= m
  PROVE  Max(s) = m
<1>1. Max(s) \in s /\ m <= Max(s) /\ Max(s) <= m
  BY MaxOf
<1>2. Max(s) \in 1..n /\ m \in 1..n
  BY <1>1
<1> QED
  BY <1>1, <1>2

-----------------------------------------------------------------------------
(* The three loops of config.go over the entries of a map.  FoldLeft is    *)
(* defined through a function on the sets of positions; these lemmas show  *)
(* that there is one and that it takes the entries in order.               *)

\* The loops of the apply functions, parseRemoteWriteEntry and applyTree.
Body(loop, nodes, section, c, e) ==
    IF loop = "section" THEN assign(c, section, e.key, asString(nodes[e.n]))
    ELSE IF loop = "entry" THEN applyEntryKey(c, nodes, e)
    ELSE applyKey(c, nodes, e)

\* h is what the loop makes of c and the entries of es at each set of positions up to n.
Folds(loop, nodes, section, c, es, n, h) ==
    h = [s \in SUBSET (1..n) |->
            IF s = {} THEN c ELSE Body(loop, nodes, section, h[s \ {Max(s)}], es[Max(s)])]

\* What the loop makes of the first n entries determines what it makes of n + 1.
LEMMA FoldsExtend ==
  ASSUME NEW loop, NEW nodes, NEW section, NEW c, NEW es, NEW n \in Nat,
         NEW g, Folds(loop, nodes, section, c, es, n, g)
  PROVE  \E h : Folds(loop, nodes, section, c, es, n + 1, h)
<1> DEFINE B(a, e) == Body(loop, nodes, section, a, e)
           k == [s \in SUBSET (1..(n + 1)) |->
                    IF n + 1 \in s THEN B(g[s \ {n + 1}], es[n + 1]) ELSE g[s]]
<1>1. \A s \in SUBSET (1..n) : g[s] = IF s = {} THEN c ELSE B(g[s \ {Max(s)}], es[Max(s)])
  BY DEF Folds
<1> HIDE DEF B
<1>2. ASSUME NEW s \in SUBSET (1..(n + 1))
      PROVE  k[s] = IF s = {} THEN c ELSE B(k[s \ {Max(s)}], es[Max(s)])
  <2>1. CASE n + 1 \in s
    <3>1. n + 1 \in Nat /\ \A y \in s : y <= n + 1
      OBVIOUS
    <3>2. Max(s) = n + 1
      BY <2>1, <3>1, MaxIs
    <3>3. s \ {n + 1} \in SUBSET (1..(n + 1)) /\ n + 1 \notin s \ {n + 1}
      OBVIOUS
    <3>4. k[s \ {n + 1}] = g[s \ {n + 1}]
      BY <3>3
    <3> QED
      BY <2>1, <3>2, <3>4
  <2>2. CASE n + 1 \notin s
    <3>1. s \in SUBSET (1..n)
      BY <2>2
    <3>2. k[s] = g[s]
      BY <2>2
    <3>3. s \ {Max(s)} \in SUBSET (1..(n + 1)) /\ n + 1 \notin s \ {Max(s)}
      BY <2>2
    <3>4. k[s \ {Max(s)}] = g[s \ {Max(s)}]
      BY <3>3
    <3> QED
      BY <1>1, <3>1, <3>2, <3>4
  <2> QED
    BY <2>1, <2>2
<1>3. k = [s \in SUBSET (1..(n + 1)) |-> IF s = {} THEN c ELSE B(k[s \ {Max(s)}], es[Max(s)])]
  BY <1>2
<1>4. Folds(loop, nodes, section, c, es, n + 1, k)
  BY <1>3 DEF Folds, B
<1> QED
  BY <1>4

\* The loop makes something of any number of entries.
LEMMA FoldsExists ==
  ASSUME NEW loop, NEW nodes, NEW section, NEW c, NEW es, NEW n \in Nat
  PROVE  \E h : Folds(loop, nodes, section, c, es, n, h)
<1> DEFINE S == {m \in Nat : \E h : Folds(loop, nodes, section, c, es, m, h)}
<1>1. 0 \in S
  <2> DEFINE g == [s \in SUBSET (1..0) |-> c]
  <2>1. Folds(loop, nodes, section, c, es, 0, g)
    <3>1. \A s \in SUBSET (1..0) : s = {}
      OBVIOUS
    <3> QED
      BY <3>1 DEF Folds
  <2> QED
    BY <2>1
<1>2. \A m \in Nat : m \in S => m + 1 \in S
  BY FoldsExtend
<1> HIDE DEF S
<1>3. n \in S
  BY <1>1, <1>2, Induction
<1> QED
  BY <1>3 DEF S

\* It takes the entries from the first to the last.
LEMMA FoldsInOrder ==
  ASSUME NEW loop, NEW nodes, NEW section, NEW c, NEW es, NEW n \in Nat,
         NEW h, Folds(loop, nodes, section, c, es, n, h)
  PROVE  /\ h[1..0] = c
         /\ \A i \in 1..n : h[1..i] = Body(loop, nodes, section, h[1..(i - 1)], es[i])
<1>1. h[1..0] = c
  <2>1. 1..0 = {} /\ 1..0 \in SUBSET (1..n)
    OBVIOUS
  <2> QED
    BY <2>1 DEF Folds
<1>2. ASSUME NEW i \in 1..n
      PROVE  h[1..i] = Body(loop, nodes, section, h[1..(i - 1)], es[i])
  <2>1. i \in Nat /\ 1..i \in SUBSET (1..n) /\ i \in 1..i /\ \A y \in 1..i : y <= i
    OBVIOUS
  <2>2. Max(1..i) = i
    BY <2>1, MaxIs
  <2>3. (1..i) \ {i} = 1..(i - 1)
    BY <2>1
  <2>4. 1..i # {}
    BY <2>1
  <2>5. h[1..i] = Body(loop, nodes, section, h[(1..i) \ {Max(1..i)}], es[Max(1..i)])
    BY <2>1, <2>4 DEF Folds
  <2> QED
    BY <2>2, <2>3, <2>5
<1> QED
  BY <1>1, <1>2

\* r[i] is what the loop has made of c after i entries of es.
Steps(loop, nodes, section, c, es, r) ==
    /\ r[0] = c
    /\ \A i \in 1..Len(es) : r[i] = Body(loop, nodes, section, r[i - 1], es[i])

\* The loop as a sequence of values of c.
LEMMA FoldsUnroll ==
  ASSUME NEW loop, NEW nodes, NEW section, NEW c, NEW E, NEW es \in Seq(E), NEW h,
         Folds(loop, nodes, section, c, es, Len(es), h)
  PROVE  \E r : Steps(loop, nodes, section, c, es, r) /\ h[DOMAIN es] = r[Len(es)]
<1>1. Len(es) \in Nat /\ DOMAIN es = 1..Len(es)
  OBVIOUS
<1>2. /\ h[1..0] = c
      /\ \A i \in 1..Len(es) : h[1..i] = Body(loop, nodes, section, h[1..(i - 1)], es[i])
  BY <1>1, FoldsInOrder
<1> DEFINE r == [i \in 0..Len(es) |-> h[1..i]]
<1>3. r[0] = c /\ h[DOMAIN es] = r[Len(es)]
  BY <1>1, <1>2
<1>4. \A i \in 1..Len(es) : r[i] = Body(loop, nodes, section, r[i - 1], es[i])
  BY <1>1, <1>2
<1>5. Steps(loop, nodes, section, c, es, r)
  BY <1>3, <1>4, Zenon DEF Steps
<1> HIDE DEF r
<1> QED
  BY <1>3, <1>5, Zenon

\* applyQueue, applyRetry, applyBreaker and their like: one assignment per entry.
LEMMA SectionLoop ==
  ASSUME NEW c, NEW section, NEW nodes, NEW E, NEW n, n.kind = "map", n.children \in Seq(E)
  PROVE  \E r : /\ r[0] = c
                /\ \A i \in 1..Len(n.children) : r[i] =
                      assign(r[i - 1], section, n.children[i].key, asString(nodes[n.children[i].n]))
                /\ applySection(c, section, nodes, n) = r[Len(n.children)]
<1> DEFINE es == n.children
           P(g) == g = [s \in SUBSET DOMAIN es |->
                           IF s = {} THEN c
                           ELSE assign(g[s \ {Max(s)}], section, es[Max(s)].key,
                                       asString(nodes[es[Max(s)].n]))]
           h == CHOOSE g : P(g)
<1>1. applySection(c, section, nodes, n) = h[DOMAIN es]
  BY DEF applySection, FoldLeft, MapThenFoldSet
<1>2. es \in Seq(E) /\ Len(es) \in Nat /\ DOMAIN es = 1..Len(es)
  OBVIOUS
<1>3. \A a, e : Body("section", nodes, section, a, e) = assign(a, section, e.key, asString(nodes[e.n]))
  BY DEF Body
<1>4. \A g : Folds("section", nodes, section, c, es, Len(es), g) <=> P(g)
  BY <1>2, <1>3, Zenon DEF Folds
<1>5. \E g : P(g)
  BY <1>2, <1>4, FoldsExists, Zenon
<1>6. P(h)
  BY <1>5, Zenon
<1>7. Folds("section", nodes, section, c, es, Len(es), h)
  BY <1>4, <1>6, Zenon
<1> HIDE DEF h, P, es
<1>8. PICK r : Steps("section", nodes, section, c, es, r) /\ h[DOMAIN es] = r[Len(es)]
  BY <1>2, <1>7, FoldsUnroll
<1>9. \A i \in 1..Len(es) :
         r[i] = assign(r[i - 1], section, es[i].key, asString(nodes[es[i].n]))
  BY <1>3, <1>8, Zenon DEF Steps
<1> QED
  BY <1>1, <1>8, <1>9, Zenon DEF es, Steps

\* parseRemoteWriteEntry: one key after the other.
LEMMA EntryLoop ==
  ASSUME NEW nodes, NEW E, NEW n, n.kind = "map", n.children \in Seq(E)
  PROVE  \E r : /\ r[0] = NewEntry
                /\ \A i \in 1..Len(n.children) :
                      r[i] = applyEntryKey(r[i - 1], nodes, n.children[i])
                /\ parseRemoteWriteEntry(nodes, n) = r[Len(n.children)]
<1> DEFINE es == n.children
           P(g) == g = [s \in SUBSET DOMAIN es |->
                           IF s = {} THEN NewEntry
                           ELSE applyEntryKey(g[s \ {Max(s)}], nodes, es[Max(s)])]
           h == CHOOSE g : P(g)
<1>1. parseRemoteWriteEntry(nodes, n) = h[DOMAIN es]
  BY DEF parseRemoteWriteEntry, FoldLeft, MapThenFoldSet
<1>2. es \in Seq(E) /\ Len(es) \in Nat /\ DOMAIN es = 1..Len(es)
  OBVIOUS
<1>3. \A a, e : Body("entry", nodes, Nil, a, e) = applyEntryKey(a, nodes, e)
  BY DEF Body
<1>4. \A g : Folds("entry", nodes, Nil, NewEntry, es, Len(es), g) <=> P(g)
  BY <1>2, <1>3, Zenon DEF Folds
<1>5. \E g : P(g)
  BY <1>2, <1>4, FoldsExists, Zenon
<1>6. P(h)
  BY <1>5, Zenon
<1>7. Folds("entry", nodes, Nil, NewEntry, es, Len(es), h)
  BY <1>4, <1>6, Zenon
<1> HIDE DEF h, P, es
<1>8. PICK r : Steps("entry", nodes, Nil, NewEntry, es, r) /\ h[DOMAIN es] = r[Len(es)]
  BY <1>2, <1>7, FoldsUnroll
<1>9. \A i \in 1..Len(es) : r[i] = applyEntryKey(r[i - 1], nodes, es[i])
  BY <1>3, <1>8, Zenon DEF Steps
<1> QED
  BY <1>1, <1>8, <1>9, Zenon DEF es, Steps

\* applyTree: one top-level key after the other.
LEMMA DocumentLoop ==
  ASSUME NEW nodes, NEW E, nodes[1].children \in Seq(E)
  PROVE  \E r : /\ r[0] = defaults
                /\ \A i \in 1..Len(nodes[1].children) :
                      r[i] = applyKey(r[i - 1], nodes, nodes[1].children[i])
                /\ applyTree(nodes) = r[Len(nodes[1].children)]
<1> DEFINE es == nodes[1].children
           P(g) == g = [s \in SUBSET DOMAIN es |->
                           IF s = {} THEN defaults
                           ELSE applyKey(g[s \ {Max(s)}], nodes, es[Max(s)])]
           h == CHOOSE g : P(g)
<1>1. applyTree(nodes) = h[DOMAIN es]
  BY DEF applyTree, FoldLeft, MapThenFoldSet
<1>2. es \in Seq(E) /\ Len(es) \in Nat /\ DOMAIN es = 1..Len(es)
  OBVIOUS
<1>3. \A a, e : Body("document", nodes, Nil, a, e) = applyKey(a, nodes, e)
  BY DEF Body
<1>4. \A g : Folds("document", nodes, Nil, defaults, es, Len(es), g) <=> P(g)
  BY <1>2, <1>3, Zenon DEF Folds
<1>5. \E g : P(g)
  BY <1>2, <1>4, FoldsExists, Zenon
<1>6. P(h)
  BY <1>5, Zenon
<1>7. Folds("document", nodes, Nil, defaults, es, Len(es), h)
  BY <1>4, <1>6, Zenon
<1> HIDE DEF h, P, es
<1>8. PICK r : Steps("document", nodes, Nil, defaults, es, r) /\ h[DOMAIN es] = r[Len(es)]
  BY <1>2, <1>7, FoldsUnroll
<1>9. \A i \in 1..Len(es) : r[i] = applyKey(r[i - 1], nodes, es[i])
  BY <1>3, <1>8, Zenon DEF Steps
<1> QED
  BY <1>1, <1>8, <1>9, Zenon DEF es, Steps

-----------------------------------------------------------------------------
(* The inductive invariant *)

Text == STRING \cup {"", NoKey}
Kind == {"map", "list", "scalar", "open"}
Child == [key : Text, n : Nat \ {0}]
Node == [kind : Kind, text : Text, children : Seq(Child)]
Frame == [indent : Int, n : Nat \ {0}]

\* The tree refers to its own nodes only, and the stack is never empty.
TreeOK(p) ==
    /\ DOMAIN p = {"nodes", "stack", "err"}
    /\ p.nodes \in Seq(Node) /\ p.nodes # <<>>
    /\ \A i \in DOMAIN p.nodes : \A j \in DOMAIN p.nodes[i].children :
          p.nodes[i].children[j].n <= Len(p.nodes)
    /\ p.stack \in Seq(Frame) /\ p.stack # <<>>
    /\ \A i \in DOMAIN p.stack : p.stack[i].n <= Len(p.nodes)

\* Settings read as numbers.
numeric(sk) == Schema[sk[1]][sk[2]] \in {"duration", "optionalDuration", "int"}

\* Every setting is there, and the numeric ones hold numbers.
Typed(set, sections) ==
    /\ set = [sk \in settingsOf(sections) |-> set[sk]]
    /\ \A sk \in settingsOf(sections) : numeric(sk) => set[sk] \in Int

\* A user name comes with basic_auth only.
EntryOK(rw) ==
    /\ DOMAIN rw = {"err", "basicAuth", "headers", "external_labels", "set"}
    /\ Typed(rw.set, {"entry"} \cup EntrySections)
    /\ rw.basicAuth \/ rw.set[<<"basic_auth", "username">>] = ""

\* s is a sequence.
Listed(s) == \E m \in Nat : s = [i \in 1..m |-> s[i]]

ConfigOK(c) ==
    /\ DOMAIN c = {"err", "remoteWrite", "excludePaths", "set"}
    /\ Typed(c.set, {"top"} \cup TopSections)
    /\ Listed(c.remoteWrite)
    /\ \A i \in DOMAIN c.remoteWrite : EntryOK(c.remoteWrite[i])

IInv ==
    /\ file \in DOMAIN Files /\ doc \in Seq(Line) /\ TreeOK(tree)
    /\ phase \in {"loaded", "running"} => ConfigOK(cfg) /\ validate(cfg)
    /\ phase = "running" => RunsAsAssumed

-----------------------------------------------------------------------------
(* The parser *)

\* Unquoting leaves a text.
LEMMA Texts ==
  /\ "" \in Text /\ NoKey \in Text
  /\ \A t \in STRING : t \in Text /\ unquoteYAML(t) \in Text
  BY DEF Text, unquoteYAML

\* A node without children is a node, whatever its kind and text.
LEMMA LeafNode == \A k \in Kind, t \in Text : node(k, t) \in Node /\ node(k, t).children = <<>>
  BY DEF node, Node

\* The kinds of node there are.
LEMMA Kinds == "map" \in Kind /\ "list" \in Kind /\ "scalar" \in Kind /\ "open" \in Kind
  BY DEF Kind

\* A child refers to a node by its position.
LEMMA ChildAt ==
  ASSUME NEW nd \in Node, NEW j \in DOMAIN nd.children
  PROVE  nd.children[j].n \in Nat \ {0}
<1>1. nd.children \in Seq(Child)
  BY DEF Node
<1>2. nd.children[j] \in Child
  BY <1>1
<1> QED
  BY <1>2 DEF Child

\* The parser starts with a root and its frame.
LEMMA NewTreeOK == TreeOK(NewTree)
<1> DEFINE root == node("map", "")
           f == [indent |-> -2, n |-> 1]
<1>1. root \in Node /\ root.children = <<>>
  BY LeafNode, Kinds, Texts, Zenon
<1>2. f \in Frame /\ f.n = 1
  BY DEF Frame
<1>3. NewTree.nodes = <<root>> /\ NewTree.stack = <<f>> /\ DOMAIN NewTree = {"nodes", "stack", "err"}
  BY DEF NewTree
<1> HIDE DEF root, f
<1>4. /\ <<root>> \in Seq(Node) /\ Len(<<root>>) = 1 /\ <<root>> # <<>> /\ <<root>>[1] = root
      /\ <<f>> \in Seq(Frame) /\ Len(<<f>>) = 1 /\ <<f>> # <<>> /\ <<f>>[1] = f
      /\ DOMAIN <<root>> = {1} /\ DOMAIN <<f>> = {1} /\ DOMAIN <<>> = {}
  BY <1>1, <1>2
<1>5. \A i \in DOMAIN NewTree.nodes : DOMAIN NewTree.nodes[i].children = {}
  BY <1>1, <1>3, <1>4
<1>6. \A i \in DOMAIN NewTree.stack : NewTree.stack[i].n <= Len(NewTree.nodes)
  BY <1>2, <1>3, <1>4
<1> QED
  BY <1>3, <1>4, <1>5, <1>6 DEF TreeOK

\* An error changes nothing else.
LEMMA FailedOK == ASSUME NEW p, TreeOK(p) PROVE TreeOK(failed(p))
  BY DEF TreeOK, failed

\* A child joins its parent, and refers to the node that is added.
LEMMA AddChildOK ==
  ASSUME NEW p, TreeOK(p), NEW parent \in 1..Len(p.nodes), NEW kind \in Kind, NEW key \in Text,
         NEW new \in Node, new.children = <<>>
  PROVE  /\ TreeOK(addChild(p, parent, kind, key, new))
         /\ addChild(p, parent, kind, key, new).stack = p.stack
         /\ Len(addChild(p, parent, kind, key, new).nodes) = Len(p.nodes) + 1
<1> DEFINE child == [key |-> key, n |-> Len(p.nodes) + 1]
           old == p.nodes[parent]
           grown == [old EXCEPT !.kind = kind, !.children = Append(@, child)]
           all == Append([p.nodes EXCEPT ![parent] = grown], new)
           q == addChild(p, parent, kind, key, new)
<1>1. p.nodes \in Seq(Node) /\ Len(p.nodes) \in Nat /\ old \in Node
  BY DEF TreeOK
<1>2. DOMAIN q = DOMAIN p /\ q.nodes = all /\ q.stack = p.stack
  BY DEF addChild, TreeOK
<1>3. child \in Child /\ child.n = Len(p.nodes) + 1 /\ old.children \in Seq(Child)
  BY <1>1 DEF Child, Node
<1> HIDE DEF child
<1>4. grown \in Node /\ grown.children = Append(old.children, child)
  <2>1. Append(old.children, child) \in Seq(Child)
    BY <1>3
  <2>2. grown = [old EXCEPT !.kind = kind, !.children = Append(old.children, child)]
    OBVIOUS
  <2> HIDE DEF old, grown
  <2> QED
    BY <1>1, <2>1, <2>2 DEF Node
<1> HIDE DEF grown
<1>5. all \in Seq(Node) /\ Len(all) = Len(p.nodes) + 1
  BY <1>1, <1>4
<1>6. ASSUME NEW i \in 1..(Len(p.nodes) + 1), NEW j \in DOMAIN all[i].children
      PROVE  all[i].children[j].n <= Len(p.nodes) + 1
  <2>1. CASE i = Len(p.nodes) + 1
    <3>1. all[i] = new
      BY <1>1, <1>4, <2>1
    <3> QED
      BY <1>6, <3>1
  <2>2. CASE i = parent
    <3>1. all[i] = grown
      BY <2>2, <1>1, <1>4
    <3>2. j \in 1..(Len(old.children) + 1) /\ Len(old.children) \in Nat
      BY <1>3, <1>4, <1>6, <3>1
    <3>3. CASE j = Len(old.children) + 1
      BY <1>1, <1>3, <1>4, <3>1, <3>3
    <3>4. CASE j \in 1..Len(old.children)
      <4> DEFINE cs == old.children
                 at == cs[j]
      <4>1. all[i].children = Append(cs, child) /\ cs \in Seq(Child)
        BY <1>3, <1>4, <3>1, Zenon
      <4> HIDE DEF cs
      <4>2. Append(cs, child)[j] = cs[j] /\ j \in DOMAIN cs
        BY <3>4, <4>1 DEF cs
      <4>3. at.n \in Nat
        BY <1>1, <4>2, ChildAt DEF cs
      <4>4. at.n <= Len(p.nodes)
        BY <1>1, <4>2 DEF TreeOK, cs
      <4> HIDE DEF at
      <4>5. at.n <= Len(p.nodes) + 1
        BY <1>1, <4>3, <4>4
      <4> QED
        BY <4>1, <4>2, <4>5, Zenon DEF at
    <3>5. j = Len(old.children) + 1 \/ j \in 1..Len(old.children)
      BY <3>2
    <3> QED
      BY <3>3, <3>4, <3>5
  <2>3. CASE i \in 1..Len(p.nodes) /\ i # parent
    <3>1. all[i] = p.nodes[i]
      BY <2>3, <1>1, <1>4
    <3>2. p.nodes[i] \in Node /\ p.nodes[i].children[j].n <= Len(p.nodes)
      BY <1>1, <1>6, <2>3, <3>1 DEF TreeOK
    <3>3. p.nodes[i].children[j].n \in Nat
      BY <1>6, <3>1, <3>2, ChildAt
    <3> QED
      BY <1>1, <3>1, <3>2, <3>3
  <2> QED
    BY <1>1, <2>1, <2>2, <2>3
<1>7. \A i \in DOMAIN p.stack : p.stack[i].n <= Len(p.nodes) + 1
  <2> TAKE i \in DOMAIN p.stack
  <2>1. p.stack[i] \in Frame /\ p.stack[i].n <= Len(p.nodes)
    BY DEF TreeOK
  <2> QED
    BY <1>1, <2>1 DEF Frame
<1> HIDE DEF q, all
<1>8. TreeOK(q)
  BY <1>1, <1>2, <1>5, <1>6, <1>7 DEF TreeOK
<1> QED
  BY <1>2, <1>5, <1>8 DEF q

\* A pushed frame refers to the node added last.
LEMMA PushOK ==
  ASSUME NEW p, TreeOK(p), NEW indent \in Int
  PROVE  /\ TreeOK(push(p, indent)) /\ push(p, indent).nodes = p.nodes
         /\ Last(push(p, indent).stack).n = Len(p.nodes)
<1> DEFINE f == [indent |-> indent, n |-> Len(p.nodes)]
           q == push(p, indent)
<1>1. Len(p.nodes) \in Nat \ {0}
  BY DEF TreeOK
<1>2. DOMAIN q = DOMAIN p /\ q.nodes = p.nodes /\ q.stack = Append(p.stack, f)
  BY DEF push, TreeOK
<1>3. p.stack \in Seq(Frame) /\ f \in Frame /\ f.n = Len(p.nodes)
  BY <1>1 DEF TreeOK, Frame
<1> HIDE DEF f, q
<1>4. q.stack \in Seq(Frame) /\ q.stack # <<>> /\ Last(q.stack) = f
  BY <1>2, <1>3 DEF Last
<1>5. \A i \in DOMAIN q.stack : q.stack[i].n <= Len(p.nodes)
  <2> TAKE i \in DOMAIN q.stack
  <2>1. q.stack[i] = f \/ (i \in DOMAIN p.stack /\ q.stack[i] = p.stack[i])
    BY <1>2, <1>3
  <2> QED
    BY <1>1, <1>3, <2>1 DEF TreeOK
<1>6. TreeOK(q)
  BY <1>2, <1>4, <1>5 DEF TreeOK
<1> QED
  BY <1>2, <1>3, <1>4, <1>6 DEF q

\* Popping stops at the root's frame, so there is always a parent.
LEMMA PopToOK ==
  ASSUME NEW p, TreeOK(p), NEW indent
  PROVE  /\ TreeOK(popTo(p, indent)) /\ popTo(p, indent).nodes = p.nodes
         /\ Last(popTo(p, indent).stack).n \in 1..Len(p.nodes)
<1> DEFINE kept == {1} \cup {i \in DOMAIN p.stack : p.stack[i].indent < indent}
           m == Max(kept)
           q == popTo(p, indent)
<1>1. p.stack \in Seq(Frame) /\ Len(p.stack) \in Nat /\ DOMAIN p.stack = 1..Len(p.stack)
  BY DEF TreeOK
<1>2. Len(p.stack) >= 1
  BY <1>1 DEF TreeOK
<1>3. kept \in SUBSET (1..Len(p.stack)) /\ kept # {}
  BY <1>1, <1>2
<1>4. m \in 1..Len(p.stack)
  BY <1>1, <1>3, MaxOf
<1>5. DOMAIN q = DOMAIN p /\ q.nodes = p.nodes /\ q.stack = SubSeq(p.stack, 1, m)
  BY DEF popTo, TreeOK
<1> HIDE DEF m, q
<1>6. /\ q.stack \in Seq(Frame) /\ Len(q.stack) = m
      /\ \A i \in 1..m : q.stack[i] = p.stack[i]
  <2>1. 1 \in Int /\ m \in Int /\ \A i \in 1..m : p.stack[i] \in Frame
    BY <1>1, <1>4
  <2>2. /\ SubSeq(p.stack, 1, m) \in Seq(Frame)
        /\ Len(SubSeq(p.stack, 1, m)) = (IF 1 <= m THEN m - 1 + 1 ELSE 0)
        /\ \A i \in 1..(m - 1 + 1) : SubSeq(p.stack, 1, m)[i] = p.stack[1 + i - 1]
    BY <2>1, SubSeqProperties
  <2> QED
    BY <1>4, <1>5, <2>1, <2>2
<1>7. q.stack # <<>> /\ Last(q.stack) = p.stack[m]
  BY <1>4, <1>6 DEF Last
<1>8. \A i \in DOMAIN q.stack : q.stack[i].n <= Len(p.nodes)
  BY <1>1, <1>4, <1>6 DEF TreeOK
<1>9. p.stack[m].n \in 1..Len(p.nodes)
  <2>1. p.stack[m] \in Frame /\ p.stack[m].n <= Len(p.nodes) /\ Len(p.nodes) \in Nat
    BY <1>1, <1>4 DEF TreeOK
  <2> QED
    BY <2>1 DEF Frame
<1>10. TreeOK(q)
  BY <1>5, <1>6, <1>7, <1>8 DEF TreeOK
<1> QED
  BY <1>5, <1>7, <1>9, <1>10 DEF q

\* A "- " line keeps the tree well formed, or is an error.
LEMMA ListItemOK ==
  ASSUME NEW p, TreeOK(p), NEW parent \in 1..Len(p.nodes), NEW l \in Line
  PROVE  TreeOK(listItem(p, parent, l))
<1> DEFINE q == addChild(p, parent, "list", NoKey, node("map", ""))
           t == push(q, l.indent)
           v == node("scalar", unquoteYAML(l.val))
<1>1. l.key \in Text /\ NoKey \in Text /\ l.indent \in Int /\ unquoteYAML(l.val) \in Text
  <2>1. l.key \in STRING /\ l.val \in STRING /\ l.indent \in Nat
    BY DEF Line
  <2>2. l.indent \in Int
    BY <2>1
  <2> QED
    BY <2>1, <2>2, Texts, Zenon
<1>2. /\ v \in Node /\ v.children = <<>>
      /\ node("map", "") \in Node /\ node("map", "").children = <<>>
  BY <1>1, LeafNode, Kinds, Texts
<1> HIDE DEF v
<1>3. TreeOK(q) /\ Len(q.nodes) = Len(p.nodes) + 1
  BY <1>1, <1>2, Kinds, AddChildOK
<1>4. TreeOK(addChild(p, parent, "list", NoKey, v))
  BY <1>1, <1>2, Kinds, AddChildOK
<1> HIDE DEF q
<1>5. TreeOK(t) /\ t.nodes = q.nodes /\ Last(t.stack).n = Len(q.nodes)
  BY <1>1, <1>3, PushOK
<1> HIDE DEF t
<1>6. Last(t.stack).n \in 1..Len(t.nodes)
  BY <1>3, <1>5
<1>7. TreeOK(addChild(t, Last(t.stack).n, "map", l.key, v))
  BY <1>1, <1>2, <1>5, <1>6, Kinds, AddChildOK
<1>8. TreeOK(failed(p))
  BY FailedOK
<1> QED
  BY <1>3, <1>4, <1>7, <1>8 DEF listItem, q, t, v

\* So does a line with a key.
LEMMA MapEntryOK ==
  ASSUME NEW p, TreeOK(p), NEW parent \in 1..Len(p.nodes), NEW l \in Line
  PROVE  TreeOK(mapEntry(p, parent, l))
<1> DEFINE v == node("scalar", unquoteYAML(l.val))
           q == addChild(p, parent, "map", l.key, node("open", ""))
<1>1. l.key \in Text /\ l.indent \in Int /\ unquoteYAML(l.val) \in Text
  <2>1. l.key \in STRING /\ l.val \in STRING /\ l.indent \in Nat
    BY DEF Line
  <2>2. l.indent \in Int
    BY <2>1
  <2> QED
    BY <2>1, <2>2, Texts, Zenon
<1>2. /\ v \in Node /\ v.children = <<>>
      /\ node("open", "") \in Node /\ node("open", "").children = <<>>
  BY <1>1, LeafNode, Kinds, Texts
<1> HIDE DEF v
<1>3. TreeOK(q) /\ TreeOK(addChild(p, parent, "map", l.key, v))
  BY <1>1, <1>2, Kinds, AddChildOK
<1> HIDE DEF q
<1>4. TreeOK(push(q, l.indent)) /\ TreeOK(failed(p))
  BY <1>1, <1>3, PushOK, FailedOK
<1> QED
  BY <1>3, <1>4 DEF mapEntry, q, v

\* Whatever the line, the parser's state stays in order.
LEMMA ParseLineOK ==
  ASSUME NEW p, TreeOK(p), NEW l \in Line
  PROVE  TreeOK(parseLine(p, l))
<1> DEFINE q == popTo(p, l.indent)
<1>1. TreeOK(q) /\ Last(q.stack).n \in 1..Len(q.nodes)
  BY PopToOK
<1> HIDE DEF q
<1>2. TreeOK(listItem(q, Last(q.stack).n, l)) /\ TreeOK(mapEntry(q, Last(q.stack).n, l))
  BY <1>1, ListItemOK, MapEntryOK
<1>3. TreeOK(failed(p))
  BY FailedOK
<1> QED
  BY <1>2, <1>3 DEF parseLine, q

-----------------------------------------------------------------------------
(* Settings *)

\* A key that the schema lists is a setting of its section.
LEMMA SettingIn ==
  ASSUME NEW sections, NEW s \in sections, NEW k \in DOMAIN Schema[s]
  PROVE  <<s, k>> \in settingsOf(sections)
<1>1. <<s, k>> \in keysOf(sections)
  BY DEF keysOf
<1> QED
  BY <1>1 DEF settingsOf

\* A setting is a section and a key of it.
LEMMA SettingParts ==
  ASSUME NEW sections, NEW sk \in settingsOf(sections)
  PROVE  sk = <<sk[1], sk[2]>> /\ sk[1] \in sections /\ sk[2] \in DOMAIN Schema[sk[1]]
  BY DEF settingsOf, keysOf

\* A text that can be read as a number is one.
LEMMA ReadsNumber ==
  ASSUME NEW text, NEW type \in {"duration", "optionalDuration", "int"}, reads(type, text)
  PROVE  read(type, text) \in Int
  BY StartupAssumption DEF reads, read

\* d is c after some settings of a section: nothing else has changed.
Assigned(c, d, sections, section) ==
    /\ DOMAIN d = DOMAIN c
    /\ \A f \in DOMAIN c \ {"set", "err"} : d[f] = c[f]
    /\ Typed(d.set, sections)
    /\ \A sk \in settingsOf(sections) : sk[1] # section => d.set[sk] = c.set[sk]

\* Assigning nothing is an assignment.
LEMMA AssignedSelf ==
  ASSUME NEW c, NEW sections, NEW section, Typed(c.set, sections)
  PROVE  Assigned(c, c, sections, section)
  BY DEF Assigned

\* A value of the right type keeps the settings typed.
LEMMA SetOne ==
  ASSUME NEW set, NEW sections, Typed(set, sections), NEW sk \in settingsOf(sections), NEW v,
         numeric(sk) => v \in Int
  PROVE  /\ Typed([set EXCEPT ![sk] = v], sections)
         /\ \A x \in settingsOf(sections) : x # sk => [set EXCEPT ![sk] = v][x] = set[x]
         /\ [set EXCEPT ![sk] = v][sk] = v
<1> DEFINE new == [set EXCEPT ![sk] = v]
<1>1. DOMAIN set = settingsOf(sections)
  BY DEF Typed
<1>2. new = [x \in settingsOf(sections) |-> IF x = sk THEN v ELSE set[x]]
  BY <1>1
<1>3. /\ new = [x \in settingsOf(sections) |-> new[x]]
      /\ \A x \in settingsOf(sections) : new[x] = IF x = sk THEN v ELSE set[x]
  BY <1>2
<1> HIDE DEF new
<1>4. \A x \in settingsOf(sections) : numeric(x) => new[x] \in Int
  BY <1>3 DEF Typed
<1> QED
  BY <1>3, <1>4 DEF Typed, new

\* A setting that is not numeric may hold any text.
LEMMA SetText ==
  ASSUME NEW set, NEW sections, Typed(set, sections), NEW sk \in settingsOf(sections), ~numeric(sk),
         NEW v
  PROVE  /\ Typed([set EXCEPT ![sk] = v], sections)
         /\ \A x \in settingsOf(sections) : x # sk => [set EXCEPT ![sk] = v][x] = set[x]
         /\ [set EXCEPT ![sk] = v][sk] = v
  BY SetOne

\* One key of a section.
LEMMA AssignKeeps ==
  ASSUME NEW b, NEW c, NEW sections, NEW section \in sections, NEW key, NEW text,
         {"set", "err"} \subseteq DOMAIN b, Assigned(b, c, sections, section)
  PROVE  Assigned(b, assign(c, section, key, text), sections, section)
<1> DEFINE d == assign(c, section, key, text)
           type == Schema[section][key]
           sk == <<section, key>>
<1>1. "set" \in DOMAIN c /\ "err" \in DOMAIN c /\ Typed(c.set, sections)
  BY DEF Assigned
<1>2. CASE d = c
  BY <1>2
<1>3. CASE d = [c EXCEPT !.err = TRUE]
  <2>1. DOMAIN d = DOMAIN c /\ d.set = c.set /\ \A f \in DOMAIN c \ {"err"} : d[f] = c[f]
    BY <1>1, <1>3
  <2> HIDE DEF d
  <2> QED
    BY <2>1 DEF Assigned, d
<1>4. CASE /\ key \in DOMAIN Schema[section] /\ reads(type, text)
           /\ d = [c EXCEPT !.set[sk] = read(type, text)]
  <2> DEFINE v == read(type, text)
  <2>1. sk \in settingsOf(sections)
    BY <1>4, SettingIn
  <2>2. numeric(sk) => v \in Int
    <3>1. numeric(sk) => type \in {"duration", "optionalDuration", "int"}
      BY DEF numeric
    <3> HIDE DEF type
    <3> QED
      BY <1>4, <3>1, ReadsNumber
  <2>3. /\ DOMAIN d = DOMAIN c /\ d.set = [c.set EXCEPT ![sk] = v]
        /\ \A f \in DOMAIN c \ {"set"} : d[f] = c[f]
    BY <1>1, <1>4
  <2>4. sk[1] = section
    OBVIOUS
  <2> HIDE DEF d, v, sk, type
  <2>5. /\ Typed(d.set, sections)
        /\ \A x \in settingsOf(sections) : x # sk => d.set[x] = c.set[x]
    BY <1>1, <2>1, <2>2, <2>3, SetOne
  <2>6. \A x \in settingsOf(sections) : x[1] # section => x # sk
    BY <2>4
  <2> QED
    BY <2>3, <2>5, <2>6 DEF Assigned, d
<1>5. d = c \/ d = [c EXCEPT !.err = TRUE]
      \/ /\ key \in DOMAIN Schema[section] /\ reads(type, text)
         /\ d = [c EXCEPT !.set[sk] = read(type, text)]
  BY DEF assign
<1> QED
  BY <1>2, <1>3, <1>4, <1>5

\* applyQueue, applyRetry and the others, whatever the node.
LEMMA SectionKeeps ==
  ASSUME NEW b, NEW c, NEW sections, NEW section \in sections, NEW nodes, NEW n \in Node,
         {"set", "err"} \subseteq DOMAIN b, Assigned(b, c, sections, section)
  PROVE  Assigned(b, applySection(c, section, nodes, n), sections, section)
<1> DEFINE es == n.children
<1>1. CASE n.kind # "map"
  BY <1>1 DEF applySection
<1>2. CASE n.kind = "map"
  <2>1. es \in Seq(Child) /\ Len(es) \in Nat
    BY DEF Node
  <2>2. PICK r : /\ r[0] = c
                 /\ \A i \in 1..Len(es) : r[i] =
                       assign(r[i - 1], section, es[i].key, asString(nodes[es[i].n]))
                 /\ applySection(c, section, nodes, n) = r[Len(es)]
    BY <1>2, <2>1, SectionLoop
  <2> DEFINE S == {i \in Nat : i <= Len(es) => Assigned(b, r[i], sections, section)}
  <2>3. 0 \in S
    BY <2>2
  <2>4. ASSUME NEW i \in Nat, i \in S
        PROVE  i + 1 \in S
    <3> SUFFICES ASSUME i + 1 <= Len(es) PROVE Assigned(b, r[i + 1], sections, section)
      OBVIOUS
    <3>1. Assigned(b, r[i], sections, section)
      BY <2>1, <2>4
    <3>2. r[i + 1] = assign(r[i], section, es[i + 1].key, asString(nodes[es[i + 1].n]))
      BY <2>1, <2>2
    <3> QED
      BY <3>1, <3>2, AssignKeeps
  <2> HIDE DEF S
  <2>5. Len(es) \in S
    BY <2>1, <2>3, <2>4, Induction
  <2> QED
    BY <2>1, <2>2, <2>5 DEF S
<1> QED
  BY <1>1, <1>2

-----------------------------------------------------------------------------
(* Entries of remote_write *)

User == <<"basic_auth", "username">>
OfEntry == {"entry"} \cup EntrySections

\* The numbers Build looks at, and the user name, are settings of an entry.
LEMMA EntrySettings ==
  /\ \A sk \in NotNegative \cup {<<"circuit_breaker", "failure_threshold">>} :
        sk \in settingsOf(OfEntry) /\ numeric(sk)
  /\ \A k \in {"username", "password_file"} :
        <<"basic_auth", k>> \in settingsOf(OfEntry) /\ ~numeric(<<"basic_auth", k>>)
<1>1. {"entry", "queue", "retry", "circuit_breaker", "basic_auth"} \subseteq OfEntry
  BY DEF OfEntry, EntrySections
<1>2. /\ \A k \in {"flush_interval", "timeout"} :
            k \in DOMAIN Schema["entry"] /\ Schema["entry"][k] = "duration"
      /\ \A k \in {"max_elapsed", "initial_backoff", "max_backoff"} :
            k \in DOMAIN Schema["retry"] /\ Schema["retry"][k] = "duration"
      /\ "max_attempts" \in DOMAIN Schema["retry"] /\ Schema["retry"]["max_attempts"] = "int"
      /\ \A k \in {"window", "cooldown"} :
            k \in DOMAIN Schema["circuit_breaker"] /\ Schema["circuit_breaker"][k] = "duration"
      /\ "failure_threshold" \in DOMAIN Schema["circuit_breaker"]
      /\ Schema["circuit_breaker"]["failure_threshold"] = "int"
      /\ "capacity" \in DOMAIN Schema["queue"] /\ Schema["queue"]["capacity"] = "int"
      /\ \A k \in {"username", "password_file"} :
            k \in DOMAIN Schema["basic_auth"] /\ Schema["basic_auth"][k] = "string"
  BY DEF Schema
<1>3. \A s \in OfEntry : \A k \in DOMAIN Schema[s] : <<s, k>> \in settingsOf(OfEntry)
  BY SettingIn
<1>4. \A s, k : numeric(<<s, k>>) <=> Schema[s][k] \in {"duration", "optionalDuration", "int"}
  BY DEF numeric
<1> QED
  BY <1>1, <1>2, <1>3, <1>4 DEF NotNegative

\* A new entry has every setting at its zero value.
LEMMA NewEntryOK == EntryOK(NewEntry)
<1> DEFINE set == [sk \in settingsOf(OfEntry) |-> zero(Schema[sk[1]][sk[2]])]
<1>1. /\ DOMAIN NewEntry = {"err", "basicAuth", "headers", "external_labels", "set"}
      /\ NewEntry.set = set /\ NewEntry.basicAuth = FALSE
  BY DEF NewEntry, OfEntry
<1>2. \A t \in {"duration", "optionalDuration", "int"} : zero(t) \in Int
  <2>1. zero("duration") = 0 /\ zero("optionalDuration") = 0 /\ zero("int") = 0
    BY Zenon DEF zero
  <2> QED
    BY <2>1
<1>3. Typed(set, OfEntry)
  BY <1>2 DEF Typed, numeric
<1>4. set[User] = ""
  <2>1. User \in settingsOf(OfEntry)
    BY EntrySettings DEF User
  <2>2. Schema[User[1]][User[2]] = "string"
    BY DEF Schema, User
  <2> QED
    BY <2>1, <2>2 DEF zero
<1> QED
  BY <1>1, <1>3, <1>4 DEF EntryOK, OfEntry, User

\* A section other than basic_auth leaves the credentials alone.
LEMMA AssignedEntryOK ==
  ASSUME NEW c, EntryOK(c), NEW d, NEW section, section # "basic_auth",
         Assigned(c, d, OfEntry, section)
  PROVE  EntryOK(d)
<1>1. d.basicAuth = c.basicAuth /\ DOMAIN d = DOMAIN c /\ Typed(d.set, OfEntry)
  BY DEF EntryOK, Assigned
<1>2. d.set[User] = c.set[User]
  <2>1. User \in settingsOf(OfEntry) /\ User[1] # section
    BY EntrySettings DEF User
  <2> QED
    BY <2>1 DEF Assigned
<1> QED
  BY <1>1, <1>2 DEF EntryOK, OfEntry, User

\* basic_auth is a fresh value, with a user name only if it is a map.
LEMMA BasicAuthOK ==
  ASSUME NEW c, EntryOK(c), NEW nodes, NEW n \in Node
  PROVE  EntryOK(applyBasicAuth(c, nodes, n))
<1> DEFINE secret == <<"basic_auth", "password_file">>
           b == [c EXCEPT !.basicAuth = n.kind = "map", !.set[User] = "", !.set[secret] = ""]
           d == applyBasicAuth(c, nodes, n)
<1>1. d = applySection(b, "basic_auth", nodes, n)
  BY DEF applyBasicAuth, User
<1>2. DOMAIN c = {"err", "basicAuth", "headers", "external_labels", "set"} /\ Typed(c.set, OfEntry)
  BY DEF EntryOK, OfEntry
<1>3. /\ DOMAIN b = DOMAIN c /\ b.basicAuth = (n.kind = "map")
      /\ b.set = [[c.set EXCEPT ![User] = ""] EXCEPT ![secret] = ""]
  BY <1>2
<1>4. /\ User \in settingsOf(OfEntry) /\ secret \in settingsOf(OfEntry) /\ User # secret
      /\ ~numeric(User) /\ ~numeric(secret)
  BY EntrySettings DEF User
<1> HIDE DEF b, d, secret
<1>5. Typed(b.set, OfEntry) /\ b.set[User] = ""
  <2> DEFINE none == ""
             s1 == [c.set EXCEPT ![User] = none]
             s2 == [s1 EXCEPT ![secret] = none]
  <2>1. b.set = s2
    BY <1>3
  <2> HIDE DEF none
  <2>2. Typed(s1, OfEntry) /\ s1[User] = none
    BY <1>2, <1>4, SetText
  <2> HIDE DEF s1
  <2>3. Typed(s2, OfEntry) /\ s2[User] = s1[User]
    BY <1>4, <2>2, SetText
  <2> QED
    BY <2>1, <2>2, <2>3 DEF none
<1>6. "basic_auth" \in OfEntry /\ {"set", "err"} \subseteq DOMAIN b
  BY <1>2, <1>3 DEF OfEntry, EntrySections
<1>7. Assigned(b, d, OfEntry, "basic_auth")
  BY <1>1, <1>5, <1>6, AssignedSelf, SectionKeeps
<1>8. DOMAIN d = DOMAIN c /\ d.basicAuth = b.basicAuth /\ Typed(d.set, OfEntry)
  BY <1>2, <1>3, <1>7 DEF Assigned
<1>9. n.kind # "map" => d = b
  BY <1>1 DEF applySection
<1>10. d.basicAuth \/ d.set[User] = ""
  BY <1>3, <1>5, <1>8, <1>9
<1> QED
  BY <1>2, <1>8, <1>10 DEF EntryOK, OfEntry, User, d

\* Every key of an entry keeps it well formed.
LEMMA EntryKeyOK ==
  ASSUME NEW c, EntryOK(c), NEW nodes, NEW e, nodes[e.n] \in Node
  PROVE  EntryOK(applyEntryKey(c, nodes, e))
<1> DEFINE n == nodes[e.n]
           d == applyEntryKey(c, nodes, e)
<1>1. /\ {"set", "err"} \subseteq DOMAIN c /\ Typed(c.set, OfEntry)
      /\ "headers" \in DOMAIN c /\ "external_labels" \in DOMAIN c
  BY DEF EntryOK, OfEntry
<1>2. CASE e.key = "basic_auth" /\ d = applyBasicAuth(c, nodes, n)
  BY <1>2, BasicAuthOK
<1>3. CASE e.key \in EntrySections \ {"basic_auth"} /\ d = applySection(c, e.key, nodes, n)
  <2>1. e.key \in OfEntry
    BY <1>3 DEF OfEntry
  <2>2. Assigned(c, d, OfEntry, e.key)
    BY <1>1, <1>3, <2>1, AssignedSelf, SectionKeeps
  <2> QED
    BY <1>3, <2>2, AssignedEntryOK
<1>4. CASE d = [c EXCEPT !.headers = applyNames(@, nodes, n)]
           \/ d = [c EXCEPT !.external_labels = applyNames(@, nodes, n)]
  <2>1. DOMAIN d = DOMAIN c /\ d.set = c.set /\ d.basicAuth = c.basicAuth
    BY <1>1, <1>4 DEF EntryOK
  <2> HIDE DEF d
  <2> QED
    BY <2>1 DEF EntryOK, d
<1>5. CASE d = assign(c, "entry", e.key, asString(n))
  <2>1. "entry" \in OfEntry /\ "entry" # "basic_auth"
    BY DEF OfEntry
  <2>2. Assigned(c, d, OfEntry, "entry")
    BY <1>1, <1>5, <2>1, AssignedSelf, AssignKeeps
  <2> QED
    BY <2>1, <2>2, AssignedEntryOK
<1>6. CASE d = c
  BY <1>6
<1>7. \/ d = c
      \/ e.key = "basic_auth" /\ d = applyBasicAuth(c, nodes, n)
      \/ e.key \in EntrySections \ {"basic_auth"} /\ d = applySection(c, e.key, nodes, n)
      \/ d = [c EXCEPT !.headers = applyNames(@, nodes, n)]
      \/ d = [c EXCEPT !.external_labels = applyNames(@, nodes, n)]
      \/ d = assign(c, "entry", e.key, asString(n))
  BY DEF applyEntryKey
<1> QED
  BY <1>2, <1>3, <1>4, <1>5, <1>6, <1>7

\* What the parser hands over.
NodesOK(nodes) ==
    /\ nodes \in Seq(Node) /\ nodes # <<>>
    /\ \A i \in DOMAIN nodes : \A j \in DOMAIN nodes[i].children :
          nodes[i].children[j].n <= Len(nodes)

\* A child of a node is a node of the tree.
LEMMA ChildNode ==
  ASSUME NEW nodes, NodesOK(nodes), NEW i \in 1..Len(nodes), NEW j \in 1..Len(nodes[i].children)
  PROVE  /\ nodes[i] \in Node /\ nodes[i].children \in Seq(Child)
         /\ nodes[i].children[j].n \in 1..Len(nodes)
         /\ nodes[nodes[i].children[j].n] \in Node
<1>1. nodes[i] \in Node /\ nodes \in Seq(Node) /\ Len(nodes) \in Nat
  BY DEF NodesOK
<1>2. nodes[i].children \in Seq(Child)
  BY <1>1 DEF Node
<1>3. j \in DOMAIN nodes[i].children
  BY <1>2
<1>4. nodes[i].children[j].n \in Nat \ {0} /\ nodes[i].children[j].n <= Len(nodes)
  BY <1>1, <1>3, ChildAt DEF NodesOK
<1>5. nodes[i].children[j].n \in 1..Len(nodes)
  BY <1>1, <1>4
<1> QED
  BY <1>1, <1>2, <1>5

\* Whatever the item, its entry is well formed.
LEMMA ParseEntryOK ==
  ASSUME NEW nodes, NEW n \in Node,
         \A j \in 1..Len(n.children) : nodes[n.children[j].n] \in Node
  PROVE  EntryOK(parseRemoteWriteEntry(nodes, n))
<1> DEFINE es == n.children
<1>1. CASE n.kind # "map"
  <2>1. parseRemoteWriteEntry(nodes, n) = [NewEntry EXCEPT !.err = TRUE]
    BY <1>1 DEF parseRemoteWriteEntry
  <2> DEFINE d == [NewEntry EXCEPT !.err = TRUE]
  <2>2. DOMAIN d = DOMAIN NewEntry /\ d.set = NewEntry.set /\ d.basicAuth = NewEntry.basicAuth
    BY NewEntryOK DEF EntryOK
  <2> HIDE DEF d
  <2>3. EntryOK(d)
    BY <2>2, NewEntryOK DEF EntryOK
  <2> QED
    BY <2>1, <2>3 DEF d
<1>2. CASE n.kind = "map"
  <2>1. es \in Seq(Child) /\ Len(es) \in Nat
    BY DEF Node
  <2>2. PICK r : /\ r[0] = NewEntry
                 /\ \A i \in 1..Len(es) : r[i] = applyEntryKey(r[i - 1], nodes, es[i])
                 /\ parseRemoteWriteEntry(nodes, n) = r[Len(es)]
    BY <1>2, <2>1, EntryLoop
  <2> DEFINE S == {i \in Nat : i <= Len(es) => EntryOK(r[i])}
  <2>3. 0 \in S
    BY <2>2, NewEntryOK
  <2>4. ASSUME NEW i \in Nat, i \in S
        PROVE  i + 1 \in S
    <3> SUFFICES ASSUME i + 1 <= Len(es) PROVE EntryOK(r[i + 1])
      OBVIOUS
    <3>1. EntryOK(r[i]) /\ i + 1 \in 1..Len(es)
      BY <2>1, <2>4
    <3>2. r[i + 1] = applyEntryKey(r[i], nodes, es[i + 1])
      BY <2>1, <2>2
    <3>3. nodes[es[i + 1].n] \in Node
      BY <3>1
    <3> QED
      BY <3>1, <3>2, <3>3, EntryKeyOK
  <2> HIDE DEF S
  <2>5. Len(es) \in S
    BY <2>1, <2>3, <2>4, Induction
  <2> QED
    BY <2>1, <2>2, <2>5 DEF S
<1> QED
  BY <1>1, <1>2

-----------------------------------------------------------------------------
(* The document *)

OfTop == {"top"} \cup TopSections

\* A function on 1..m is a sequence of length m.
LEMMA ListedLen ==
  ASSUME NEW s, NEW m \in Nat, s = [i \in 1..m |-> s[i]]
  PROVE  s \in Seq({s[i] : i \in 1..m}) /\ Len(s) = m /\ DOMAIN s = 1..m
<1>1. s \in [1..m -> {s[i] : i \in 1..m}]
  OBVIOUS
<1> QED
  BY <1>1

\* Appending entries to entries.
LEMMA ConcatListed ==
  ASSUME NEW s, NEW m \in Nat, s = [i \in 1..m |-> s[i]],
         NEW t, NEW k \in Nat, t = [i \in 1..k |-> t[i]]
  PROVE  /\ s \o t = [i \in 1..(m + k) |-> (s \o t)[i]]
         /\ \A i \in 1..(m + k) : (s \o t)[i] = IF i <= m THEN s[i] ELSE t[i - m]
<1> DEFINE S == {s[i] : i \in 1..m} \cup {t[i] : i \in 1..k}
<1>1. s \in [1..m -> S] /\ t \in [1..k -> S]
  OBVIOUS
<1> HIDE DEF S
<1>2. s \in Seq(S) /\ Len(s) = m /\ t \in Seq(S) /\ Len(t) = k
  BY <1>1
<1>3. /\ s \o t \in Seq(S) /\ Len(s \o t) = m + k
      /\ \A i \in 1..(m + k) : (s \o t)[i] = IF i <= m THEN s[i] ELSE t[i - m]
  BY <1>2, ConcatProperties
<1> QED
  BY <1>3

\* The top-level settings the parts read, and how they are read.
LEMMA TopSettings ==
  /\ \A sk \in {<<"top", "poll_interval">>, <<"gpu", "poll_interval">>} :
        sk \in settingsOf(OfTop) /\ numeric(sk)
  /\ \A sk \in {<<"top", "ollama_url">>, <<"top", "listen_addr">>,
                <<"metrics_endpoint", "listen_address">>} :
        sk \in settingsOf(OfTop) /\ ~numeric(sk)
<1>1. {"top", "gpu", "metrics_endpoint"} \subseteq OfTop
  BY DEF OfTop, TopSections
<1>2. /\ "poll_interval" \in DOMAIN Schema["top"] /\ Schema["top"]["poll_interval"] = "duration"
      /\ "poll_interval" \in DOMAIN Schema["gpu"]
      /\ Schema["gpu"]["poll_interval"] = "optionalDuration"
      /\ "ollama_url" \in DOMAIN Schema["top"] /\ Schema["top"]["ollama_url"] = "string"
      /\ "listen_addr" \in DOMAIN Schema["top"] /\ Schema["top"]["listen_addr"] = "string"
      /\ "listen_address" \in DOMAIN Schema["metrics_endpoint"]
      /\ Schema["metrics_endpoint"]["listen_address"] = "string"
  BY DEF Schema
<1>3. \A s \in OfTop : \A k \in DOMAIN Schema[s] : <<s, k>> \in settingsOf(OfTop)
  BY SettingIn
<1>4. \A s, k : numeric(<<s, k>>) <=> Schema[s][k] \in {"duration", "optionalDuration", "int"}
  BY DEF numeric
<1> QED
  BY <1>1, <1>2, <1>3, <1>4

\* Outside remote_write, only the two intervals are numbers.
LEMMA TopNumbers ==
  ASSUME NEW sk \in settingsOf(OfTop), numeric(sk)
  PROVE  sk \in {<<"top", "poll_interval">>, <<"gpu", "poll_interval">>}
<1>1. sk = <<sk[1], sk[2]>> /\ sk[1] \in OfTop /\ sk[2] \in DOMAIN Schema[sk[1]]
  BY SettingParts
<1>2. sk[1] \in {"top", "metrics_endpoint", "proxy", "gpu"}
  BY <1>1 DEF OfTop, TopSections
<1>3. Schema[sk[1]][sk[2]] \in {"duration", "optionalDuration", "int"}
  BY DEF numeric
<1>4. \A k \in DOMAIN Schema["top"] :
         Schema["top"][k] \in {"duration", "optionalDuration", "int"} => k = "poll_interval"
  BY DEF Schema
<1>5. \A k \in DOMAIN Schema["gpu"] :
         Schema["gpu"][k] \in {"duration", "optionalDuration", "int"} => k = "poll_interval"
  BY DEF Schema
<1>6. \A k \in DOMAIN Schema["metrics_endpoint"] :
         Schema["metrics_endpoint"][k] \notin {"duration", "optionalDuration", "int"}
  BY DEF Schema
<1>7. \A k \in DOMAIN Schema["proxy"] :
         Schema["proxy"][k] \notin {"duration", "optionalDuration", "int"}
  BY DEF Schema
<1> QED
  BY <1>1, <1>2, <1>3, <1>4, <1>5, <1>6, <1>7

\* The defaults are well formed.
LEMMA DefaultsOK == ConfigOK(defaults)
<1> DEFINE top == <<"top", "poll_interval">>
           gpu == <<"gpu", "poll_interval">>
           set == defaults.set
<1>1. /\ DOMAIN defaults = {"err", "remoteWrite", "excludePaths", "set"}
      /\ defaults.remoteWrite = <<>> /\ set = [sk \in settingsOf(OfTop) |-> set[sk]]
  BY DEF defaults, OfTop
<1>2. top \in settingsOf(OfTop) /\ gpu \in settingsOf(OfTop)
  BY TopSettings
<1>3. set[top] = 15 * Second /\ set[gpu] = 0
  <2>1. top # gpu /\ gpu[2] # "enabled" /\ gpu \notin {<<"metrics_endpoint", "listen_address">>}
    OBVIOUS
  <2> QED
    BY <1>2, <2>1, Zenon DEF defaults, OfTop
<1>4. set[top] \in Int /\ set[gpu] \in Int
  BY <1>3, StartupAssumption
<1> HIDE DEF set
<1>5. Typed(set, OfTop)
  BY <1>1, <1>4, TopNumbers DEF Typed
<1>6. <<>> = [i \in 1..0 |-> <<>>[i]] /\ DOMAIN <<>> = {}
  OBVIOUS
<1> QED
  BY <1>1, <1>5, <1>6 DEF ConfigOK, set, OfTop, Listed

\* Assigning to a section keeps the configuration well formed.
LEMMA AssignedConfigOK ==
  ASSUME NEW c, ConfigOK(c), NEW d, NEW section, Assigned(c, d, OfTop, section)
  PROVE  ConfigOK(d)
<1>1. d.remoteWrite = c.remoteWrite /\ DOMAIN d = DOMAIN c /\ Typed(d.set, OfTop)
  BY DEF ConfigOK, Assigned
<1> QED
  BY <1>1 DEF ConfigOK, OfTop

\* applyRemoteWrite appends well-formed entries.
LEMMA RemoteWriteOK ==
  ASSUME NEW c, ConfigOK(c), NEW nodes, NodesOK(nodes), NEW k \in 1..Len(nodes), NEW n, n = nodes[k]
  PROVE  ConfigOK(applyRemoteWrite(c, nodes, n))
<1> DEFINE es == n.children
           entries == [i \in DOMAIN es |-> parseRemoteWriteEntry(nodes, nodes[es[i].n])]
           d == [c EXCEPT !.remoteWrite = @ \o entries,
                          !.err = \E i \in DOMAIN entries : entries[i].err]
<1>1. applyRemoteWrite(c, nodes, n) = c \/ applyRemoteWrite(c, nodes, n) = d
  BY Zenon DEF applyRemoteWrite
<1>2. n \in Node
  BY DEF NodesOK
<1>3. es \in Seq(Child) /\ Len(es) \in Nat /\ DOMAIN es = 1..Len(es)
  BY <1>2 DEF Node
<1>4. entries = [i \in 1..Len(es) |-> entries[i]]
  BY <1>3
<1>5. ASSUME NEW i \in 1..Len(es)
      PROVE  EntryOK(entries[i])
  <2> DEFINE x == es[i].n
  <2>1. x \in 1..Len(nodes) /\ nodes[x] \in Node
    BY ChildNode
  <2>2. \A j \in 1..Len(nodes[x].children) : nodes[nodes[x].children[j].n] \in Node
    BY <2>1, ChildNode
  <2>3. EntryOK(parseRemoteWriteEntry(nodes, nodes[x]))
    BY <2>1, <2>2, ParseEntryOK
  <2> QED
    BY <1>3, <2>3
<1>6. PICK m \in Nat : c.remoteWrite = [i \in 1..m |-> c.remoteWrite[i]]
  BY DEF ConfigOK, Listed
<1>7. /\ DOMAIN d = DOMAIN c /\ d.set = c.set /\ d.remoteWrite = c.remoteWrite \o entries
  BY DEF ConfigOK
<1> HIDE DEF d, entries
<1> DEFINE t == c.remoteWrite \o entries
<1>8. /\ t = [i \in 1..(m + Len(es)) |-> t[i]]
      /\ \A i \in 1..(m + Len(es)) : t[i] = IF i <= m THEN c.remoteWrite[i] ELSE entries[i - m]
  BY <1>3, <1>4, <1>6, ConcatListed
<1>9. \A i \in 1..m : EntryOK(c.remoteWrite[i])
  BY <1>6 DEF ConfigOK
<1> HIDE DEF t
<1>10. ASSUME NEW i \in 1..(m + Len(es))
       PROVE  EntryOK(t[i])
  <2>1. CASE i <= m
    <3>1. i \in 1..m
      BY <1>3, <2>1
    <3>2. t[i] = c.remoteWrite[i]
      BY <1>8, <2>1, Zenon
    <3> QED
      BY <1>9, <3>1, <3>2, Zenon
  <2>2. CASE ~(i <= m)
    <3>1. i - m \in 1..Len(es)
      BY <1>3, <2>2
    <3> QED
      BY <1>5, <1>8, <2>2, <3>1
  <2> QED
    BY <2>1, <2>2
<1>11. m + Len(es) \in Nat /\ DOMAIN t = 1..(m + Len(es))
  BY <1>3, <1>8
<1>12. Listed(t)
  BY <1>8, <1>11 DEF Listed
<1>13. ConfigOK(d)
  BY <1>7, <1>10, <1>11, <1>12 DEF ConfigOK, t
<1> QED
  BY <1>1, <1>13

\* applyProxy changes excludePaths and its own section only.
LEMMA ProxyOK ==
  ASSUME NEW c, ConfigOK(c), NEW nodes, NEW n \in Node
  PROVE  ConfigOK(applyProxy(c, nodes, n))
<1>1. \E x : \/ applyProxy(c, nodes, n) = applySection(c, "proxy", nodes, n)
             \/ applyProxy(c, nodes, n) = applySection([c EXCEPT !.excludePaths = x], "proxy", nodes, n)
  BY Zenon DEF applyProxy
<1>2. PICK x : \/ applyProxy(c, nodes, n) = applySection(c, "proxy", nodes, n)
               \/ applyProxy(c, nodes, n) = applySection([c EXCEPT !.excludePaths = x], "proxy", nodes, n)
  BY <1>1
<1> DEFINE b == [c EXCEPT !.excludePaths = x]
<1>3. DOMAIN b = DOMAIN c /\ b.set = c.set /\ b.remoteWrite = c.remoteWrite
  BY DEF ConfigOK
<1> HIDE DEF b
<1>4. ConfigOK(b)
  BY <1>3 DEF ConfigOK
<1>5. ASSUME NEW a, ConfigOK(a)
      PROVE  ConfigOK(applySection(a, "proxy", nodes, n))
  <2>1. "proxy" \in OfTop /\ {"set", "err"} \subseteq DOMAIN a /\ Typed(a.set, OfTop)
    BY <1>5 DEF ConfigOK, OfTop, TopSections
  <2>2. Assigned(a, applySection(a, "proxy", nodes, n), OfTop, "proxy")
    BY <2>1, AssignedSelf, SectionKeeps
  <2> QED
    BY <1>5, <2>2, AssignedConfigOK
<1> QED
  BY <1>2, <1>4, <1>5 DEF b

\* Every top-level key keeps the configuration well formed.
LEMMA KeyOK ==
  ASSUME NEW c, ConfigOK(c), NEW nodes, NodesOK(nodes), NEW e, e.n \in 1..Len(nodes)
  PROVE  ConfigOK(applyKey(c, nodes, e))
<1> DEFINE n == nodes[e.n]
           d == applyKey(c, nodes, e)
<1>1. n \in Node
  BY DEF NodesOK
<1>2. {"set", "err"} \subseteq DOMAIN c /\ Typed(c.set, OfTop)
  BY DEF ConfigOK, OfTop
<1>3. CASE d = applyProxy(c, nodes, n)
  BY <1>1, <1>3, ProxyOK
<1>4. CASE e.key \in TopSections \ {"proxy"} /\ d = applySection(c, e.key, nodes, n)
  <2>1. e.key \in OfTop
    BY <1>4 DEF OfTop
  <2>2. Assigned(c, d, OfTop, e.key)
    BY <1>1, <1>2, <1>4, <2>1, AssignedSelf, SectionKeeps
  <2> QED
    BY <2>2, AssignedConfigOK
<1>5. CASE d = applyRemoteWrite(c, nodes, n)
  BY <1>5, RemoteWriteOK
<1>6. CASE d = assign(c, "top", e.key, asString(n))
  <2>1. "top" \in OfTop
    BY DEF OfTop
  <2>2. Assigned(c, d, OfTop, "top")
    BY <1>2, <1>6, <2>1, AssignedSelf, AssignKeeps
  <2> QED
    BY <2>2, AssignedConfigOK
<1>7. CASE d = c
  BY <1>7
<1>8. \/ d = c
      \/ d = applyProxy(c, nodes, n)
      \/ e.key \in TopSections \ {"proxy"} /\ d = applySection(c, e.key, nodes, n)
      \/ d = applyRemoteWrite(c, nodes, n)
      \/ d = assign(c, "top", e.key, asString(n))
  BY DEF applyKey
<1> QED
  BY <1>3, <1>4, <1>5, <1>6, <1>7, <1>8

\* Whatever the file, its configuration is well formed.
LEMMA ApplyTreeOK ==
  ASSUME NEW nodes, NodesOK(nodes)
  PROVE  ConfigOK(applyTree(nodes))
<1> DEFINE es == nodes[1].children
<1>1. 1 \in 1..Len(nodes) /\ nodes[1] \in Node
  BY DEF NodesOK
<1>2. es \in Seq(Child) /\ Len(es) \in Nat
  BY <1>1 DEF Node
<1>3. PICK r : /\ r[0] = defaults
               /\ \A i \in 1..Len(es) : r[i] = applyKey(r[i - 1], nodes, es[i])
               /\ applyTree(nodes) = r[Len(es)]
  BY <1>2, DocumentLoop
<1> DEFINE S == {i \in Nat : i <= Len(es) => ConfigOK(r[i])}
<1>4. 0 \in S
  BY <1>3, DefaultsOK
<1>5. ASSUME NEW i \in Nat, i \in S
      PROVE  i + 1 \in S
  <2> SUFFICES ASSUME i + 1 <= Len(es) PROVE ConfigOK(r[i + 1])
    OBVIOUS
  <2>1. ConfigOK(r[i]) /\ i + 1 \in 1..Len(es)
    BY <1>2, <1>5
  <2>2. r[i + 1] = applyKey(r[i], nodes, es[i + 1])
    BY <1>2, <1>3
  <2>3. es[i + 1].n \in 1..Len(nodes)
    BY <1>1, <2>1, ChildNode
  <2> QED
    BY <2>1, <2>2, <2>3, KeyOK
<1> HIDE DEF S
<1>6. Len(es) \in S
  BY <1>2, <1>4, <1>5, Induction
<1> QED
  BY <1>2, <1>3, <1>6 DEF S

\* The environment's values are texts.
LEMMA OverrideOK ==
  ASSUME NEW c, ConfigOK(c), NEW e
  PROVE  ConfigOK(override(c, e))
<1> DEFINE url == <<"top", "ollama_url">>
           legacy == <<"top", "listen_addr">>
           own == <<"metrics_endpoint", "listen_address">>
           d == override(c, e)
<1>1. PICK u, a : d = [c EXCEPT !.set[url] = u, !.set[legacy] = a, !.set[own] = a]
  BY Zenon DEF override
<1>2. DOMAIN c = {"err", "remoteWrite", "excludePaths", "set"} /\ Typed(c.set, OfTop)
  BY DEF ConfigOK, OfTop
<1> DEFINE s1 == [c.set EXCEPT ![url] = u]
           s2 == [s1 EXCEPT ![legacy] = a]
           s3 == [s2 EXCEPT ![own] = a]
<1>3. DOMAIN d = DOMAIN c /\ d.remoteWrite = c.remoteWrite /\ d.set = s3
  BY <1>1, <1>2
<1>4. \A sk \in {url, legacy, own} : sk \in settingsOf(OfTop) /\ ~numeric(sk)
  BY TopSettings
<1> HIDE DEF d, url, legacy, own
<1>5. Typed(s1, OfTop)
  BY <1>2, <1>4, SetText
<1> HIDE DEF s1
<1>6. Typed(s2, OfTop)
  BY <1>4, <1>5, SetText
<1> HIDE DEF s2
<1>7. Typed(s3, OfTop)
  BY <1>4, <1>6, SetText
<1> HIDE DEF s3
<1> QED
  BY <1>3, <1>7 DEF ConfigOK, OfTop, d

-----------------------------------------------------------------------------
(* Construction *)

\* What RunsAsAssumed says of a pusher.
BuiltAsAssumed(p, rw) ==
    /\ p.capacity >= 1 /\ p.maxAttempts >= 1
    /\ p.failureThreshold >= 1 /\ p.window > 0 /\ p.cooldown > 0
    /\ p.flush >= Second /\ p.timeout > 0
    /\ p.initialBackoff > 0 /\ p.maxBackoff > 0 /\ p.maxElapsed >= 0
    /\ p.token = "" \/ (p.user = "" /\ p.password = "")
    /\ Scheme[rw.set[<<"entry", "url">>]] = "http" => rw.set[<<"entry", "insecure_http">>]
    /\ \A h \in DOMAIN p.headers : Canonical[h] \notin ReservedHeaders

\* Build's defaults make up for what validation lets through.
LEMMA BuildOK ==
  ASSUME NEW rw, EntryOK(rw), validateRemoteWrite(rw)
  PROVE  BuiltAsAssumed(Build(rw), rw)
<1> DEFINE p == Build(rw)
           s == rw.set
<1>1. \A sk \in NotNegative \cup {<<"circuit_breaker", "failure_threshold">>} : s[sk] \in Int
  BY EntrySettings DEF EntryOK, Typed, OfEntry
<1>2. \A sk \in NotNegative : s[sk] >= 0
  BY DEF validateRemoteWrite
<1>3. Second \in Nat /\ Second > 0 /\ 60 * Second \in Int /\ 60 * Second > 0 /\ 30 * Second \in Int
      /\ 30 * Second > 0 /\ 10 * Second \in Int /\ 10 * Second >= Second
  BY StartupAssumption
<1>4. /\ p.capacity = orDefault(s[<<"queue", "capacity">>], 10000)
      /\ p.failureThreshold = orDefault(s[<<"circuit_breaker", "failure_threshold">>], 5)
      /\ p.window = orDefault(s[<<"circuit_breaker", "window">>], 60 * Second)
      /\ p.cooldown = orDefault(s[<<"circuit_breaker", "cooldown">>], 30 * Second)
      /\ p.maxAttempts = orDefault(s[<<"retry", "max_attempts">>], 1)
      /\ p.initialBackoff = orDefault(s[<<"retry", "initial_backoff">>], Second)
      /\ p.maxBackoff = orDefault(s[<<"retry", "max_backoff">>], 30 * Second)
      /\ p.timeout = orDefault(s[<<"entry", "timeout">>], 30 * Second)
      /\ p.maxElapsed = s[<<"retry", "max_elapsed">>]
      /\ p.flush = orDefault(s[<<"entry", "flush_interval">>], 10 * Second)
  BY DEF Build
<1>5. /\ p.token = s[<<"entry", "bearer_token_file">>]
      /\ p.user = s[User]
      /\ p.password = (IF s[User] # "" THEN s[<<"basic_auth", "password_file">>] ELSE "")
      /\ p.headers = rw.headers
  BY DEF Build, User
<1> HIDE DEF p, s
<1>6. /\ p.capacity >= 1 /\ p.maxAttempts >= 1
      /\ p.failureThreshold >= 1 /\ p.window > 0 /\ p.cooldown > 0 /\ p.timeout > 0
      /\ p.initialBackoff > 0 /\ p.maxBackoff > 0
  <2>1. /\ s[<<"circuit_breaker", "window">>] \in Int /\ s[<<"circuit_breaker", "cooldown">>] \in Int
        /\ s[<<"circuit_breaker", "failure_threshold">>] \in Int
        /\ s[<<"queue", "capacity">>] \in Int /\ s[<<"retry", "max_attempts">>] \in Int
        /\ s[<<"retry", "initial_backoff">>] \in Int /\ s[<<"retry", "max_backoff">>] \in Int
        /\ s[<<"entry", "timeout">>] \in Int
    BY <1>1 DEF NotNegative
  <2>2. p.capacity >= 1 /\ p.maxAttempts >= 1 /\ p.failureThreshold >= 1
    BY <1>4, <2>1 DEF orDefault
  <2>3. p.window > 0 /\ p.cooldown > 0 /\ p.timeout > 0
    BY <1>3, <1>4, <2>1 DEF orDefault
  <2>4. p.initialBackoff > 0 /\ p.maxBackoff > 0
    BY <1>3, <1>4, <2>1 DEF orDefault
  <2> QED
    BY <2>2, <2>3, <2>4
<1>7. p.flush >= Second /\ p.maxElapsed >= 0
  <2>1. <<"entry", "flush_interval">> \in NotNegative /\ <<"retry", "max_elapsed">> \in NotNegative
    BY DEF NotNegative
  <2>2. s[<<"entry", "flush_interval">>] > 0 => s[<<"entry", "flush_interval">>] >= Second
    BY Zenon DEF validateRemoteWrite, s
  <2>3. s[<<"entry", "flush_interval">>] \in Int
    BY <1>1, <2>1
  <2>4. p.flush >= Second
    BY <1>3, <1>4, <2>2, <2>3 DEF orDefault
  <2> QED
    BY <1>2, <1>4, <2>1, <2>4
<1>8. p.token = "" \/ (p.user = "" /\ p.password = "")
  <2>1. rw.basicAuth \/ s[User] = ""
    BY Zenon DEF EntryOK, User, s
  <2>2. ~(rw.basicAuth /\ s[<<"entry", "bearer_token_file">>] # "")
    BY Zenon DEF validateRemoteWrite, s
  <2> QED
    BY <1>5, <2>1, <2>2, Zenon
<1>9. Scheme[rw.set[<<"entry", "url">>]] = "http" => rw.set[<<"entry", "insecure_http">>]
  BY DEF validateRemoteWrite
<1>10. \A h \in DOMAIN p.headers : Canonical[h] \notin ReservedHeaders
  BY <1>5, Zenon DEF validateRemoteWrite
<1> QED
  BY <1>6, <1>7, <1>8, <1>9, <1>10, Zenon DEF BuiltAsAssumed, p

\* The two tickers of the collectors get positive intervals.
LEMMA IntervalsOK ==
  ASSUME NEW c, ConfigOK(c), validate(c)
  PROVE  c.set[<<"top", "poll_interval">>] >= Second /\ gpuInterval(c) > 0
<1>1. c.set[<<"top", "poll_interval">>] \in Int /\ c.set[<<"gpu", "poll_interval">>] \in Int
  BY TopSettings DEF ConfigOK, Typed, OfTop
<1>2. c.set[<<"top", "poll_interval">>] >= Second
  BY Zenon DEF validate
<1>3. Second \in Nat \ {0} /\ 15 * Second \in Int
  BY StartupAssumption
<1> QED
  BY <1>1, <1>2, <1>3 DEF gpuInterval, orDefault

-----------------------------------------------------------------------------

\* The invariant holds before the first line.
LEMMA IInvInit == Init => IInv
  BY NewTreeOK DEF Init, IInv

\* ScanLine: the next line of the file is a line.
LEMMA ScanKeeps ==
  ASSUME IInv, NEW l \in nextLines, ScanLine(l)
  PROVE  IInv'
<1>1. l \in Line
  <2>1. /\ Files[file].prefix \in Seq(Line) /\ Files[file].lines \subseteq Line
        /\ Files[file].more \in Nat /\ Len(doc) \in Nat
    BY StartupAssumption DEF IInv
  <2>2. CASE Len(doc) < Len(Files[file].prefix)
    <3>1. l = Files[file].prefix[Len(doc) + 1] /\ Len(doc) + 1 \in 1..Len(Files[file].prefix)
      BY <2>1, <2>2 DEF nextLines
    <3> QED
      BY <2>1, <3>1
  <2>3. CASE ~(Len(doc) < Len(Files[file].prefix))
    BY <2>1, <2>3 DEF nextLines
  <2> QED
    BY <2>2, <2>3
<1>2. doc' \in Seq(Line) /\ TreeOK(tree')
  BY <1>1, ParseLineOK DEF ScanLine, IInv
<1> QED
  BY <1>2 DEF ScanLine, IInv

\* Load: what it accepts has passed validation, environment included.
LEMMA LoadKeeps ==
  ASSUME IInv, NEW c, ConfigOK(c), LoadFrom(c)
  PROVE  IInv'
<1>1. ConfigOK(override(c, env))
  BY OverrideOK
<1> QED
  BY <1>1 DEF LoadFrom, IInv

\* BuildPusher: what is constructed is as assumed.
LEMMA BuildKeeps ==
  ASSUME IInv, BuildPusher
  PROVE  IInv'
<1>1. ConfigOK(cfg) /\ validate(cfg) /\ cfg' = cfg
  BY DEF IInv, BuildPusher
<1>2. running'.poll >= Second /\ running'.gpu > 0
  BY <1>1, IntervalsOK DEF BuildPusher
<1>3. CASE cfg.remoteWrite = <<>>
  <2>1. running'.push = <<>> /\ DOMAIN <<>> = {}
    BY <1>3 DEF BuildPusher
  <2>2. cfg'.set[<<"metrics_endpoint", "enabled">>]
    BY <1>1, <1>3 DEF validate
  <2>3. RunsAsAssumed'
    BY <1>2, <2>1, <2>2 DEF RunsAsAssumed
  <2> QED
    BY <1>1, <2>3 DEF IInv, BuildPusher
<1>4. CASE cfg.remoteWrite # <<>>
  <2> DEFINE rw == cfg.remoteWrite[1]
  <2>1. running'.push = <<Build(rw)>>
    BY <1>4 DEF BuildPusher
  <2>2. 1 \in DOMAIN cfg.remoteWrite
    <3>1. PICK m \in Nat : cfg.remoteWrite = [i \in 1..m |-> cfg.remoteWrite[i]]
      BY <1>1 DEF ConfigOK, Listed
    <3>2. m # 0
      <4>1. SUFFICES ASSUME m = 0 PROVE FALSE
        OBVIOUS
      <4>2. cfg.remoteWrite \in Seq({cfg.remoteWrite[i] : i \in 1..m}) /\ Len(cfg.remoteWrite) = 0
        BY <3>1, <4>1, ListedLen
      <4> QED
        BY <1>4, <4>2
    <3> QED
      BY <3>1, <3>2
  <2>3. EntryOK(rw) /\ validateRemoteWrite(rw)
    BY <1>1, <2>2, Zenon DEF ConfigOK, validate
  <2>4. BuiltAsAssumed(Build(rw), rw)
    BY <2>3, BuildOK
  <2>5. RunsAsAssumed'
    <3> DEFINE p == Build(rw)
    <3>1. running'.push # <<>> /\ DOMAIN running'.push = {1} /\ running'.push[1] = p
      BY <2>1
    <3> HIDE DEF p
    <3>2. BuiltAsAssumed(p, cfg'.remoteWrite[1])
      BY <1>1, <2>4 DEF p
    <3> QED
      BY <1>2, <3>1, <3>2 DEF RunsAsAssumed, BuiltAsAssumed
  <2> QED
    BY <1>1, <2>5 DEF IInv, BuildPusher
<1> QED
  BY <1>3, <1>4

\* Every step keeps the invariant.
LEMMA IInvStep == IInv /\ [Next]_vars => IInv'
<1> SUFFICES ASSUME IInv, [Next]_vars PROVE IInv'
  OBVIOUS
<1>1. ASSUME NEW l \in nextLines, ScanLine(l) PROVE IInv'
  BY <1>1, ScanKeeps
<1>2. ASSUME NEW err \in BOOLEAN PROVE ConfigOK([defaults EXCEPT !.err = err])
  <2> DEFINE d == [defaults EXCEPT !.err = err]
  <2>1. DOMAIN d = DOMAIN defaults /\ d.set = defaults.set /\ d.remoteWrite = defaults.remoteWrite
    BY DefaultsOK DEF ConfigOK
  <2> HIDE DEF d
  <2>2. ConfigOK(d)
    BY <2>1, DefaultsOK DEF ConfigOK
  <2> QED
    BY <2>2 DEF d
<1>3. CASE Load
  <2>1. NodesOK(tree.nodes)
    BY DEF IInv, TreeOK, NodesOK
  <2>2. ConfigOK(applyTree(tree.nodes))
    BY <2>1, ApplyTreeOK
  <2>3. ConfigOK([defaults EXCEPT !.err = TRUE])
    BY <1>2
  <2>4. CASE tree.err
    BY <1>3, <2>3, <2>4, LoadKeeps DEF Load
  <2>5. CASE ~tree.err
    BY <1>3, <2>2, <2>5, LoadKeeps DEF Load
  <2> QED
    BY <2>4, <2>5
<1>4. CASE LoadWithoutFile
  <2>1. PICK err \in BOOLEAN : LoadFrom([defaults EXCEPT !.err = err])
    BY <1>4 DEF LoadWithoutFile
  <2> QED
    BY <1>2, <2>1, LoadKeeps
<1>5. CASE BuildPusher
  BY <1>5, BuildKeeps
<1>6. CASE BuildFails
  BY <1>6 DEF BuildFails, IInv
<1>7. CASE Push
  BY <1>7 DEF Push, IInv, RunsAsAssumed
<1>8. CASE UNCHANGED vars
  BY <1>8 DEF vars, IInv, RunsAsAssumed
<1> QED
  BY <1>1, <1>3, <1>4, <1>5, <1>6, <1>7, <1>8 DEF Next

\* After any lines, whatever they say: the tree refers to its own nodes only, its stack
\* keeps the root, and what is loaded has every setting, the numeric ones numbers.
THEOREM StartupInvariant == Spec => []IInv
  BY IInvInit, IInvStep, PTL DEF Spec

\* Whatever lines the config file has, in whatever order and nesting, and whatever the
\* environment holds: if Load accepts it and the pusher can be built, the exporter runs
\* with a sound queue, breaker, retry policy, tickers, credentials and transport.
THEOREM StartsAsAssumed == Spec => []RunsAsAssumed
<1>1. IInv => RunsAsAssumed
  BY DEF IInv, RunsAsAssumed
<1> QED
  BY <1>1, StartupInvariant, PTL
=============================================================================
