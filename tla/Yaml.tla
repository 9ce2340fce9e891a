-------------------------------- MODULE Yaml --------------------------------
(***************************************************************************)
(* internal/config/yaml.go: the indentation-driven parser of the config    *)
(* file, one line at a time.  A line is what is left after comments and    *)
(* blank lines are taken off:                                              *)
(*   [indent, item, key, val]   "- " or not, text before and after the     *)
(*                              first colon; key NoKey without a colon.    *)
(* Quotes matter only around nothing: a val of EmptyQuotes is a scalar     *)
(* whose text is empty, where no val at all opens a block.                 *)
(* The tree is a sequence of nodes, the first one the root; a node refers  *)
(* to its children by position, so that a frame of the stack can go on     *)
(* adding to its node as a pointer does.                                   *)
(***************************************************************************)
EXTENDS Integers, Sequences, SequencesExt

Line == [indent : Nat, item : BOOLEAN, key : STRING, val : STRING]

NoKey == "no colon"
EmptyQuotes == "''"

unquoteYAML(s) == IF s = EmptyQuotes THEN "" ELSE s

\* kind "open" is a node whose type the next line decides (neither map nor list).
node(kind, text) == [kind |-> kind, text |-> text, children |-> <<>>]

asString(n) == IF n.kind = "scalar" THEN n.text ELSE ""

NewTree ==
    [nodes |-> <<node("map", "")>>, stack |-> <<[indent |-> -2, n |-> 1]>>, err |-> FALSE]

failed(p) == [p EXCEPT !.err = TRUE]

\* Appends a node and makes it a child of `parent`, which becomes a `kind`.
addChild(p, parent, kind, key, new) ==
    LET child == [key |-> key, n |-> Len(p.nodes) + 1]
        grown == [p.nodes[parent] EXCEPT !.kind = kind, !.children = Append(@, child)]
    IN  [p EXCEPT !.nodes = Append([@ EXCEPT ![parent] = grown], new)]

\* A frame for the node added last.
push(p, indent) == [p EXCEPT !.stack = Append(@, [indent |-> indent, n |-> Len(p.nodes)])]

\* Mutant of popTo: a frame of the line's own indentation is kept.
popToSame(p, indent) ==
    LET kept == {1} \cup {i \in DOMAIN p.stack : p.stack[i].indent <= indent}
    IN  [p EXCEPT !.stack = SubSeq(@, 1, Max(kept))]

\* Frames are popped down to the root's or to one of less indentation.
popTo(p, indent) ==
    LET kept == {1} \cup {i \in DOMAIN p.stack : p.stack[i].indent < indent}
    IN  [p EXCEPT !.stack = SubSeq(@, 1, Max(kept))]

listItem(p, parent, l) ==
    CASE p.nodes[parent].kind = "map" -> failed(p)
      [] p.nodes[parent].kind # "map" /\ l.key = NoKey /\ l.val = "" ->
             addChild(p, parent, "list", NoKey, node("map", ""))
      [] p.nodes[parent].kind # "map" /\ l.key = NoKey /\ l.val # "" ->
             addChild(p, parent, "list", NoKey, node("scalar", unquoteYAML(l.val)))
      [] OTHER ->
             \* The first key of the object is a scalar, even with nothing after its colon.
             LET q == push(addChild(p, parent, "list", NoKey, node("map", "")), l.indent)
             IN  addChild(q, Last(q.stack).n, "map", l.key, node("scalar", unquoteYAML(l.val)))

mapEntry(p, parent, l) ==
    IF l.key = NoKey \/ p.nodes[parent].kind = "list" THEN failed(p)
    ELSE IF l.val # ""
    THEN addChild(p, parent, "map", l.key, node("scalar", unquoteYAML(l.val)))
    ELSE push(addChild(p, parent, "map", l.key, node("open", "")), l.indent)

\* The body of parseYAMLTree's loop.
parseLine(p, l) ==
    IF p.err THEN p
    ELSE IF l.indent % 2 # 0 THEN failed(p)
    ELSE LET q == popTo(p, l.indent)
             parent == Last(q.stack).n
         IN  IF l.item THEN listItem(q, parent, l) ELSE mapEntry(q, parent, l)
=============================================================================
