------------------------------ MODULE Convert ------------------------------
(***************************************************************************)
(* internal/remotewrite/convert.go: metric families to labelled series.    *)
(*                                                                         *)
(* A label is <<name, value>>; names are ordered by their position in      *)
(* LabelNames.  A family is [name, type, metrics]; a metric has labels and *)
(* a value (counter, gauge, untyped), or a count, a sum and buckets        *)
(* [le, count] (histogram), or a count, a sum and quantiles [q, value]     *)
(* (summary).  A series name is <<family name, suffix>>.                   *)
(***************************************************************************)
EXTENDS Integers, Sequences, SequencesExt, TLC

CONSTANTS
    LabelNames,  \* label names in byte order, "__name__" among them
    NaN, Inf     \* the two special floats the code asks about

rank(name) == CHOOSE i \in DOMAIN LabelNames : LabelNames[i] = name

sorted(labels) == SortSeq(labels, LAMBDA a, b : rank(a[1]) < rank(b[1]))

names(labels) == {labels[i][1] : i \in DOMAIN labels}

\* external_labels, a map, as a sorted list.
NewLabels(m) == sorted(SetToSeq({<<n, m[n]>> : n \in DOMAIN m}))

\* A label whose name is taken is left out.
with(labels, l) == IF l[1] \in names(labels) THEN labels ELSE Append(labels, l)

\* Mutant of mergeLabels: the label of a bucket or a quantile comes last.
mergeExtraLast(name, labels, ext, extra) ==
    sorted(FoldLeft(with, <<<<"__name__", name>>>>, labels \o ext \o extra))

\* extra is <<>>, or the one label of a bucket or a quantile.
mergeLabels(name, labels, ext, extra) ==
    sorted(FoldLeft(with, <<<<"__name__", name>>>>,
                    SelectSeq(labels, LAMBDA l : l[1] # "") \o extra \o ext))

\* strconv.FormatFloat, "+Inf" for infinity.
formatFloat(x) == IF x = Inf THEN "+Inf" ELSE ToString(x)

series(name, m, ext, extra, value) ==
    [labels |-> mergeLabels(name, m.labels, ext, extra), value |-> value]

unlessNaN(value, s) == IF value = NaN THEN <<>> ELSE <<s>>

countAndSum(f, m, ext) ==
    <<series(<<f.name, "_count">>, m, ext, <<>>, m.count)>>
        \o unlessNaN(m.sum, series(<<f.name, "_sum">>, m, ext, <<>>, m.sum))

histogramSeries(f, m, ext) ==
    LET bucket(b) == series(<<f.name, "_bucket">>, m, ext, <<<<"le", formatFloat(b.le)>>>>, b.count)
        sawInf == \E i \in DOMAIN m.buckets : m.buckets[i].le = Inf
    IN  countAndSum(f, m, ext)
            \o [i \in DOMAIN m.buckets |-> bucket(m.buckets[i])]
            \o (IF sawInf THEN <<>> ELSE <<bucket([le |-> Inf, count |-> m.count])>>)

summarySeries(f, m, ext) ==
    countAndSum(f, m, ext)
        \o FlattenSeq([i \in DOMAIN m.quantiles |->
               LET q == m.quantiles[i]
               IN  unlessNaN(q.value, series(<<f.name, "">>, m, ext,
                                 <<<<"quantile", formatFloat(q.q)>>>>, q.value))])

metricSeries(f, m, ext) ==
    CASE f.type = "histogram" -> histogramSeries(f, m, ext)
      [] f.type = "summary" -> summarySeries(f, m, ext)
      [] OTHER -> unlessNaN(m.value, series(<<f.name, "">>, m, ext, <<>>, m.value))

Gather(families, ext) ==
    LET named == SelectSeq(families, LAMBDA f : f.name # "")
    IN  FlattenSeq([i \in DOMAIN named |->
            FlattenSeq([k \in DOMAIN named[i].metrics |->
                metricSeries(named[i], named[i].metrics[k], ext)])])
=============================================================================
