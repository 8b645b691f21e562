--------------------------- MODULE MCQueryEngine ---------------------------
(***************************************************************************)
(* The statements and the tables QueryEngine is checked on.                *)
(***************************************************************************)
EXTENDS QueryEngine

\* Strings are 1, 2, 3; pattern 1 matches the first two
MCMatches == [p \in {1} |-> {1, 2}]
MCPrefix == <<1, 1, 3>>
MCYear == [d \in -1..40 |-> IF d < 0 THEN 1969 ELSE 1970]

-----------------------------------------------------------------------------
(* Tables *)

TSchema == <<Field("a", INT64), Field("b", INT64), Field("c", FLOAT64), Field("s", VARCHAR)>>
USchema == <<Field("k", INT64), Field("v", INT64), Field("d", DATE32)>>
XYSchema == <<Field("x", INT64), Field("y", INT64)>>

Object(dirs, schema, groups, store) ==
  [dirs |-> dirs, schema |-> schema, groups |-> groups, store |-> store]
Source(scheme, schema, parts, objects, deletes, meta) ==
  [scheme |-> scheme, schema |-> schema, parts |-> parts, objects |-> objects,
   deletes |-> deletes, meta |-> meta]

\* t: a directory of Parquet files
R(a, b, c, s) == <<a, b, IF c = NULL THEN NULL ELSE <<c, 1>>, s>>
TFile(groups) == Object(<<>>, TSchema, groups, "default")
TFile1 == TFile(<< <<R(1, 1, 2, 1), R(2, 1, NULL, 3)>>, <<R(3, 2, 4, 2)>> >>)
TFile2 == TFile(<< <<R(2, 2, 1, NULL), R(1, NULL, 3, 1)>> >>)
T(files) == Source("file", TSchema, <<>>, files, <<>>, <<>>)

\* h: partitioned by directories g=..., whose values are numbers, days or words
Number(v) == [int |-> <<v>>, date |-> <<>>, bool |-> <<>>, str |-> v]
Day(v) == [int |-> <<>>, date |-> <<v>>, bool |-> <<>>, str |-> v]
Word(v) == [int |-> <<>>, date |-> <<>>, bool |-> <<>>, str |-> v]
HFile(text, x) == Object(<<[key |-> "g", text |-> text]>>, <<Field("x", INT64)>>, << <<<<x>>, <<2>>>> >>, "default")
H(type, files) == Source("file", <<Field("x", INT64), Field("g", type)>>, <<"g">>, files, <<>>, <<>>)
HNumbers == H(INT64, <<HFile(Number(1), 1), HFile(Number(3), 3)>>)
HMixed == H(VARCHAR, <<HFile(Number(1), 1), HFile(Number(3), 3), HFile(Word(2), 1)>>)

\* u: Iceberg, partitioned by k and later by the month of d
Entry(status, content, path, count, partition) ==
  [status |-> status, content |-> content, path |-> path, format |-> "PARQUET",
   record_count |-> count, partition |-> partition]
Manifest(content, spec, entries) == [content |-> content, spec |-> spec, entries |-> entries]
Month(v) == <<[avro |-> "int", v |-> v]>>
Data(status, path, count, partition) == Entry(status, "DATA", path, count, partition)
UFiles == [i \in 1..4 |-> Object(<<>>, USchema, <<
  << <<<<1, 2, 1>>, <<2, 1, 30>>>>, <<<<2, 3, 0>>>> >>,     \* January 1970
  << <<<<1, 1, -1>>>> >>,                                   \* December 1969
  << <<<<3, NULL, 31>>, <<3, 1, NULL>>>> >>,                \* k = 3
  << <<<<1, 1, 32>>, <<2, 2, 40>>>> >> >>[i], "default")]   \* February 1970
UMeta(current, manifests) ==
  LET F(id, name, type) == [id |-> id, name |-> name, type |-> type]
  IN  [schemas |-> << [id |-> 0, fields |-> <<F(1, "k", "long")>>],
                      [id |-> 1, fields |-> <<F(1, "k", "long"), F(2, "v", "long"), F(3, "d", "date")>>] >>,
       current_schema_id |-> 1,
       specs |-> << [id |-> 0, fields |-> <<[source_id |-> 1, transform |-> "identity"]>>],
                    [id |-> 1, fields |-> <<[source_id |-> 3, transform |-> "month"]>>] >>,
       snapshots |-> <<[id |-> 1, manifests |-> <<>>], [id |-> 2, manifests |-> manifests]>>,
       current_snapshot_id |-> current]
\* the rows the position-delete files name: all of file 4, one of file 1
UDeletes == << <<[path |-> 4, pos |-> 1], [path |-> 4, pos |-> 2]>>, <<[path |-> 1, pos |-> 2]>> >>
U(current, manifests) == Source("iceberg", USchema, <<>>, UFiles, UDeletes, UMeta(current, manifests))
U1 == U(2, <<Manifest("DATA", 1, <<Data("ADDED", 1, 3, Month(0)), Data("ADDED", 2, 1, Month(-1))>>)>>)
U2 == U(2, <<Manifest("DELETES", 1, <<Entry("ADDED", "POSITION_DELETES", 1, 2, Month(1))>>),
             Manifest("DATA", 0, <<Data("ADDED", 3, 2, <<[avro |-> "long", v |-> 3]>>)>>),
             Manifest("DATA", 1, <<Data("EXISTING", 1, 3, Month(0)), Data("DELETED", 2, 1, Month(-1)),
                                   Data("ADDED", 4, 2, Month(1))>>)>>)
U3 == U(2, <<Manifest("DELETES", 1, <<Entry("ADDED", "POSITION_DELETES", 2, 1, Month(0))>>),
             Manifest("DATA", 1, <<Data("ADDED", 1, 3, Month(0)), Data("ADDED", 2, 1, Month(-1))>>)>>)
UEmpty == U(0, <<>>)

\* p: Delta, partitioned by z, the second of its columns
PSchema == XYSchema \o <<Field("z", VARCHAR)>>
PFile(z) == Object(<<>>, XYSchema, << <<<<1, z>>, <<2, 3>>>> >>, "default")
P(zs) == Source("delta", PSchema, <<"z">>, [i \in DOMAIN zs |-> PFile(zs[i])], <<>>,
  LET F(name, type) == [name |-> name, type |-> type]
  IN  [fields |-> <<F("x", "long"), F("z", "string"), F("y", "long")>>,
       partition_columns |-> <<"z">>, endpoint |-> TRUE,
       files |-> [i \in DOMAIN zs |-> [path |-> i, values |-> "z" :> Word(zs[i])]]])

\* w: through Unity Catalog, in a store that only its credentials open
Vended(src) == [src EXCEPT !.objects = [i \in DOMAIN @ |-> [@[i] EXCEPT !.store = "vended"]]]
W(format, table) ==
  Source("unitycatalog", <<>>, <<>>, <<>>, <<>>,
         [format |-> format, location |-> IF format = "ICEBERG" THEN "file" ELSE "s3",
          credentials |-> {"aws"}, endpoint |-> TRUE, table |-> table])
WDelta == W("DELTA", Vended(P(<<2, 3>>)))
WParquet == W("PARQUET", Vended(Source("file", PSchema, <<"z">>,
  <<Object(<<[key |-> "z", text |-> Word(1)]>>, XYSchema, << <<<<1, 1>>>> >>, "default")>>, <<>>, <<>>)))
WIceberg == W("ICEBERG", U2)

DB(t, u, p, h, w) == "t" :> t @@ "iceberg://u" :> u @@ "delta://p" :> p @@ "h" :> h
                     @@ "unitycatalog://w" :> w @@ "unitycatalog://v" :> WIceberg

MCCalls == LET Call(fn, arg) == [fn |-> fn, arg |-> arg]
           IN  "t" :> Call("read_parquet", "t") @@ "h" :> Call("read_parquet", "h")
               @@ "iceberg://u" :> Call("read_iceberg", "u")
               @@ "delta://p" :> Call("read_delta", "p")
               @@ "unitycatalog://w" :> Call("read_unity_catalog", "w")
               @@ "unitycatalog://v" :> Call("read_unity_catalog", "v")

MCDatabases == {DB(T(<<TFile1>>), U1, P(<<1, 2>>), HNumbers, WDelta),
                DB(T(<<TFile2, TFile1>>), U2, P(<<3>>), H(DATE32, <<HFile(Day(0), 1)>>), WParquet),
                DB(T(<<TFile2>>), UEmpty, P(<<>>), HMixed, WDelta)}

MCCommits ==
  LET C(table, before, after) == [table |-> table, before |-> before, after |-> after]
  IN  {C("t", T(<<TFile1>>), T(<<TFile1, TFile2>>)), C("h", HNumbers, HMixed),
       C("iceberg://u", U1, U2), C("iceberg://u", U1, U3), C("iceberg://u", UEmpty, U1)}

MCConfigs == {[batch_rows |-> 1, result_batch_rows |-> 2, max_distinct_keys |-> 9, parts |-> 2],
              [batch_rows |-> 9, result_batch_rows |-> 9, max_distinct_keys |-> 3, parts |-> 1]}

-----------------------------------------------------------------------------
(* Statements *)

C(n) == AstColumnRef("", n)
Q(q, n) == AstColumnRef(q, n)
I(v) == AstLiteral("Integer", v)
F(n, d) == AstLiteral("Float", <<n, d>>)
S(v) == AstLiteral("String", v)
As(e, n) == with_alias(e, n)
Op(l, op, r) == AstBinary(op, l, r)
And(l, r) == AstBinary("AND", l, r)
Or(l, r) == AstBinary("OR", l, r)
Count == AstAggregate("COUNT(*)", <<>>)
Agg(fn, e) == AstAggregate(fn, <<e>>)

From(list, path) == AstSelectStatement(list, AstParquetSource(path, ""))
FromAs(list, path, alias) == AstSelectStatement(list, AstParquetSource(path, alias))
FromSub(list, stmt) == [AstSelectStatement(list, AstParquetSource("", "")) EXCEPT !.sub = <<stmt>>]
Join(stmt, path, alias, on, jt) ==
  LET step == AstJoinStep(AstParquetSource(path, alias), on, jt, <<>>)
      join == IF stmt.join # <<>> THEN stmt.join[1] ELSE [first |-> stmt.from, steps |-> <<>>]
  IN  [stmt EXCEPT !.join = <<[join EXCEPT !.steps = Append(@, step)]>>]
Where(stmt, e) == [stmt EXCEPT !.where = <<e>>]
GroupBy(stmt, es) == [stmt EXCEPT !.group = es]
Having(stmt, e) == [stmt EXCEPT !.having = <<e>>]
OrderBy(stmt, e, asc) == [stmt EXCEPT !.order = Append(@, [e |-> e, asc |-> asc])]
Limit(stmt, n) == [stmt EXCEPT !.limit = <<n>>]

ScanQueries == {
  From(<<AstStar>>, "t"),
  Where(From(<<C("c"), C("a")>>, "t"), And(Op(C("a"), ">", I(1)), Op(C("b"), "<=", I(2)))),
  Where(From(<<C("s")>>, "t"), AstBetween(C("a"), I(2), I(3))),
  Limit(OrderBy(OrderBy(From(<<C("a"), C("s")>>, "t"), C("b"), FALSE), C("a"), TRUE), 2),
  Limit(Where(From(<<C("b")>>, "t"), Op(I(2), "<", C("a"))), 1),
  Where(From(<<As(Op(C("a"), "+", C("c")), "e"), As(Op(C("a"), "/", I(2)), "h")>>, "t"),
        Op(Op(I(1), "+", I(1)), "=", I(2))),
  Where(From(<<C("a")>>, "t"), AstUnary("NOT", Op(C("c"), ">=", F(5, 2)))),
  Where(From(<<C("a")>>, "t"), AstUnary("IS NULL", C("c"))),
  Where(From(<<C("a"), As(AstSubstring(C("s"), 1, 1), "x")>>, "t"),
        Or(AstLike(C("s"), S(1), TRUE), AstIn(C("a"), <<I(1), I(2)>>, <<>>, FALSE))),
  From(<<As(AstCase(<<Op(C("a"), ">", I(1)), C("b"), I(0)>>), "w"),
         As(AstCast(C("c"), "BIGINT", 0, 0), "i")>>, "t"),
  Where(From(<<C("x"), C("z")>>, "delta://p"), And(Op(C("z"), "=", S(2)), Op(C("y"), ">", I(2)))),
  From(<<C("z")>>, "delta://p"),
  Where(From(<<C("k")>>, "iceberg://u"), Or(AstLiteral("Boolean", FALSE), Op(C("d"), ">", AstLiteral("Date", 2)))),
  From(<<As(AstCase(<<Op(C("a"), "=", I(1)), C("b"), Op(C("a"), "=", I(2)), I(0)>>), "w")>>, "t"),
  OrderBy(From(<<C("k"), As(AstExtract("YEAR", C("d")), "y")>>, "iceberg://u"), C("v"), TRUE)}

AggregateQueries == {
  From(<<As(Count, "n")>>, "t"),
  From(<<As(Agg("SUM", C("a")), "s"), As(Agg("AVG", C("b")), "g"), As(Agg("MIN", C("c")), "m")>>, "t"),
  GroupBy(From(<<C("a"), As(Agg("SUM", C("c")), "s"), As(Agg("COUNT", C("b")), "n")>>, "t"), <<C("a")>>),
  Having(GroupBy(From(<<C("a"), As(Agg("MAX", C("b")), "m")>>, "t"), <<C("a")>>),
         Op(Count, ">", I(1))),
  OrderBy(GroupBy(Where(From(<<As(Op(Agg("SUM", C("c")), "/", Agg("COUNT", C("c"))), "q"), C("a")>>, "t"),
                        Op(C("a"), "<", I(3))), <<C("a")>>), C("q"), FALSE),
  GroupBy(From(<<As(AstExtract("YEAR", C("d")), "y"), As(Count, "n")>>, "iceberg://u"), <<C("y")>>),
  GroupBy(From(<<C("k"), As(Agg("COUNT DISTINCT", C("v")), "n")>>, "iceberg://u"), <<C("k")>>)}

xy == Join(FromAs(<<Q("x", "c"), Q("y", "v")>>, "t", "x"), "iceberg://u", "y", Op(Q("x", "a"), "=", Q("y", "k")), "Inner")
xly == Join(FromAs(<<Q("x", "a"), Q("y", "v")>>, "t", "x"), "iceberg://u", "y",
            And(Op(Q("x", "a"), "=", Q("y", "k")), Op(Q("y", "v"), ">", I(1))), "LeftOuter")

JoinQueries == {
  xy,
  Where(xy, And(Op(C("v"), "<", I(3)), Op(Q("x", "b"), "=", I(1)))),
  Where(xy, Op(Q("x", "b"), "<>", Q("y", "v"))),
  xly,
  Where(xly, AstUnary("IS NULL", Q("y", "v"))),
  GroupBy([xy EXCEPT !.select = <<C("b"), As(Agg("SUM", C("v")), "s")>>], <<C("b")>>),
  GroupBy(Join(FromAs(<<Q("x", "y"), As(Agg("SUM", Q("y", "y")), "s")>>, "delta://p", "x"),
               "unitycatalog://w", "y", Op(Q("x", "x"), "=", Q("y", "x")), "Inner"), <<Q("x", "y")>>),
  Join(xy, "delta://p", "z", Op(Q("z", "y"), "=", Q("y", "v")), "Inner"),
  Limit(OrderBy(Where(xy, Op(C("v"), ">=", I(1))), Q("y", "v"), TRUE), 2)}

ux == FromAs(<<AstStar>>, "iceberg://u", "y")
FromX == FromAs(<<Q("x", "a"), Q("x", "s")>>, "t", "x")

SubqueryQueries == {
  Where(FromX, AstExists(Where(ux, Op(Q("y", "k"), "=", Q("x", "a"))), FALSE)),
  Where(FromX, And(Op(Q("x", "a"), "<", I(3)),
        AstExists(Where(ux, And(Op(Q("y", "k"), "=", Q("x", "a")), Op(Q("y", "v"), ">", Q("x", "b")))), TRUE))),
  Where(FromX, Op(Q("x", "b"), "<", AstSubquery(Where(FromAs(<<Agg("MAX", Q("y", "v"))>>, "iceberg://u", "y"),
                                               Op(Q("y", "k"), "=", Q("x", "a")))))),
  Where(From(<<C("a"), C("b")>>, "t"), Op(C("b"), "<", AstSubquery(From(<<Agg("AVG", C("k"))>>, "iceberg://u")))),
  Where(From(<<C("b")>>, "t"), AstIn(C("b"), <<>>, <<From(<<C("v")>>, "iceberg://u")>>, FALSE)),
  Where(From(<<C("b")>>, "t"), AstIn(C("b"), <<>>, <<From(<<C("v")>>, "iceberg://u")>>, TRUE)),
  Having(GroupBy(From(<<C("a"), As(Agg("SUM", C("b")), "s")>>, "t"), <<C("a")>>),
         Op(Agg("SUM", C("b")), ">", AstSubquery(From(<<Agg("MIN", C("k"))>>, "iceberg://u")))),
  GroupBy(FromSub(<<C("n"), As(Count, "m")>>,
                  GroupBy(From(<<C("b"), As(Count, "n")>>, "t"), <<C("b")>>)), <<C("n")>>)}

\* Families: every comparison of a column with a literal, on either side; every
\* aggregate with and without a key; every join type with filters on each side
Comparisons == {Op(C(x), op, I(v)) : x \in {"a", "b"}, op \in {"=", "<>", "<", "<=", ">", ">="}, v \in {1, 2}}
Mirrored == {Op(I(2), op, C("a")) : op \in {"=", "<", ">="}}
Simple == {Op(C("a"), ">", I(1)), Op(C("b"), "=", I(2)), AstUnary("IS NULL", C("c")), Op(C("c"), "<", F(5, 2))}

Predicates == Comparisons \union Mirrored \union {AstUnary("NOT", p) : p \in Simple}
              \union {And(p, q) : p, q \in Simple} \union {Or(p, q) : p, q \in Simple}

FilterFamily == {Where(From(l, "t"), p) : l \in {<<C("c"), C("b")>>, <<AstStar>>}, p \in Predicates}

OrderFamily == {Limit(OrderBy(Where(From(<<C("b"), C("c")>>, "t"), p), C(x), asc), n) :
                  p \in Simple, x \in {"b", "c"}, asc \in BOOLEAN, n \in {1, 3}}

AggregateFamily ==
  LET fns == {"SUM", "MIN", "MAX", "COUNT", "AVG", "COUNT DISTINCT"}
  IN  {From(<<As(Agg(fn, C(x)), "g")>>, "t") : fn \in fns \ {"COUNT DISTINCT"}, x \in {"b", "c"}}
      \union {GroupBy(From(<<C("a"), As(Agg(fn, C(x)), "g")>>, "t"), <<C("a")>>) : fn \in fns, x \in {"b", "c"}}
      \union {Where(GroupBy(From(<<C("a"), As(Agg(fn, C("b")), "g"), As(Count, "n")>>, "t"), <<C("a")>>), p) :
                 fn \in fns \ {"COUNT DISTINCT"}, p \in Simple}

JoinFamily ==
  LET on == Op(Q("x", "a"), "=", Q("y", "k"))
      filters == {Op(Q("x", "b"), "=", I(1)), Op(Q("y", "v"), "<", I(3)), AstUnary("IS NULL", Q("y", "v")),
                  Op(Q("x", "b"), "<", Q("y", "v")), Or(Op(Q("x", "b"), "=", I(1)), Op(Q("y", "v"), "=", I(1)))}
  IN  {Where(Join(FromAs(l, "t", "x"), "iceberg://u", "y", c, jt), p) :
         l \in {<<Q("x", "c"), Q("y", "v")>>, <<Q("y", "d"), Q("x", "s")>>},
         c \in {on, And(on, Op(Q("y", "v"), ">", I(1)))},
         jt \in {"Inner", "LeftOuter"}, p \in filters}

ExistsFamily ==
  LET on == Op(Q("y", "k"), "=", Q("x", "a"))
  IN  {Where(FromAs(l, "t", "x"), And(p, AstExists(Where(FromAs(<<AstStar>>, "iceberg://u", "y"), c), neg))) :
         l \in {<<Q("x", "c"), Q("x", "b")>>, <<Q("x", "s")>>},
         p \in {Op(Q("x", "a"), "<", I(3)), AstUnary("IS NULL", Q("x", "c"))},
         c \in {on, And(on, Op(Q("y", "v"), ">", I(1))), And(on, Op(Q("y", "v"), "<>", Q("x", "b")))},
         neg \in BOOLEAN}

\* Where the documentation and the code differ
MCDerived == {
  Where(FromSub(<<C("d")>>, From(<<C("v"), C("d")>>, "iceberg://u")),
        Op(C("d"), ">", AstLiteral("Date", 0)))}
MCBackend == {From(<<C("g")>>, "h")}

\* Every comparison with a partition's bounds, every column kind of a partition
Dates == {AstLiteral("Date", d) : d \in {-1, 0, 30, 31}}
ResolutionFamily ==
  LET ops == {"=", "<>", "<", "<=", ">", ">="}
      w == "unitycatalog://w"
  IN  {Where(From(<<C("k"), C("v")>>, "iceberg://u"), Op(C("d"), op, d)) : op \in ops, d \in Dates}
      \union {Where(From(<<C("d")>>, "iceberg://u"), Op(C("k"), op, I(v))) : op \in ops, v \in {2, 3}}
      \union {From(<<C("x"), C("g")>>, "h"), From(<<C("g")>>, "h"),
              OrderBy(From(<<C("g"), C("x")>>, "h"), C("g"), FALSE),
              GroupBy(From(<<C("g"), As(Agg("SUM", C("x")), "n")>>, "h"), <<C("g")>>),
              From(<<AstStar>>, w), Where(From(<<C("v")>>, "unitycatalog://v"), Op(C("k"), "=", I(3))),
              Where(From(<<C("y"), C("z")>>, w), Op(C("x"), "<=", I(1))),
              Join(FromAs(<<Q("x", "z"), Q("y", "x")>>, "delta://p", "x"), w, "y",
                   Op(Q("x", "y"), "=", Q("y", "y")), "Inner")}

MCQueries == ScanQueries \union AggregateQueries \union JoinQueries \union SubqueryQueries
             \union FilterFamily \union OrderFamily \union AggregateFamily \union JoinFamily
             \union ExistsFamily \union ResolutionFamily
=============================================================================
