---------------------------- MODULE SqlSemantics ----------------------------
(***************************************************************************)
(* What a SELECT statement means, said without a binder, plans or          *)
(* operators: the reference the engine is checked against.  A statement    *)
(* is evaluated row by row from its syntax tree: joins are nested loops    *)
(* over the whole tables, a correlated subquery is evaluated anew for      *)
(* every outer row, and a value carries its own kind.                      *)
(*                                                                         *)
(* An environment is a sequence of frames [alias, names, row], those of    *)
(* the innermost query first.                                              *)
(***************************************************************************)
EXTENDS Expressions, Ast, SqlValues

\* SUM, MIN, ... of values that are all of one kind, or NULL
TypedAggregate(fn, t, vs, n) ==
  OfKind(CASE fn \in {"COUNT(*)", "COUNT", "COUNT DISTINCT"} -> "i"
           [] fn = "AVG" -> "q"
           [] OTHER      -> KindOf(t),
         AggregateValue(fn, t, [i \in DOMAIN vs |-> vs[i][2]], n))

TypeOfValues(vs) ==
  IF vs = <<>> THEN INT64
  ELSE IF vs[1][1] = "q" THEN FLOAT64 ELSE IF vs[1][1] = "b" THEN BOOL ELSE INT64

AggregateMeaning(fn, values, n) ==
  LET vs == SelectSeq(values, LAMBDA v : v # Null)
  IN  TypedAggregate(fn, TypeOfValues(vs), vs, n)

-----------------------------------------------------------------------------

\* The frame a column reference is to: the first that has the name
FrameOf(env, ref) ==
  SelectInSeq(env, LAMBDA f : (ref.q = "" \/ f.alias = ref.q) /\ Contains(f.names, ref.n))

Lookup(env, ref) ==
  LET f == env[FrameOf(env, ref)]
  IN  f.row[SelectInSeq(f.names, LAMBDA n : n = ref.n)]

\* The table behind a Unity Catalog name
Table(src) == IF src.scheme = "unitycatalog" THEN src.meta.table ELSE src

\* The entries of a kind in the manifests of an Iceberg table's current snapshot
Entries(meta, kind) ==
  LET now == {s \in ToSet(meta.snapshots) : s.id = meta.current_snapshot_id}
      manifests == UNION {ToSet(s.manifests) : s \in now}
  IN  UNION {{e \in ToSet(m.entries) : m.content = kind /\ e.status # "DELETED"} : m \in manifests}

\* The positions deleted from a data file
Gone(src, path) ==
  {r.pos : r \in {x \in UNION {ToSet(src.deletes[e.path]) : e \in Entries(src.meta, "DELETES")} :
                   x.path = path}}

\* The files of a table: [path, texts, gone], texts the partition values
Contents(src) ==
  LET File(path, texts, gone) == [path |-> path, texts |-> texts, gone |-> gone]
      paths == [i \in DOMAIN src.objects |-> i]
      live == {e.path : e \in Entries(src.meta, "DATA")}
  IN  CASE src.scheme = "iceberg" ->
             LET kept == SelectSeq(paths, LAMBDA p : p \in live)
             IN  [i \in DOMAIN kept |-> File(kept[i], <<>>, Gone(src, kept[i]))]
        [] src.scheme = "delta" ->
             [i \in DOMAIN src.meta.files |->
                LET f == src.meta.files[i]
                IN  File(f.path, [k \in DOMAIN src.parts |-> f.values[src.parts[k]]], {})]
        [] OTHER ->
             [i \in DOMAIN paths |->
                File(i, [k \in DOMAIN src.parts |-> src.objects[i].dirs[k].text], {})]

\* All rows of a table, with the partition values of their files
TableRows(source) ==
  LET src == Table(source)
      n == Len(src.schema) - Len(src.parts)
      TextValue(t, text) == CASE t = VARCHAR -> text.str [] t = DATE32 -> text.date[1]
                              [] OTHER -> text.int[1]
      Row(row, texts) ==
        LET raw == row \o [k \in DOMAIN texts |-> TextValue(src.schema[n + k].type, texts[k])]
        IN  [i \in DOMAIN raw |-> OfKind(KindOf(src.schema[i].type), raw[i])]
      Rows(f) == LET all == FlattenSeq(src.objects[f.path].groups)
                     kept == SelectSeq([r \in DOMAIN all |-> r], LAMBDA r : r \notin f.gone)
                 IN  [r \in DOMAIN kept |-> Row(all[kept[r]], f.texts)]
      files == Contents(src)
  IN  FlattenSeq([f \in DOMAIN files |-> Rows(files[f])])

\* The table is of a kind the documentation says can be read: of an Iceberg
\* file all rows are deleted or none is
Readable(source) ==
  LET src == Table(source)
  IN  src.scheme = "iceberg" =>
        \A f \in ToSet(Contents(src)) :
          f.gone = {} \/ f.gone = DOMAIN FlattenSeq(src.objects[f.path].groups)

FieldNames(schema) == [i \in DOMAIN schema |-> schema[i].name]

RECURSIVE OutputNames(_, _)
OutputNames(stmt, db) ==
  LET Source(path) == FieldNames(Table(db[path]).schema)
      all == IF stmt.sub # <<>> THEN OutputNames(stmt.sub[1], db)
             ELSE IF stmt.join = <<>> THEN Source(stmt.from.path)
             ELSE Source(stmt.join[1].first.path)
                  \o FlattenSeq([i \in DOMAIN stmt.join[1].steps |->
                                   Source(stmt.join[1].steps[i].source.path)])
      Name(e) == IF e.as # "" THEN e.as ELSE IF e.k = "col" THEN e.x.n ELSE ""
  IN  IF stmt.select[1].k = "star" THEN all
      ELSE [i \in DOMAIN stmt.select |-> Name(stmt.select[i])]

\* An expression in an environment; rows are the environments of the group's
\* rows, which its aggregates range over
RECURSIVE Meaning(_, _, _, _)

\* The result of a statement in the environment of the query around it: a
\* sequence of [out, keys], its rows with the values they are ordered by
RECURSIVE QueryMeaning(_, _, _)

\* IN, of a value and those of the list
InMeaning(a, list) ==
  FoldLeft(LAMBDA acc, b : BinaryMeaning("OR", acc, BinaryMeaning("=", a, b)), <<"b", FALSE>>, list)

FirstColumn(result) == [i \in DOMAIN result |-> result[i].out[1]]

Meaning(e, env, rows, db) ==
  LET V(i) == Meaning(e.c[i], env, rows, db)
      n == Len(e.c)
      Not(neg, a) == IF neg THEN UnaryMeaning("NOT", a) ELSE a
      taken == {i \in 1..(n - 1) : i % 2 = 1 /\ V(i)[2] = TRUE}
      \* the rows of the subquery
      sub == QueryMeaning(CASE e.k = "subquery" -> e.x [] e.k = "in" -> e.x.sub[1]
                            [] OTHER -> e.x.sub, env, db)
      One(values) == IF values = <<>> THEN Null ELSE values[1]
  IN  CASE e.k = "col"     -> Lookup(env, e.x)
        [] e.k = "lit"     -> OfKind(CASE e.x.kind = "Float"   -> "q"
                                       [] e.x.kind = "Boolean" -> "b"
                                       [] OTHER                -> "i", e.x.v)
        [] e.k = "bin"     -> BinaryMeaning(e.x, V(1), V(2))
        [] e.k = "un"      -> UnaryMeaning(e.x, V(1))
        [] e.k = "between" -> BinaryMeaning("AND", BinaryMeaning(">=", V(1), V(2)),
                                            BinaryMeaning("<=", V(1), V(3)))
        [] e.k = "agg"     -> AggregateMeaning(e.x, IF n = 0 THEN <<>> ELSE
                                [r \in DOMAIN rows |-> Meaning(e.c[1], rows[r], <<>>, db)],
                                Len(rows))
        [] e.k = "like"    -> IF V(1) = Null THEN Null
                              ELSE <<"b", (V(1)[2] \in Matches[V(2)[2]]) # e.x>>
        [] e.k = "in"      -> Not(e.x.neg, InMeaning(V(1),
                                IF e.x.sub = <<>> THEN [i \in 1..(n - 1) |-> V(i + 1)]
                                ELSE FirstColumn(sub)))
        [] e.k = "case"    -> IF taken # {} THEN V(Min(taken) + 1)
                              ELSE IF n % 2 = 1 THEN V(n) ELSE Null
        [] e.k = "cast"    -> CastMeaning(e.x.ty, V(1))
        [] e.k = "extract" -> IF V(1) = Null THEN Null ELSE <<"i", Year[V(1)[2]]>>
        [] e.k = "substr"  -> IF V(1) = Null THEN Null ELSE <<"i", Prefix[V(1)[2]]>>
        [] e.k = "subquery" -> One(FirstColumn(sub))
        [] OTHER           -> <<"b", (sub # <<>>) # e.x.neg>>

IsTrue(e, env, db) == Meaning(e, env, <<>>, db)[2] = TRUE

\* A frame for every row
Frames(alias, names, rows) ==
  [r \in DOMAIN rows |-> <<[alias |-> alias, names |-> names, row |-> rows[r]]>>]

SourceFrames(src, db) ==
  Frames(src.alias, FieldNames(Table(db[src.path]).schema), TableRows(db[src.path]))

\* A left row with its partners, or with NULLs
OrPadded(l, partners, step, names) ==
  IF step.jt = "LeftOuter" /\ partners = <<>>
    THEN <<l \o Frames(step.source.alias, names, <<[i \in DOMAIN names |-> Null]>>)[1]>>
    ELSE partners

JoinMeaning(left, right, step, outer, db) ==
  FlattenSeq([i \in DOMAIN left |->
    OrPadded(left[i], SelectSeq([j \in DOMAIN right |-> left[i] \o right[j]],
                                LAMBDA env : IsTrue(step.on, env \o outer, db)),
             step, FieldNames(Table(db[step.source.path]).schema))])

FromMeaning(stmt, outer, db) ==
  IF stmt.sub # <<>>
    THEN LET Outs(result) == [r \in DOMAIN result |-> result[r].out]
         IN  Frames("", OutputNames(stmt.sub[1], db), Outs(QueryMeaning(stmt.sub[1], <<>>, db)))
  ELSE IF stmt.join = <<>> THEN SourceFrames(stmt.from, db)
  ELSE FoldLeft(LAMBDA left, step : JoinMeaning(left, SourceFrames(step.source, db), step, outer, db),
                SourceFrames(stmt.join[1].first, db), stmt.join[1].steps)

WhereMeaning(stmt, rows, outer, db) ==
  SelectSeq(rows, LAMBDA env : stmt.where = <<>> \/ IsTrue(stmt.where[1], env \o outer, db))

\* A group for the first row of every key
GroupsOf(rows, keys) ==
  LET all == [r \in DOMAIN rows |-> r]
      firsts == SelectSeq(all, LAMBDA r : \A p \in 1..(r - 1) : keys[p] # keys[r])
      Rows(members) == [m \in DOMAIN members |-> rows[members[m]]]
  IN  [i \in DOMAIN firsts |-> Rows(SelectSeq(all, LAMBDA r : keys[r] = keys[firsts[i]]))]

\* A GROUP BY name that is no column is the SELECT item of that alias
GroupKey(stmt, g, env) ==
  IF FrameOf(env, g.x) # 0 THEN g
  ELSE stmt.select[SelectInSeq(stmt.select, LAMBDA e : e.as = g.x.n)]

GroupsMeaning(stmt, rows, outer, db) ==
  IF stmt.group = <<>> THEN <<rows>>
  ELSE GroupsOf(rows, [r \in DOMAIN rows |-> [i \in DOMAIN stmt.group |->
                 Meaning(GroupKey(stmt, stmt.group[i], rows[r]), rows[r] \o outer, <<>>, db)]])

RECURSIVE HasAgg(_)
HasAgg(e) == e.k = "agg" \/ \E i \in DOMAIN e.c : HasAgg(e.c[i])

Aggregates(stmt) == stmt.group # <<>> \/ \E i \in DOMAIN stmt.select : HasAgg(stmt.select[i])

\* An expression over a group, whose first row gives it its columns
OverGroup(e, g, outer, db) ==
  Meaning(e, IF g = <<>> THEN outer ELSE g[1] \o outer, [i \in DOMAIN g |-> g[i] \o outer], db)

HavingMeaning(stmt, groups, outer, db) ==
  SelectSeq(groups, LAMBDA g : stmt.having = <<>> \/ OverGroup(stmt.having[1], g, outer, db)[2] = TRUE)

\* An aggregate query is ordered by the columns of its result
OrderedByName(stmt, out, names) ==
  [out |-> out,
   keys |-> [i \in DOMAIN stmt.order |-> out[SelectInSeq(names, LAMBDA n : n = stmt.order[i].e.x.n)]]]

GroupedResult(stmt, groups, outer, db) ==
  [k \in DOMAIN groups |->
     OrderedByName(stmt, [i \in DOMAIN stmt.select |-> OverGroup(stmt.select[i], groups[k], outer, db)],
                   OutputNames(stmt, db))]

PlainResult(stmt, rows, outer, db) ==
  LET All(es, env) == [i \in DOMAIN es |-> Meaning(es[i], env \o outer, <<>>, db)]
      order == [i \in DOMAIN stmt.order |-> stmt.order[i].e]
  IN  [r \in DOMAIN rows |->
         [out |-> IF stmt.select[1].k = "star"
                    THEN FlattenSeq([f \in DOMAIN rows[r] |-> rows[r][f].row])
                    ELSE All(stmt.select, rows[r]),
          keys |-> All(order, rows[r])]]

ResultOf(stmt, rows, outer, db) ==
  IF Aggregates(stmt)
    THEN GroupedResult(stmt, HavingMeaning(stmt, GroupsMeaning(stmt, rows, outer, db), outer, db),
                       outer, db)
    ELSE PlainResult(stmt, rows, outer, db)

QueryMeaning(stmt, outer, db) ==
  ResultOf(stmt, WhereMeaning(stmt, FromMeaning(stmt, outer, db), outer, db), outer, db)

-----------------------------------------------------------------------------

\* Whether ORDER BY puts the row a before b
OrderedBefore(order, a, b) ==
  LET ds == {i \in DOMAIN order : CompareValues(a.keys[i], b.keys[i]) # 0}
      d == Min(ds)
  IN  ds # {} /\ (CompareValues(a.keys[d], b.keys[d]) < 0) = order[d].asc

\* got is a prefix, as long as LIMIT allows, of the rows in some order that
\* ORDER BY allows
AllowedResult(stmt, sorted, got) ==
  LET n == IF stmt.limit = <<>> THEN Len(sorted) ELSE Min({stmt.limit[1], Len(sorted)})
      Wanted(out) == [i \in DOMAIN out |-> Canonical(out[i])]
      \* no more of the rows that tie with the i-th than there are
      NotTooMany(i, ties) == Cardinality({j \in ties : j <= n /\ got[j] = got[i]})
                             <= Cardinality({j \in ties : Wanted(sorted[j].out) = got[i]})
  IN  /\ Len(got) = n
      /\ \A i \in 1..n :
           /\ Len(got[i]) = Len(sorted[i].out)
           /\ NotTooMany(i, {j \in DOMAIN sorted :
                               /\ ~OrderedBefore(stmt.order, sorted[i], sorted[j])
                               /\ ~OrderedBefore(stmt.order, sorted[j], sorted[i])})

\* Whether the rows (of a schema) are a result the statement may have
Acceptable(stmt, db, schema, rows) ==
  LET Raw(row) == [i \in DOMAIN row |-> IF row[i] = NULL THEN NULL
                     ELSE Canonical(OfKind(KindOf(schema[i].type), row[i]))]
  IN  AllowedResult(stmt, SortSeq(QueryMeaning(stmt, <<>>, db),
                                  LAMBDA a, b : OrderedBefore(stmt.order, a, b)),
                    [r \in DOMAIN rows |-> Raw(rows[r])])
=============================================================================
