------------------------------- MODULE Binder -------------------------------
(***************************************************************************)
(* The binder (src/planner/binder.cpp): it resolves the names of a         *)
(* statement against the schemas of its FROM clause, types every           *)
(* expression, inserts the casts that make operand types agree and         *)
(* enforces the rules of aggregation.                                      *)
(*                                                                         *)
(* A scope is the Binder object: single is true for a query of one source  *)
(* and sources is the sequence of the sources, each [alias, schema, jt].   *)
(* A BindingError is the expression Err(_); bind returns the first one.    *)
(***************************************************************************)
EXTENDS Expressions, Ast

\* The exceptions among a sequence of bound expressions, first one first
Errors(es) == SelectSeq(es, IsErr)

-----------------------------------------------------------------------------
(* Types *)

\* The type two numeric operands are brought to, <<>> when there is none.
promote_numeric(a, b) ==
  LET ids == {a[1], b[1]}
  IN  IF ids = {"DECIMAL"} THEN (IF a = b THEN a ELSE <<>>)
      ELSE IF a[1] = "DECIMAL" THEN a
      ELSE IF b[1] = "DECIMAL" THEN b
      ELSE IF "FLOAT64" \in ids THEN FLOAT64
      ELSE IF "UINT64" \in ids /\ ids # {"UINT64"} THEN <<>>
      ELSE IF "UINT64" \in ids THEN UINT64
      ELSE IF "INT64" \in ids THEN INT64
      ELSE INT32

\* CAST's type names; <<>> is a BindingError
resolve_cast_type_name(x) ==
  CASE x.ty = "BIGINT"  -> INT64
    [] x.ty = "INT"     -> INT32
    [] x.ty = "BOOLEAN" -> BOOL
    [] x.ty = "DOUBLE"  -> FLOAT64
    [] x.ty = "DATE"    -> DATE32
    [] x.ty = "VARCHAR" -> VARCHAR
    [] x.ty = "DECIMAL" -> IF x.p \in 1..38 /\ x.s \in 0..x.p
                             THEN DECIMAL(x.p, x.s) ELSE <<>>
    [] OTHER -> <<>>

\* An operand brought to a type.  Only a literal can become a DECIMAL: it is
\* retyped in place if its digits fit, since nothing downstream casts to one.
cast_if_needed(e, type) ==
  IF type = <<>> THEN Err("no common type")
  ELSE IF e.t = type THEN e
  ELSE IF type[1] # "DECIMAL" THEN Cast(e, type)
  ELSE IF e.k # "lit" THEN Err("only a literal casts to DECIMAL")
  ELSE IF e.x = NULL THEN Literal(NULL, type)
  ELSE LET q == IF IsQuotient(e.t) THEN e.x ELSE ToDouble(e.x)
       IN  IF Abs(q[1]) * 10^type[3] <= (10^type[2] - 1) * q[2]
             THEN Literal(q, type) ELSE Err("literal out of range")

-----------------------------------------------------------------------------
(* Names *)

Width(source) == Len(source.schema)

\* Where the columns of source i start in the joined row: a semi or an anti
\* join contributes none, so the source after it starts at the same place
Offset(scope, i) ==
  FoldSet(LAMBDA j, acc : acc + Width(scope.sources[j]), 0,
          {j \in 1..(i - 1) : ~IsSemi(scope.sources[j].jt)})

all_fields_with_index(scope) ==
  FlattenSeq([i \in DOMAIN scope.sources |->
    LET schema == scope.sources[i].schema
    IN  [f \in DOMAIN schema |->
           Column(schema[f].name, Offset(scope, i) + f - 1, schema[f].type)]])

SourcesWith(scope, name) ==
  {i \in DOMAIN scope.sources : find_field(scope.sources[i].schema, name) >= 0}

\* The combined index of a plain name: <<>> if no source has it, <<-1>> (an
\* exception) if more than one does
find_field_by_plain_name(scope, name) ==
  LET hits == SourcesWith(scope, name)
  IN  IF hits = {} THEN <<>>
      ELSE IF Cardinality(hits) > 1 THEN <<-1>>
      ELSE LET i == CHOOSE h \in hits : TRUE
           IN  <<Offset(scope, i) + find_field(scope.sources[i].schema, name)>>

resolve_column(schema, offset, name) ==
  LET f == find_field(schema, name)
  IN  IF f < 0 THEN Err("unknown column")
      ELSE Column(schema[f + 1].name, offset + f, schema[f + 1].type)

BindColumn(ref, scope) ==
  LET plain == find_field_by_plain_name(scope, ref.n)
      \* the first source that satisfies the test resolves the name
      Within(i) == plain[1] < Offset(scope, i) + Width(scope.sources[i])
      Named(i) == scope.sources[i].alias = ref.q
      InFirst(S) == resolve_column(scope.sources[Min(S)].schema,
                                   Offset(scope, Min(S)), ref.n)
  IN  IF scope.single
        THEN IF ref.q # "" THEN Err("qualified name outside a JOIN")
             ELSE resolve_column(scope.sources[1].schema, 0, ref.n)
      ELSE IF ref.q # ""
        THEN LET S == {i \in DOMAIN scope.sources : Named(i)}
             IN  IF S = {} THEN Err("unknown qualifier") ELSE InFirst(S)
      ELSE IF plain = <<>> THEN Err("unknown column")
      ELSE IF plain[1] < 0 THEN Err("ambiguous column")
      ELSE InFirst({i \in DOMAIN scope.sources : Within(i)})

-----------------------------------------------------------------------------
(* Expressions *)

is_untyped_null(ast) == ast.k = "lit" /\ ast.x.kind = "Null"

BindLiteral(x) ==
  Literal(x.v, CASE x.kind = "Float"   -> FLOAT64
                 [] x.kind = "String"  -> VARCHAR
                 [] x.kind = "Boolean" -> BOOL
                 [] x.kind = "Date"    -> DATE32
                 [] OTHER              -> INT64)

\* A binary node over operands that cast_if_needed may have rejected
BinaryOf(op, l, r, type) ==
  IF IsErr(l) THEN l ELSE IF IsErr(r) THEN r ELSE Binary(op, l, r, type)

\* Numeric operands brought to their common type
Promoted(op, l, r, common) ==
  BinaryOf(op, cast_if_needed(l, common), cast_if_needed(r, common),
           IF is_arithmetic(op) THEN common ELSE BOOL)

combine_binary(op, l, r) ==
  IF is_logical(op)
    THEN IF l.t = BOOL /\ r.t = BOOL THEN Binary(op, l, r, BOOL)
         ELSE Err("AND/OR of a non-boolean")
  ELSE IF l.t = r.t /\ ~is_arithmetic(op) THEN Binary(op, l, r, BOOL)
  ELSE IF is_numeric(l.t) /\ is_numeric(r.t)
    THEN Promoted(op, l, r, promote_numeric(l.t, r.t))
  ELSE Err("incompatible operand types")

\* A bare NULL takes the type of the operand it stands beside
BindBinary(ast, l, r) ==
  LET ln == is_untyped_null(ast.c[1])
      rn == is_untyped_null(ast.c[2])
  IN  combine_binary(ast.x,
                     IF ln /\ ~rn THEN Literal(NULL, r.t) ELSE l,
                     IF rn /\ ~ln THEN Literal(NULL, l.t) ELSE r)

BindUnary(op, e) ==
  CASE op = "NOT" -> IF e.t = BOOL THEN Unary(op, e, BOOL)
                     ELSE Err("NOT of a non-boolean")
    [] op = "NEG" -> IF is_numeric(e.t) /\ e.t # UINT64 THEN Unary(op, e, e.t)
                     ELSE Err("negation of a non-number or an unsigned one")
    [] OTHER      -> Unary(op, e, BOOL)

\* The type of the first promoted with the second; an absent one stays absent
PromoteFurther(a, b) == IF a = <<>> THEN <<>> ELSE promote_numeric(a, b)

CastAll(es, type) == [i \in DOMAIN es |-> cast_if_needed(es[i], type)]

BetweenOf(es) ==
  IF Errors(es) # <<>> THEN Head(Errors(es)) ELSE Between(es[1], es[2], es[3])

\* The bounds agree with the value's type as far as they can; numbers are
\* then brought to the type common to all three
UnifiedBetween(v, l, h) ==
  IF ~is_numeric(v.t) THEN BetweenOf(<<v, l, h>>)
  ELSE IF IsErr(l) THEN l ELSE IF IsErr(h) THEN h
  ELSE BetweenOf(CastAll(<<v, l, h>>, PromoteFurther(promote_numeric(v.t, l.t), h.t)))

BindBetween(v, lo, hi) ==
  LET Unify(bound) ==
        IF v.t = bound.t THEN bound
        ELSE IF is_numeric(v.t) /\ is_numeric(bound.t)
          THEN cast_if_needed(bound, promote_numeric(v.t, bound.t))
        ELSE Err("BETWEEN bound of another type")
  IN  UnifiedBetween(v, Unify(lo), Unify(hi))

BindAggregate(fn, args) ==
  LET t == args[1].t
      sum == IF t[1] = "DECIMAL" \/ is_floating(t) \/ t = UINT64 THEN t ELSE INT64
  IN  CASE fn = "COUNT(*)" -> Aggregate(fn, <<>>, INT64)
        [] fn \in {"COUNT", "COUNT DISTINCT"} -> Aggregate(fn, args, INT64)
        [] fn \in {"MIN", "MAX"} -> Aggregate(fn, args, t)
        [] OTHER -> IF ~is_numeric(t) THEN Err("SUM or AVG of a non-number")
                    ELSE IF fn = "SUM" THEN Aggregate(fn, <<cast_if_needed(args[1], sum)>>, sum)
                    ELSE IF t[1] = "DECIMAL" THEN Err("AVG over DECIMAL")
                    ELSE Aggregate(fn, args, FLOAT64)

\* x IN (i1, ..., in) is the disjunction of the equalities
AnyOf(items, negated) ==
  LET any == FoldLeft(LAMBDA acc, e : Binary("OR", acc, e, BOOL), Head(items), Tail(items))
  IN  IF items = <<>> THEN Err("empty IN list")
      ELSE IF Errors(items) # <<>> THEN Head(Errors(items))
      ELSE IF negated THEN Unary("NOT", any, BOOL) ELSE any

BindIn(ast, cs) ==
  LET Item(i) == combine_binary("=", cs[1],
                   IF is_untyped_null(ast.c[i]) THEN Literal(NULL, cs[1].t)
                   ELSE cs[i])
  IN  IF ast.x.sub # <<>> THEN Err("IN (SELECT) not resolved")
      ELSE AnyOf([i \in 1..(Len(cs) - 1) |-> Item(i + 1)], ast.x.neg)

CaseOf(es, type) == IF Errors(es) # <<>> THEN Head(Errors(es)) ELSE Case(es, type)

BindCase(cs) ==
  LET n == Len(cs)
      IsCondition(i) == i % 2 = 1 /\ i < n
      results == SelectSeq([i \in 1..n |-> i], LAMBDA i : ~IsCondition(i))
      Unify(common, t) ==
        IF common = <<>> THEN <<>>
        ELSE IF t[1] = common[1] THEN common
        ELSE IF is_numeric(t) /\ is_numeric(common) THEN promote_numeric(common, t)
        ELSE <<>>
      CastTo(common) == CaseOf([i \in 1..n |-> IF IsCondition(i) THEN cs[i]
                                               ELSE cast_if_needed(cs[i], common)], common)
  IN  IF \E i \in 1..n : IsCondition(i) /\ cs[i].t # BOOL
        THEN Err("CASE condition is not boolean")
      ELSE CastTo(FoldLeft(LAMBDA acc, i : Unify(acc, cs[i].t), cs[results[1]].t, results))

BindLike(ast, value, pattern) ==
  IF value.t = VARCHAR /\ pattern.k = "lit" /\ pattern.t = VARCHAR
    THEN Like(value, pattern.x, ast.x)
    ELSE Err("LIKE needs a string and a literal pattern")

BindCast(ast, e) ==
  LET type == resolve_cast_type_name(ast.x)
  IN  IF type = <<>> THEN Err("unsupported CAST") ELSE Cast(e, type)

BindExtract(ast, e) ==
  IF e.t = DATE32 THEN Extract(ast.x, e) ELSE Err("EXTRACT of a non-date")

BindSubstring(ast, e) ==
  IF e.t = VARCHAR /\ ast.x.start >= 1 /\ ast.x.length >= 0
    THEN Substring(e, ast.x.start, ast.x.length)
    ELSE Err("SUBSTRING arguments")

\* bind_node: ast over its bound children cs, none of them an exception; a
\* star, a subquery or an EXISTS that is still there is one
bind_node(ast, cs, scope, allow_aggregates) ==
  CASE ast.k = "col"     -> BindColumn(ast.x, scope)
    [] ast.k = "lit"     -> BindLiteral(ast.x)
    [] ast.k = "bin"     -> BindBinary(ast, cs[1], cs[2])
    [] ast.k = "un"      -> BindUnary(ast.x, cs[1])
    [] ast.k = "between" -> BindBetween(cs[1], cs[2], cs[3])
    [] ast.k = "agg"     -> IF allow_aggregates THEN BindAggregate(ast.x, cs)
                            ELSE Err("aggregate not allowed here")
    [] ast.k = "like"    -> BindLike(ast, cs[1], cs[2])
    [] ast.k = "in"      -> BindIn(ast, cs)
    [] ast.k = "case"    -> BindCase(cs)
    [] ast.k = "cast"    -> BindCast(ast, cs[1])
    [] ast.k = "extract" -> BindExtract(ast, cs[1])
    [] ast.k = "substr"  -> BindSubstring(ast, cs[1])
    [] OTHER             -> Err(ast.k)

RECURSIVE bind(_, _, _)
bind(ast, scope, allow_aggregates) ==
  LET cs == [i \in DOMAIN ast.c |->
               bind(ast.c[i], scope, allow_aggregates /\ ast.k # "agg")]
  IN  IF Errors(cs) # <<>> THEN Head(Errors(cs))
      ELSE bind_node(ast, cs, scope, allow_aggregates)

RECURSIVE contains_aggregate(_)
contains_aggregate(ast) ==
  ast.k = "agg" \/ \E i \in DOMAIN ast.c : contains_aggregate(ast.c[i])

\* A column outside any aggregate whose key is not one of the grouped ones
RECURSIVE references_ungrouped_column(_, _)
references_ungrouped_column(e, keys) ==
  \/ e.k = "col" /\ structural_key(e) \notin keys
  \/ e.k # "agg" /\ \E i \in DOMAIN e.c : references_ungrouped_column(e.c[i], keys)

-----------------------------------------------------------------------------
(* JOIN ... ON *)

\* An expression over the joined row restated over the new source's own row
rebase_to_source_schema(e, combined) ==
  Reindex(e, [x \in ColumnsOf(e) |-> x - combined])

\* The conjuncts of an ON condition sorted out: the one equality that is the
\* key, the conjuncts on the new source alone (which filter it before the
\* join) and, for a semi or anti join only, the rest (evaluated in the join).
\* combined and width count the columns joined so far and those of the source.
extract_join_step_keys(condition, combined, width, jt) ==
  LET cs == Conjuncts(condition)
      InSource(x) == combined <= x /\ x < combined + width
      IsKey(e) ==
        /\ e.k = "bin" /\ e.x = "=" /\ e.c[1].k = "col" /\ e.c[2].k = "col"
        /\ \/ e.c[1].x < combined /\ InSource(e.c[2].x)
           \/ e.c[2].x < combined /\ InSource(e.c[1].x)
      keys == SelectSeq(cs, IsKey)
      pair == IF keys = <<>> THEN {0} ELSE ColumnsOf(keys[1])
      RightOnly(e) == \A x \in ColumnsOf(e) : InSource(x)
      Rest(P(_)) == SelectSeq(cs, LAMBDA e : ~IsKey(e) /\ P(e))
      prefilter == Rest(RightOnly)
      residual == Rest(LAMBDA e : ~RightOnly(e))
      All(es) == IF es = <<>> THEN <<>> ELSE <<Conjunction(es)>>
  IN  [err |-> \/ IsErr(condition)
               \/ Len(keys) # 1
               \/ residual # <<>> /\ ~IsSemi(jt),
       ck |-> Min(pair), sk |-> Max(pair) - combined, jt |-> jt,
       pre |-> All([i \in DOMAIN prefilter |-> rebase_to_source_schema(prefilter[i], combined)]),
       res |-> All(residual)]

bind_join_steps(steps, scope) ==
  [i \in DOMAIN steps |->
     extract_join_step_keys(bind(steps[i].on, scope, FALSE), Offset(scope, i + 1),
                            Width(scope.sources[i + 1]), steps[i].jt)]

-----------------------------------------------------------------------------
(* Statements *)

\* An item of the SELECT list and its name: the alias, the column's name or
\* the item's text
SelectItem(ast, e) == [e |-> e, name |-> IF ast.as # "" THEN ast.as
                                         ELSE IF ast.k = "col" THEN ast.x.n ELSE to_string(e)]

SelectList(items, star, err) ==
  [items |-> items, star |-> star,
   err |-> err \/ \E i, j \in DOMAIN items : i # j /\ items[i].name = items[j].name]

\* A star is every column
BindSelectList(stmt, scope) ==
  LET Star(fields) == [i \in DOMAIN fields |-> [e |-> fields[i], name |-> fields[i].n]]
      star == \E i \in DOMAIN stmt.select : stmt.select[i].k = "star"
  IN  SelectList(IF star THEN Star(all_fields_with_index(scope))
                 ELSE [i \in DOMAIN stmt.select |->
                         SelectItem(stmt.select[i], bind(stmt.select[i], scope, TRUE))],
                 star, star /\ Len(stmt.select) # 1)

\* A GROUP BY name is a column if there is one, a SELECT alias otherwise; the
\* item an alias names may read columns that are not grouped
BindGroupBy(stmt, scope, select, schema) ==
  LET IsColumn(g) == g.k # "col" \/ g.x.q # "" \/ find_field_by_plain_name(scope, g.x.n) # <<>>
      Named(g) == find_field(schema, g.x.n) + 1
      Key(g) == IF g.k # "col" THEN Err("GROUP BY of an expression")
                ELSE IF IsColumn(g) THEN bind(g, scope, FALSE)
                ELSE IF Named(g) > 0 THEN select[Named(g)].e
                ELSE Err("unknown GROUP BY column")
      aliases == {i \in DOMAIN stmt.group : ~IsColumn(stmt.group[i])}
  IN  [keys |-> [i \in DOMAIN stmt.group |-> Key(stmt.group[i])],
       exempt |-> {Named(stmt.group[i]) : i \in aliases}]

\* After aggregation only an output column can be ordered by
BindOrderBy(stmt, scope, schema, is_aggregate) ==
  LET OrderKey(o) ==
        IF ~is_aggregate THEN bind(o.e, scope, TRUE)
        ELSE IF o.e.k # "col" THEN Err("ORDER BY of an expression")
        ELSE resolve_column(schema, 0, o.e.x.n)
  IN  [i \in DOMAIN stmt.order |->
         [e |-> OrderKey(stmt.order[i]), asc |-> stmt.order[i].asc]]

\* A bound query; err is true when binding threw
BoundQuery(stmt, is_aggregate, list, schema, where, group, having, order) ==
  LET select == list.items
      keys == {structural_key(group.keys[i]) : i \in DOMAIN group.keys}
      ungrouped == \E i \in DOMAIN select \ group.exempt :
                     references_ungrouped_column(select[i].e, keys)
      bound == [i \in DOMAIN select |-> select[i].e] \o where \o group.keys \o having
               \o [i \in DOMAIN order |-> order[i].e]
  IN  [err |-> \/ list.err
               \/ Errors(bound) # <<>>
               \/ \E i \in DOMAIN where : where[i].t # BOOL
               \/ is_aggregate /\ ~list.star /\ ungrouped
               \/ having # <<>> /\ (~is_aggregate \/ having[1].t # BOOL
                                    \/ references_ungrouped_column(having[1], keys)),
       select |-> select, schema |-> schema, where |-> where, group |-> group.keys,
       having |-> having, order |-> order, limit |-> stmt.limit,
       agg |-> is_aggregate]

\* The clauses over the bound SELECT list
BindClauses(stmt, scope, is_aggregate, list) ==
  LET schema == [i \in DOMAIN list.items |-> Field(list.items[i].name, list.items[i].e.t)]
      All(es, allow_aggregates) == [i \in DOMAIN es |-> bind(es[i], scope, allow_aggregates)]
  IN  BoundQuery(stmt, is_aggregate, list, schema, All(stmt.where, FALSE),
                 BindGroupBy(stmt, scope, list.items, schema), All(stmt.having, TRUE),
                 BindOrderBy(stmt, scope, schema, is_aggregate))

bind_query_common(stmt, scope, is_aggregate) ==
  BindClauses(stmt, scope, is_aggregate, BindSelectList(stmt, scope))

IsAggregateQuery(stmt) ==
  stmt.group # <<>> \/ \E i \in DOMAIN stmt.select : contains_aggregate(stmt.select[i])

WithJoinSteps(bound, keys) ==
  [bound EXCEPT !.err = @ \/ \E i \in DOMAIN keys : keys[i].err] @@ [steps |-> keys]

BindInScope(stmt, steps, scope) ==
  WithJoinSteps(bind_query_common(stmt, scope, IsAggregateQuery(stmt)),
                bind_join_steps(steps, scope))

\* bind_query over one schema per source.  HAVING plays no part in whether
\* the query aggregates.
bind_query(stmt, schemas) ==
  LET steps == IF stmt.join = <<>> THEN <<>> ELSE stmt.join[1].steps
  IN  BindInScope(stmt, steps,
        [single |-> stmt.join = <<>>,
         sources |-> [i \in DOMAIN schemas |->
           [alias |-> IF stmt.join = <<>> THEN ""
                      ELSE IF i = 1 THEN stmt.join[1].first.alias
                      ELSE steps[i - 1].source.alias,
            schema |-> schemas[i],
            jt |-> IF i = 1 THEN "Inner" ELSE steps[i - 1].jt]]])
=============================================================================
