------------------------------ MODULE Optimizer ------------------------------
(***************************************************************************)
(* The rule-based optimizer (src/optimizer/optimizer.cpp): constant        *)
(* folding, merging and pushing of filters, pushing of limits, and the     *)
(* last pass, which tells every scan which columns the plan above reads    *)
(* and which comparisons its row-group statistics may be tested with.      *)
(***************************************************************************)
EXTENDS LogicalPlanner

-----------------------------------------------------------------------------
(* Constant folding *)

\* std::get<int64_t> succeeds: integers and dates share the storage
HoldsInt(e) == IsLiteral(e) /\ e.t[1] \in {"INT64", "DATE32"}

HoldsBool(e) == IsLiteral(e) /\ e.t = BOOL

\* literal_as_double succeeds
HoldsNumber(e) == HoldsInt(e) \/ (IsLiteral(e) /\ IsQuotient(e.t))

literal_as_double(e) == IF IsQuotient(e.t) THEN e.x ELSE ToDouble(e.x)

\* Exact integer arithmetic; no fold (<<>>) on overflow or division by zero
fold_arithmetic_int64(op, a, b) ==
  LET r == CASE op = "+" -> a + b
             [] op = "-" -> a - b
             [] op = "*" -> a * b
             [] OTHER    -> IF b = 0 THEN IntMax + 1 ELSE Truncate(a, b)
  IN  IF -(IntMax + 1) <= r /\ r <= IntMax THEN <<r>> ELSE <<>>

\* Arithmetic in doubles; no fold on division by zero
fold_arithmetic(op, a, b) ==
  IF op = "/" /\ b[1] = 0 THEN <<>> ELSE <<QuotArith(op, a, b)>>

make_bool_literal(v) == Literal(v, BOOL)

\* e is a binary node whose operands are literals that hold numbers
FoldNumbers(e) ==
  LET l == e.c[1]
      r == e.c[2]
      ints == HoldsInt(l) /\ HoldsInt(r)
      a == literal_as_double(l)
      b == literal_as_double(r)
      exact == fold_arithmetic_int64(e.x, l.x, r.x)
      inexact == fold_arithmetic(e.x, a, b)
      As(q) == IF is_floating(e.t) THEN Literal(q, FLOAT64)
               ELSE Literal(Truncate(q[1], q[2]), INT64)
  IN  IF is_comparison(e.x)
        THEN make_bool_literal(Holds(e.x, IF ints THEN Order(INT64, l.x, r.x)
                                          ELSE Order(FLOAT64, a, b)))
      ELSE IF ints
        THEN IF exact = <<>> THEN e
             ELSE IF is_floating(e.t) THEN Literal(ToDouble(exact[1]), FLOAT64)
             ELSE Literal(exact[1], INT64)
      ELSE IF inexact = <<>> THEN e ELSE As(inexact[1])

\* A boolean literal on either side of AND/OR decides it or drops out
FoldLogical(e) ==
  LET l == e.c[1]
      r == e.c[2]
      Decide(lit, other) ==
        IF (e.x = "AND") = lit.x THEN other ELSE make_bool_literal(lit.x)
  IN  IF HoldsBool(l) THEN Decide(l, r)
      ELSE IF HoldsBool(r) THEN Decide(r, l) ELSE e

RECURSIVE simplify_expression(_)
simplify_expression(e) ==
  LET s == [e EXCEPT !.c = [i \in DOMAIN e.c |-> simplify_expression(e.c[i])]]
      v == s.c[1]
  IN  CASE e.k = "between" ->
             simplify_expression(Binary("AND", Binary(">=", v, s.c[2], BOOL),
                                        Binary("<=", v, s.c[3], BOOL), BOOL))
        [] e.k = "un" /\ e.x = "NOT" /\ HoldsBool(v) -> make_bool_literal(~v.x)
        [] e.k = "un" /\ e.x = "NOT" /\ v.k = "un" /\ v.x = "NOT" -> v.c[1]
        [] e.k = "bin" /\ is_logical(e.x) -> FoldLogical(s)
        [] e.k = "bin" /\ ~is_logical(e.x) /\ HoldsNumber(v) /\ HoldsNumber(s.c[2]) ->
             FoldNumbers(s)
        [] OTHER -> s

SimplifyItems(items) ==
  [i \in DOMAIN items |-> [items[i] EXCEPT !.e = simplify_expression(@)]]

-----------------------------------------------------------------------------
(* Plan rewriting *)

\* LIMIT commutes with a projection
RECURSIVE insert_limit(_, _)
insert_limit(p, n) ==
  IF p.k = "proj" THEN LogicalProjection(insert_limit(p.c[1], n), p.x)
  ELSE LogicalLimit(p, n)

shift_columns(e, by) == Reindex(e, [x \in ColumnsOf(e) |-> x - by])

\* Mutant: a left outer join's right side may be filtered below it, too
right_side_pushable_Outer(jt) == jt \in {"Inner", "LeftOuter"}

right_side_pushable(jt) == jt = "Inner"

\* The conjuncts of a filter over a join, by where they can be evaluated: a
\* conjunct on right columns only may move below an inner join, not below a
\* join that extends unmatched rows with NULLs
PushSides(join, predicate) ==
  LET n == Len(output_schema(join.c[1]))
      Left(e) == ColumnsOf(e) # {} /\ \A x \in ColumnsOf(e) : x < n
      Right(e) == /\ right_side_pushable(join.x.jt)
                  /\ ColumnsOf(e) # {} /\ \A x \in ColumnsOf(e) : x >= n
      cs == Conjuncts(predicate)
      right == SelectSeq(cs, Right)
  IN  [left  |-> SelectSeq(cs, Left),
       right |-> [i \in DOMAIN right |-> shift_columns(right[i], n)],
       rest  |-> SelectSeq(cs, LAMBDA e : ~Left(e) /\ ~Right(e))]

RECURSIVE rewrite_plan(_)

\* A filter of the conjuncts, if any, over p
Filtered(p, es) == IF es = <<>> THEN p ELSE LogicalFilter(p, Conjunction(es))

push_predicate_through_join(join, predicate, sides) ==
  LET Side(i, es) == IF es = <<>> THEN join.c[i] ELSE rewrite_plan(Filtered(join.c[i], es))
  IN  IF sides.left = <<>> /\ sides.right = <<>> THEN LogicalFilter(join, predicate)
      ELSE Filtered([join EXCEPT !.c = <<Side(1, sides.left), Side(2, sides.right)>>], sides.rest)

\* A filter over a rewritten child: merged with a filter, dropped when TRUE,
\* pushed through a join
RewriteFilter(child, predicate) ==
  IF child.k = "filter"
    THEN rewrite_plan(LogicalFilter(child.c[1],
           simplify_expression(Binary("AND", predicate, child.x, BOOL))))
  ELSE IF HoldsBool(predicate)
    THEN IF predicate.x THEN child ELSE LogicalFilter(child, predicate)
  ELSE IF child.k = "join"
    THEN push_predicate_through_join(child, predicate, PushSides(child, predicate))
  ELSE LogicalFilter(child, predicate)

\* cs are the rewritten children
RewriteOver(p, cs) ==
  CASE p.k \in {"scan", "join"} -> [p EXCEPT !.c = cs]
    [] p.k = "filter" -> RewriteFilter(cs[1], simplify_expression(p.x))
    [] p.k = "agg"    -> [p EXCEPT !.c = cs, !.x = [clause \in DOMAIN @ |-> SimplifyItems(@[clause])]]
    [] p.k = "limit"  -> insert_limit(cs[1], p.x)
    [] OTHER          -> [p EXCEPT !.c = cs, !.x = SimplifyItems(@)]

rewrite_plan(p) == RewriteOver(p, [i \in DOMAIN p.c |-> rewrite_plan(p.c[i])])

-----------------------------------------------------------------------------
(* Required columns and pushable predicates *)

RECURSIVE unwrap_cast(_)
unwrap_cast(e) == IF e.k = "cast" THEN unwrap_cast(e.c[1]) ELSE e

flip(op) == CASE op = "<"  -> ">"
              [] op = "<=" -> ">="
              [] op = ">"  -> "<"
              [] op = ">=" -> "<="
              [] OTHER     -> op

\* The conjuncts `column op literal`, either way round and through casts; a
\* column is recorded by its name
collect_pushable_predicates(predicate) ==
  LET Pushable(e) ==
        LET l == unwrap_cast(e.c[1])
            r == unwrap_cast(e.c[2])
        IN  IF e.k # "bin" \/ ~is_comparison(e.x) THEN <<>>
            ELSE IF l.k = "col" /\ r.k = "lit"
              THEN <<[col |-> l.n, op |-> e.x, lit |-> r]>>
            ELSE IF r.k = "col" /\ l.k = "lit"
              THEN <<[col |-> r.n, op |-> flip(e.x), lit |-> l]>>
            ELSE <<>>
      cs == Conjuncts(predicate)
  IN  FlattenSeq([i \in DOMAIN cs |-> Pushable(cs[i])])

ColumnsOfItems(items) == UNION {ColumnsOf(items[i].e) : i \in DOMAIN items}

\* required and pushable are what the nodes above p have asked of its scans.
\* A filter or a projection directly on an aggregate reads the aggregate's
\* output and asks nothing of the scan.  Predicates do not cross a join.
RECURSIVE annotate_scan(_, _, _)
annotate_scan(p, required, pushable) ==
  LET child == p.c[1]
      Below(more, preds) ==
        Plan(p.k, p.x, <<annotate_scan(child, required \union more, preds)>>)
      n == Len(output_schema(child))
      all == required \union UNION {ColumnsOf(p.x.res[i]) : i \in DOMAIN p.x.res}
      LeftOf(S) == {x \in S : x < n}
      RightOf(S) == {x - n : x \in {y \in S : y >= n}}
  IN  CASE p.k = "filter" ->
             IF child.k = "agg" THEN Below({}, pushable)
             ELSE Below(ColumnsOf(p.x), pushable \o collect_pushable_predicates(p.x))
        [] p.k = "sort"  -> Below(ColumnsOfItems(p.x), pushable)
        [] p.k = "agg"   -> Below(ColumnsOfItems(p.x.group \o p.x.aggs), pushable)
        [] p.k = "proj"  -> Below(IF child.k = "agg" THEN {} ELSE ColumnsOfItems(p.x),
                                  pushable)
        [] p.k = "limit" -> Below({}, pushable)
        [] p.k = "join"  ->
             [p EXCEPT !.c =
                <<annotate_scan(p.c[1], LeftOf(all) \union {p.x.lk}, <<>>),
                  annotate_scan(p.c[2], RightOf(all) \union {p.x.rk}, <<>>)>>]
        [] OTHER ->
             IF \E x \in required : x >= Len(p.x.schema) THEN ErrPlan("out_of_range")
             ELSE [p EXCEPT !.x.required = {p.x.schema[x + 1].name : x \in required},
                            !.x.pushable = pushable]

RECURSIVE HasErr(_)
HasErr(p) == p.k = "err" \/ \E i \in DOMAIN p.c : HasErr(p.c[i])

optimize(p) ==
  LET Checked(q) == IF HasErr(q) THEN ErrPlan("optimize") ELSE q
  IN  IF HasErr(p) THEN p ELSE Checked(annotate_scan(rewrite_plan(p), {}, <<>>))
=============================================================================
