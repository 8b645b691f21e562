---------------------------- MODULE GpuExecution ----------------------------
(***************************************************************************)
(* The GPU backend (src/execution_gpu): a physical plan built into a tree  *)
(* of operators, each of which pulls batches from its children.  A stream  *)
(* is the sequence of the batches next() returns, a batch a sequence of    *)
(* rows.  What depends on where the batches end is modelled with them:     *)
(* partial aggregates and when they are folded, the batches a filter or a  *)
(* join skips, the rows a limit cuts off.  HashJoinOperator.tla has the    *)
(* inner and outer join's own state machine; here it is what it computes.  *)
(*                                                                         *)
(* A configuration cfg has batch_rows and result_batch_rows (engine        *)
(* section), max_distinct_keys, and parts, the partition count every join  *)
(* chooses.                                                                *)
(***************************************************************************)
EXTENDS Execution

-----------------------------------------------------------------------------
(* Whether an expression compiles.  cudf's AST has no LIKE, CASE, EXTRACT  *)
(* or SUBSTRING and casts to three types only; some operators evaluate     *)
(* these nodes themselves, above whatever the AST can do.                  *)

compile_cast(e) == e.t \in {INT64, UINT64, FLOAT64}

RECURSIVE compile(_)
compile(e) ==
  /\ e.k \in {"col", "lit", "bin", "un", "between", "cast"}
  /\ e.k = "cast" => compile_cast(e)
  /\ \A i \in DOMAIN e.c : compile(e.c[i])

\* The nodes of the given classes, and casts to DECIMAL, materialized one by
\* one over their operands' columns
RECURSIVE Materialized(_, _)
Materialized(e, classes) ==
  IF e.k \in classes \/ (e.k = "cast" /\ e.t[1] = "DECIMAL")
    THEN \A i \in DOMAIN e.c : Materialized(e.c[i], classes)
    ELSE compile(e)

\* ProjectionOperator: a CASE only as the whole item
compile_value(e) == Materialized(e, {"like", "extract", "substr"})

compile_item(e) ==
  IF e.k = "case" THEN \A i \in DOMAIN e.c : compile_value(e.c[i])
  ELSE compile_value(e)

\* The aggregate operators: CASE anywhere, no SUBSTRING
compile_expr(e) == Materialized(e, {"case", "like", "extract"})

-----------------------------------------------------------------------------
(* FilterOperator *)

RECURSIVE flatten_or(_)
flatten_or(e) ==
  IF e.k = "bin" /\ e.x = "OR" THEN flatten_or(e.c[1]) \o flatten_or(e.c[2]) ELSE <<e>>

Negated(e) == e.k = "un" /\ e.x = "NOT"

\* The equalities of [NOT] SUBSTRING(..) IN ('..', ..); <<>> if the conjunct
\* is of another shape or not of one and the same SUBSTRING
try_compile_substring_in(e) ==
  LET leaves == flatten_or(IF Negated(e) THEN e.c[1] ELSE e)
      Equality(f) == /\ f.k = "bin" /\ f.x = "="
                     /\ f.c[1].k = "substr"
                     /\ IsLiteral(f.c[2]) /\ f.c[2].t = VARCHAR
  IN  IF /\ \A i \in DOMAIN leaves : Equality(leaves[i])
         /\ \A i \in DOMAIN leaves :
              structural_key(leaves[i].c[1]) = structural_key(leaves[1].c[1])
        THEN leaves ELSE <<>>

\* Conjuncts evaluated by themselves, and those left for the AST
IsSpecial(e) == e.k = "like" \/ try_compile_substring_in(e) # <<>>

OpenFilter(predicate) ==
  \A i \in DOMAIN Conjuncts(predicate) :
    LET e == Conjuncts(predicate)[i]
    IN  IF e.k = "like" THEN compile(e.c[1])
        ELSE IF IsSpecial(e) THEN compile(try_compile_substring_in(e)[1].c[1].c[1])
        ELSE compile(e)

evaluate_substring_in(e, row) ==
  LET leaves == try_compile_substring_in(e)
      shared == Eval(leaves[1].c[1], row)
      mask == FoldLeft(LAMBDA m, f : KleeneOr(m, BinaryValue("=", VARCHAR, shared, f.c[2].x)),
                       FALSE, leaves)
  IN  IF Negated(e) THEN KleeneNot(mask) ELSE mask

\* cudf's LOGICAL_AND: NULL if either side is
LogicalAnd(a, b) == IF a = NULL \/ b = NULL THEN NULL ELSE a /\ b

\* The mask is the AST's conjuncts combined with every special one; rows
\* where it is FALSE or NULL are dropped, and a batch left empty is skipped
FilterBatches(batches, predicate) ==
  LET all == Conjuncts(predicate)
      ast == SelectSeq(all, LAMBDA e : ~IsSpecial(e))
      special == SelectSeq(all, IsSpecial)
      One(e, row) == IF e.k = "like" THEN Eval(e, row) ELSE evaluate_substring_in(e, row)
      Mask(row) == FoldLeft(LAMBDA m, e : LogicalAnd(m, One(e, row)),
                            IF ast = <<>> THEN TRUE ELSE Eval(Conjunction(ast), row),
                            special)
  IN  SelectSeq([b \in DOMAIN batches |-> SelectSeq(batches[b], LAMBDA row : Mask(row) = TRUE)],
                LAMBDA batch : batch # <<>>)

-----------------------------------------------------------------------------
(* HashAggregateOperator *)

\* The partial results kept for an aggregate: a COUNT is a sum of ones, an
\* AVG a sum and a sum of ones
ValueColumns(a) ==
  LET Slot(kind, fn, t) == [kind |-> kind, fn |-> fn, e |-> a, t |-> t]
      ones == Slot("ones", "SUM", INT64)
  IN  CASE a.x \in {"COUNT(*)", "COUNT"} -> <<ones>>
        [] a.x = "AVG" -> <<Slot("value", "SUM", a.c[1].t), ones>>
        [] OTHER       -> <<Slot("value", a.x, a.c[1].t)>>

AllValueColumns(aggs) == FlattenSeq([i \in DOMAIN aggs |-> ValueColumns(aggs[i].e)])

\* materialize_value_column: a one for every row, NULL where the argument is
materialize_value_column(slot, row) ==
  IF slot.kind = "value" THEN Eval(slot.e.c[1], row)
  ELSE IF slot.e.c = <<>> THEN 1
  ELSE IF Eval(slot.e.c[1], row) = NULL THEN NULL ELSE 1

KeyOf(row, n) == SubSeq(row, 1, n)

\* cudf's groupby leaves out the rows with a NULL key
run_groupby_and_assemble(rows, n, slots) ==
  LET keys == SelectSeq(Distinct([r \in DOMAIN rows |-> KeyOf(rows[r], n)]),
                        LAMBDA key : ~Contains(key, NULL))
      Members(key) == SelectSeq(rows, LAMBDA row : KeyOf(row, n) = key)
  IN  [k \in DOMAIN keys |->
         LET members == Members(keys[k])
         IN  keys[k] \o [s \in DOMAIN slots |->
               AggregateValue(slots[s].fn, slots[s].t,
                              [m \in DOMAIN members |-> members[m][n + s]], Len(members))]]

IsCountDistinct(agg) == Len(agg.aggs) = 1 /\ agg.aggs[1].e.x = "COUNT DISTINCT"

\* What one batch, or a concatenation of partial results, is reduced to: the
\* distinct rows of keys and argument for COUNT(DISTINCT), groups otherwise
Reduce(agg, rows) ==
  IF IsCountDistinct(agg) THEN Distinct(rows)
  ELSE run_groupby_and_assemble(rows, Len(agg.group), AllValueColumns(agg.aggs))

\* build_combined_columns: the keys and the value columns of a batch
build_combined_columns(agg, batch) ==
  LET slots == AllValueColumns(agg.aggs)
  IN  [r \in DOMAIN batch |->
         [i \in DOMAIN agg.group |-> Eval(agg.group[i].e, batch[r])]
         \o (IF IsCountDistinct(agg) THEN <<Eval(agg.aggs[1].e.c[1], batch[r])>>
             ELSE [s \in DOMAIN slots |-> materialize_value_column(slots[s], batch[r])])]

\* accumulated is <<>> until the first flush and <<rows>> after it
NoPartials == [accumulated |-> <<>>, pending |-> <<>>, ok |-> TRUE]

Folded(st, rows, cfg) ==
  [accumulated |-> <<rows>>, pending |-> <<>>,
   ok |-> st.ok /\ Len(rows) <= cfg.max_distinct_keys]

\* Mutant: what was accumulated before is replaced
flush_pending_Overwrites(st, agg, cfg) ==
  IF st.pending = <<>> THEN st
  ELSE Folded(st, IF Len(st.pending) = 1 THEN st.pending[1]
                  ELSE Reduce(agg, FlattenSeq(st.pending)), cfg)

\* flush_pending: fold what is pending into accumulated_, which may then not
\* have more rows than max_distinct_keys
flush_pending(st, agg, cfg) ==
  IF st.pending = <<>> THEN st
  ELSE Folded(st, IF st.accumulated = <<>> /\ Len(st.pending) = 1 THEN st.pending[1]
                  ELSE Reduce(agg, FlattenSeq(st.accumulated \o st.pending)), cfg)

\* What is pending is folded once it has as many rows as what is accumulated
FlushIfDue(st, agg, cfg) ==
  IF \/ st.accumulated = <<>>
     \/ Len(FlattenSeq(st.pending)) >= Len(st.accumulated[1])
    THEN flush_pending(st, agg, cfg) ELSE st

process_batch(st, batch, agg, cfg) ==
  FlushIfDue([st EXCEPT !.pending = Append(@, Reduce(agg, build_combined_columns(agg, batch)))],
             agg, cfg)

\* The columns of the result: a COUNT that is NULL is 0, an AVG is its sum
\* divided by its count, both as doubles
FinishRow(agg, row) ==
  LET At(i) == Len(agg.group) + Len(AllValueColumns(SubSeq(agg.aggs, 1, i - 1))) + 1
      Value(i) ==
        LET a == agg.aggs[i].e
            v == row[At(i)]
        IN  CASE a.x \in {"COUNT(*)", "COUNT"} -> IF v = NULL THEN 0 ELSE v
              [] a.x = "AVG" -> BinaryValue("/", FLOAT64, CastValue(a.c[1].t, FLOAT64, v),
                                            CastValue(INT64, FLOAT64, row[At(i) + 1]))
              [] OTHER -> v
  IN  KeyOf(row, Len(agg.group)) \o [i \in DOMAIN agg.aggs |-> Value(i)]

FinishAggregate(st, agg) ==
  LET counted == run_groupby_and_assemble(st.accumulated[1], Len(agg.group),
                                          <<[fn |-> "COUNT", t |-> INT64]>>)
      rows == IF st.accumulated = <<>> THEN <<>>
              ELSE IF IsCountDistinct(agg) THEN counted
              ELSE [r \in DOMAIN st.accumulated[1] |-> FinishRow(agg, st.accumulated[1][r])]
  IN  [ok |-> st.ok, batches |-> <<rows>>]

\* next: drains its child and returns one batch, also of no group
HashAggregate(batches, agg, cfg) ==
  FinishAggregate(flush_pending(FoldLeft(LAMBDA s, b : process_batch(s, b, agg, cfg),
                                         NoPartials, batches), agg, cfg), agg)

-----------------------------------------------------------------------------
(* ScalarAggregateOperator *)

\* process_batch of one accumulator: a batch with no value for it leaves the
\* running values as they are; AVG sums doubles
Accumulate(a, acc, batch) ==
  LET t == IF a.x = "AVG" THEN FLOAT64 ELSE a.c[1].t
      Value(row) == LET v == Eval(a.c[1], row)
                    IN  IF a.x = "AVG" THEN CastValue(a.c[1].t, FLOAT64, v) ELSE v
      values == SelectSeq([r \in DOMAIN batch |-> Value(batch[r])], LAMBDA v : v # NULL)
      fn == IF a.x = "AVG" THEN "SUM" ELSE a.x
  IN  IF a.x = "COUNT(*)" THEN [acc EXCEPT !.count = @ + Len(batch)]
      ELSE IF values = <<>> THEN acc
      ELSE [count |-> acc.count + Len(values),
            value |-> IF a.x = "COUNT" THEN NULL
                      ELSE AggregateValue(fn, t, <<acc.value>> \o values, 0)]

finalize(a, acc) ==
  CASE a.x \in {"COUNT(*)", "COUNT"} -> acc.count
    [] a.x = "AVG" -> BinaryValue("/", FLOAT64, acc.value, ToDouble(acc.count))
    [] OTHER       -> acc.value

\* One row, also of no batch
ScalarAggregate(batches, agg) ==
  << << [i \in DOMAIN agg.aggs |->
          LET a == agg.aggs[i].e
          IN  finalize(a, FoldLeft(LAMBDA acc, b : Accumulate(a, acc, b),
                                   [count |-> 0, value |-> NULL], batches))] >> >>

-----------------------------------------------------------------------------
(* Joins: NULL keys are equal *)

\* The batches of a stream with the rows of one bucket; a batch with none is
\* not spilled
Bucket(batches, key, b, n) ==
  LET Hash(v) == IF v = NULL THEN 0 ELSE v % n
      Rows(batch) == SelectSeq(batch, LAMBDA row : Hash(row[key + 1]) = b)
  IN  SelectSeq([i \in DOMAIN batches |-> Rows(batches[i])], LAMBDA batch : batch # <<>>)

\* partners[i] is the number of build rows that match row i
Survivors(join, batch, partners) ==
  LET all == [i \in DOMAIN batch |-> i]
      has == SelectSeq(all, LAMBDA i : partners[i] # 0)
      inner == FlattenSeq([i \in DOMAIN batch |-> [j \in 1..partners[i] |-> i]])
      left_indices == IF join.jt = "LeftAnti" THEN SelectSeq(all, LAMBDA i : partners[i] = 0)
                      ELSE IF join.res # <<>> THEN has ELSE Distinct(inner)
  IN  [i \in DOMAIN left_indices |-> batch[left_indices[i]]]

\* probe_one_batch: with a residual cudf returns the rows that have, or have
\* not, a partner; without one LEFT SEMI is the distinct left indices of the
\* inner join, LEFT ANTI the rows the left join pairs with no row
probe_one_batch(join, batch, build) ==
  Survivors(join, batch,
    [i \in DOMAIN batch |->
       Cardinality({j \in DOMAIN build : Matching(join, batch[i], build[j], TRUE)})])

\* One bucket (or all of an unpartitioned join): an empty build side lets
\* every batch of LEFT ANTI through and none of LEFT SEMI; a batch with no
\* row left is skipped
SemiAntiBucket(join, left, right) ==
  LET build == FlattenSeq(right)
  IN  IF build = <<>> THEN IF join.jt = "LeftAnti" THEN left ELSE <<>>
      ELSE SelectSeq([i \in DOMAIN left |-> probe_one_batch(join, left[i], build)],
                     LAMBDA batch : batch # <<>>)

HashJoinBucket(join, left, right, width) ==
  SelectSeq([i \in DOMAIN left |-> JoinRows(join, left[i], FlattenSeq(right), width, TRUE)],
            LAMBDA batch : batch # <<>>)

JoinBatches(join, left, right, width, n) ==
  LET One(l, r) == IF IsSemi(join.jt) THEN SemiAntiBucket(join, l, r)
                   ELSE HashJoinBucket(join, l, r, width)
      Side(batches, key, b) == IF n <= 1 THEN batches ELSE Bucket(batches, key, b - 1, n)
  IN  FlattenSeq([b \in 1..Max({n, 1}) |-> One(Side(left, join.lk, b), Side(right, join.rk, b))])

-----------------------------------------------------------------------------
(* Sort, limit and batch size *)

\* SortOperator with the limit fused into it, <<>> if there is none
SortBatches(batches, keys, limit) ==
  LET Cut(rows) == IF limit = <<>> THEN rows ELSE FirstRows(rows, limit[1])
  IN  IF batches = <<>> \/ limit = <<0>> THEN <<>>
      ELSE <<Cut(SortRows(FlattenSeq(batches), keys))>>

\* LimitOperator: the batch that reaches the limit is cut, those after it
\* are not pulled
LimitBatches(batches, n) ==
  LET Step(acc, batch) ==
        IF acc.remaining <= 0 THEN acc
        ELSE [out |-> Append(acc.out, FirstRows(batch, acc.remaining)),
              remaining |-> acc.remaining - Len(batch)]
  IN  FoldLeft(Step, [out |-> <<>>, remaining |-> n], batches).out

\* BatchSizeLimitOperator: a batch of more than max_rows rows is sliced
BatchSizeLimit(batches, max_rows) ==
  LET Slices(batch) ==
        IF Len(batch) <= max_rows THEN <<batch>>
        ELSE [i \in 1..((Len(batch) + max_rows - 1) \div max_rows) |->
                SubSeq(batch, (i - 1) * max_rows + 1, Min({i * max_rows, Len(batch)}))]
  IN  FlattenSeq([b \in DOMAIN batches |-> Slices(batches[b])])

-----------------------------------------------------------------------------
(* The operator tree *)

RECURSIVE open(_, _)
RECURSIVE next(_, _)

AllInRange(items, n) == \A i \in DOMAIN items : InRange(items[i].e, n)

\* COUNT(DISTINCT) only with a GROUP BY and as the only aggregate
OpenAggregate(agg, n) ==
  /\ AllInRange(agg.group, n)
  /\ \A i \in DOMAIN agg.group : compile_expr(agg.group[i].e)
  /\ \A i \in DOMAIN agg.aggs :
       LET a == agg.aggs[i].e
       IN  /\ a.k = "agg"
           /\ a.x = "COUNT DISTINCT" => agg.group # <<>> /\ Len(agg.aggs) = 1
           /\ \A j \in DOMAIN a.c : compile_expr(a.c[j]) /\ InRange(a.c[j], n)

\* The build side is drained, and both sides when the join is partitioned
OpenJoin(p, width, cfg) ==
  /\ \A i \in DOMAIN p.x.res : compile(p.x.res[i]) /\ InRange(p.x.res[i], width)
  /\ \A i \in (IF cfg.parts > 1 THEN {1, 2} ELSE {2}) : next(p.c[i], cfg).ok

\* Whether open() of the tree succeeds
open(p, cfg) ==
  LET n == Len(PhysicalSchema(p.c[1]))
  IN  /\ \A i \in DOMAIN p.c : open(p.c[i], cfg)
      /\ CASE p.k = "scan"   -> ScanOpens(p.x)
           [] p.k = "filter" -> OpenFilter(p.x) /\ InRange(p.x, n)
           [] p.k = "proj"   -> AllInRange(p.x, n) /\ \A i \in DOMAIN p.x : compile_item(p.x[i].e)
           [] p.k = "sort"   -> AllInRange(p.x, n) /\ \A i \in DOMAIN p.x : compile(p.x[i].e)
           [] p.k = "agg"    -> OpenAggregate(p.x, n)
           [] p.k = "join"   -> OpenJoin(p, n + Len(PhysicalSchema(p.c[2])), cfg)
           [] OTHER          -> p.k # "err"

\* build, and the batches next() then returns until it returns none
next(p, cfg) ==
  LET input == next(p.c[1], cfg)
      fused == p.k = "limit" /\ p.c[1].k = "sort"
      child == next(p.c[1].c[1], cfg)
      Of(in, batches) == [ok |-> in.ok, batches |-> IF in.ok THEN batches ELSE <<>>]
      Join == JoinBatches(p.x, input.batches, next(p.c[2], cfg).batches,
                          Len(PhysicalSchema(p.c[2])), cfg.parts)
      aggregated == HashAggregate(input.batches, p.x, cfg)
      \* a table of no columns has no rows
      scanned == IF p.x.columns = <<>> THEN <<>> ELSE ScanGroups(p.x)
  IN  CASE p.k = "scan"   -> [ok |-> TRUE, batches |-> BatchSizeLimit(scanned, cfg.batch_rows)]
        [] p.k = "join"   -> Of(input, Join)
        [] p.k = "filter" -> Of(input, FilterBatches(input.batches, p.x))
        [] p.k = "proj"   -> Of(input, [b \in DOMAIN input.batches |->
                                          ProjectRows(input.batches[b], p.x)])
        [] p.k = "agg"    -> IF p.x.group = <<>> THEN Of(input, ScalarAggregate(input.batches, p.x))
                             ELSE IF input.ok THEN aggregated ELSE input
        [] p.k = "sort"   -> Of(input, SortBatches(input.batches, p.x, <<>>))
        [] OTHER          -> IF p.x = 0 THEN [ok |-> TRUE, batches |-> <<>>]
                             ELSE IF fused
                               THEN Of(child, SortBatches(child.batches, p.c[1].x, <<p.x>>))
                             ELSE Of(input, LimitBatches(input.batches, p.x))

Returned(out, max_rows) ==
  IF out.ok THEN [ok |-> TRUE, rows |-> FlattenSeq(BatchSizeLimit(out.batches, max_rows))]
  ELSE [ok |-> FALSE, rows |-> <<>>]

\* build_operator_tree, open, and next until the end
execute_gpu_plan(p, cfg) ==
  IF open(p, cfg) THEN Returned(next(p, cfg), cfg.result_batch_rows)
  ELSE [ok |-> FALSE, rows |-> <<>>]
=============================================================================
