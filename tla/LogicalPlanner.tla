--------------------------- MODULE LogicalPlanner ---------------------------
(***************************************************************************)
(* How logical plans (Plans) are built from a bound query                  *)
(* (src/planner/logical_planner.cpp).                                      *)
(***************************************************************************)
EXTENDS Binder, Plans

NamedFields(items) == [i \in DOMAIN items |-> Field(items[i].name, items[i].e.t)]

\* Every node's output_schema
RECURSIVE output_schema(_)
output_schema(p) ==
  CASE p.k = "scan" -> p.x.schema
    [] p.k = "join" -> IF IsSemi(p.x.jt) THEN output_schema(p.c[1])
                       ELSE output_schema(p.c[1]) \o output_schema(p.c[2])
    [] p.k = "proj" -> NamedFields(p.x)
    [] p.k = "agg"  -> NamedFields(p.x.group \o p.x.aggs)
    [] p.k = "err"  -> <<>>
    [] OTHER        -> output_schema(p.c[1])

-----------------------------------------------------------------------------

\* Every aggregate of an expression, left to right
RECURSIVE AggregatesIn(_)
AggregatesIn(e) ==
  IF e.k = "agg" THEN <<e>>
  ELSE FlattenSeq([i \in DOMAIN e.c |-> AggregatesIn(e.c[i])])

\* The position (1-based) of the expression with the key of e, 0 if none
Position(items, e) ==
  SelectInSeq(items, LAMBDA it : structural_key(it.e) = structural_key(e))

\* register_aggregate: an aggregate is computed once, under the name it had
\* when it was first met; one that is not itself an output gets a fresh name
register_aggregate(aggs, e, name) ==
  IF Position(aggs, e) # 0 THEN aggs
  ELSE Append(aggs, [e |-> e, name |-> IF name # "" THEN name
                                       ELSE "__kernellake_agg_" \o ToString(Len(aggs))])

\* The slots of a query's Aggregate node: those of the SELECT list, then
\* those only HAVING uses
AggregateSlots(query) ==
  LET Slots(e, name) ==
        IF e.k = "agg" THEN <<[e |-> e, name |-> name]>>
        ELSE [i \in DOMAIN AggregatesIn(e) |-> [e |-> AggregatesIn(e)[i], name |-> ""]]
      all == FlattenSeq([i \in DOMAIN query.select |->
                           Slots(query.select[i].e, query.select[i].name)])
             \o FlattenSeq([i \in DOMAIN query.having |->
                  [j \in DOMAIN AggregatesIn(query.having[i]) |->
                     [e |-> AggregatesIn(query.having[i])[j], name |-> ""]]])
  IN  FoldLeft(LAMBDA acc, s : register_aggregate(acc, s.e, s.name), <<>>, all)

\* An expression over the rows below an Aggregate node restated over its
\* output: a group key or an aggregate becomes the column that holds it.  A
\* column that is neither stays as it is.
RECURSIVE rewrite_aggregate_refs(_, _, _)
rewrite_aggregate_refs(e, group, aggs) ==
  LET g == Position(group, e)
      a == Position(aggs, e)
  IN  IF g # 0 THEN Column(group[g].name, g - 1, e.t)
      ELSE IF e.k = "agg" THEN Column(aggs[a].name, Len(group) + a - 1, e.t)
      ELSE [e EXCEPT !.c = [i \in DOMAIN e.c |->
                              rewrite_aggregate_refs(e.c[i], group, aggs)]]

\* Filter, Sort and Projection for a plain query; Filter, Aggregate, HAVING
\* as a Filter, Projection and Sort on its output for an aggregate one; Limit
finish_logical_plan(source, query) ==
  LET filtered == IF query.where = <<>> THEN source
                  ELSE LogicalFilter(source, query.where[1])
      Sorted(p) == IF query.order = <<>> THEN p ELSE LogicalSort(p, query.order)
      group == [i \in DOMAIN query.group |->
                  [e |-> query.group[i], name |-> to_string(query.group[i])]]
      aggs == AggregateSlots(query)
      Over(e) == IF e.k = "agg" THEN Column(aggs[Position(aggs, e)].name,
                                            Len(group) + Position(aggs, e) - 1, e.t)
                 ELSE rewrite_aggregate_refs(e, group, aggs)
      aggregated == LogicalAggregate(filtered, group, aggs)
      having == IF query.having = <<>> THEN aggregated
                ELSE LogicalFilter(aggregated, rewrite_aggregate_refs(query.having[1], group, aggs))
      items == [i \in DOMAIN query.select |->
                  [e |-> Over(query.select[i].e), name |-> query.select[i].name]]
      plan == IF query.agg THEN Sorted(LogicalProjection(having, items))
              ELSE LogicalProjection(Sorted(filtered), query.select)
  IN  IF query.limit = <<>> THEN plan ELSE LogicalLimit(plan, query.limit[1])

\* The plan of a query over the plans of its sources (a scan each, or the
\* plan of a derived table), joined left to right
build_logical_plan(query, sources) ==
  LET Right(i) == IF query.steps[i].pre = <<>> THEN sources[i + 1]
                  ELSE LogicalFilter(sources[i + 1], query.steps[i].pre[1])
      joined == FoldLeft(LAMBDA p, i : LogicalJoin(p, Right(i), query.steps[i]),
                         sources[1], [i \in DOMAIN query.steps |-> i])
  IN  finish_logical_plan(joined, query)
=============================================================================
