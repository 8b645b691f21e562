---------------------------- MODULE CpuExecution ----------------------------
(***************************************************************************)
(* The CPU backend (src/execution_cpu): a physical plan translated to a    *)
(* tree of Acero declarations, which Acero runs.                           *)
(***************************************************************************)
EXTENDS Execution

\* literal_to_arrow_datum succeeds: a literal DECIMAL has no Arrow scalar
literal_to_arrow_datum(e) == e.x = NULL \/ e.t[1] # "DECIMAL"

\* compile_expression_cpu succeeds
RECURSIVE compile_expression_cpu(_)
compile_expression_cpu(e) ==
  /\ e.k # "agg"
  /\ e.k = "lit" => literal_to_arrow_datum(e)
  /\ ~(e.k = "cast" /\ e.t[1] \in {"DECIMAL", "STRING"})
  /\ \A i \in DOMAIN e.c : compile_expression_cpu(e.c[i])

-----------------------------------------------------------------------------
(* Acero aggregates can name their input columns only, so a projection     *)
(* below the aggregate computes every key and argument under some name.    *)

NoInput == [slots |-> <<>>, at |-> <<>>, ids |-> 0, ok |-> TRUE]

ClaimedNames(plan) == {plan.slots[i].name : i \in {j \in DOMAIN plan.slots : plan.slots[j].claim}}

next_synthetic_name(plan) == "__kernellake_agg_input_" \o ToString(plan.ids)

\* Mutant: a column whose name is taken counts as projected
ensure_column_projected_ByName(plan, e) ==
  LET at == Append(plan.at, [x |-> e.x, name |-> e.n])
  IN  IF e.n \in ClaimedNames(plan) THEN [plan EXCEPT !.at = at]
      ELSE [plan EXCEPT !.slots = Append(@, [name |-> e.n, e |-> e, claim |-> TRUE]), !.at = at]

\* ensure_column_projected: a column is projected once, under its own name
\* unless a column at another position has taken it
ensure_column_projected(plan, e) ==
  LET taken == e.n \in ClaimedNames(plan)
      name == IF taken THEN next_synthetic_name(plan) ELSE e.n
  IN  IF \E i \in DOMAIN plan.at : plan.at[i].x = e.x THEN plan
      ELSE [slots |-> Append(plan.slots, [name |-> name, e |-> e, claim |-> TRUE]),
            at |-> Append(plan.at, [x |-> e.x, name |-> name]),
            ids |-> plan.ids + (IF taken THEN 1 ELSE 0), ok |-> plan.ok]

\* The name a plain column was projected under
NameOf(plan, e) == plan.at[SelectInSeq(plan.at, LAMBDA s : s.x = e.x)].name

\* A GROUP BY key: a computed one goes by its output name, and a clash with
\* a name already taken is a PlanningError
ProjectKey(plan, item) ==
  IF item.e.k = "col" THEN ensure_column_projected(plan, item.e)
  ELSE [plan EXCEPT !.slots = Append(@, [name |-> item.name, e |-> item.e, claim |-> TRUE]),
                    !.ok = @ /\ item.name \notin ClaimedNames(plan)]

\* resolve_aggregate_target: a computed argument gets a synthetic name; the
\* name each aggregate's argument has is recorded in targets
ProjectTarget(acc, item) ==
  LET plan == acc.plan
      arg == item.e.c[1]
      p == IF arg.k = "col" THEN ensure_column_projected(plan, arg)
           ELSE [plan EXCEPT !.slots = Append(@, [name |-> next_synthetic_name(plan),
                                                  e |-> arg, claim |-> FALSE]),
                             !.ids = @ + 1]
      name == IF arg.k = "col" THEN NameOf(p, arg) ELSE next_synthetic_name(plan)
  IN  IF item.e.c = <<>> THEN [acc EXCEPT !.targets = Append(@, "")]
      ELSE [plan |-> p, targets |-> Append(acc.targets, name)]

\* The projection, the names of the keys and those of the arguments
AggregateInputPlan(group, aggs) ==
  LET keyed == FoldLeft(ProjectKey, NoInput, group)
      all == FoldLeft(ProjectTarget, [plan |-> keyed, targets |-> <<>>], aggs)
  IN  [slots |-> all.plan.slots, ok |-> all.plan.ok, targets |-> all.targets,
       keys |-> [i \in DOMAIN group |-> IF group[i].e.k = "col" THEN NameOf(keyed, group[i].e)
                                        ELSE group[i].name]]

\* args are the aggregates' arguments, keys the rows' keys
AggregateGroups(p, args, rows, keys) ==
  LET groups == IF p.x.group = <<>> THEN << <<>> >> ELSE Distinct(keys)
      Agg(i, members) ==
        IF args[i] = <<>> THEN Len(members)
        ELSE AggregateValue(p.x.aggs[i].e.x, args[i][1].t,
                            [m \in DOMAIN members |-> Eval(args[i][1], rows[members[m]])],
                            Len(members))
      Row(key, members) == key \o [i \in DOMAIN args |-> Agg(i, members)]
  IN  [k \in DOMAIN groups |->
         Row(groups[k], SelectSeq([r \in DOMAIN rows |-> r], LAMBDA r : keys[r] = groups[k]))]

\* Keys and arguments are looked up by the names input gives them
AggregateOver(p, rows, input) ==
  LET At(name) == input.slots[SelectInSeq(input.slots, LAMBDA s : s.name = name)].e
      aggs == p.x.aggs
  IN  AggregateGroups(p, [i \in DOMAIN aggs |-> IF aggs[i].e.c = <<>> THEN <<>>
                                                ELSE <<At(input.targets[i])>>],
                      rows, [r \in DOMAIN rows |-> [i \in DOMAIN input.keys |->
                                                     Eval(At(input.keys[i]), rows[r])]])

\* The aggregate node over the projected rows: NULL keys form a group; with
\* no key there is one group, also of no row
AggregateRows(p, rows) == AggregateOver(p, rows, AggregateInputPlan(p.x.group, p.x.aggs))

-----------------------------------------------------------------------------

\* Acero's notion of an ordered stream, which fetch requires of its input
RECURSIVE Ordered(_)
Ordered(p) ==
  \/ p.k \in {"scan", "sort", "limit"}
  \/ p.k \in {"filter", "proj"} /\ Ordered(p.c[1])

\* translate and the validation Acero does of the declarations succeed
RECURSIVE translate_ok(_)
translate_ok(p) ==
  LET n == Len(PhysicalSchema(p.c[1]))
      Ok(e, w) == compile_expression_cpu(e) /\ InRange(e, w)
      AllOk(items) == \A i \in DOMAIN items : Ok(items[i].e, n)
      OkArgs(a) == a.k = "agg" /\ \A i \in DOMAIN a.c : Ok(a.c[i], n)
  IN  /\ \A i \in DOMAIN p.c : translate_ok(p.c[i])
      /\ CASE p.k = "scan"   -> ScanOpens(p.x)
           [] p.k = "filter" -> Ok(p.x, n)
           [] p.k = "proj"   -> AllOk(p.x)
           [] p.k = "sort"   -> AllOk(p.x) /\ \A i \in DOMAIN p.x : p.x[i].e.k = "col"
           [] p.k = "limit"  -> Ordered(p.c[1])
           [] p.k = "agg"    -> /\ AllOk(p.x.group)
                                /\ \A i \in DOMAIN p.x.aggs : OkArgs(p.x.aggs[i].e)
                                /\ AggregateInputPlan(p.x.group, p.x.aggs).ok
           [] p.k = "join"   -> \A i \in DOMAIN p.x.res :
                                  Ok(p.x.res[i], n + Len(PhysicalSchema(p.c[2])))
           [] OTHER          -> p.k # "err"

\* translate: the rows the declaration of p produces
RECURSIVE translate(_)
translate(p) ==
  LET rows == translate(p.c[1])
  IN  CASE p.k = "scan"   -> FlattenSeq(ScanGroups(p.x))
        [] p.k = "join"   -> JoinRows(p.x, rows, translate(p.c[2]),
                                      Len(PhysicalSchema(p.c[2])), FALSE)
        [] p.k = "filter" -> FilterRows(rows, p.x)
        [] p.k = "proj"   -> ProjectRows(rows, p.x)
        [] p.k = "agg"    -> AggregateRows(p, rows)
        [] p.k = "sort"   -> SortRows(rows, p.x)
        [] OTHER          -> FirstRows(rows, p.x)

\* The result of a query: its rows, or the exception that took their place
execute_physical_plan_cpu(p) ==
  IF translate_ok(p) THEN [ok |-> TRUE, rows |-> translate(p)]
  ELSE [ok |-> FALSE, rows |-> <<>>]
=============================================================================
