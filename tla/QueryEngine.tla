---------------------------- MODULE QueryEngine ----------------------------
(***************************************************************************)
(* One query from its text to its result (src/api/query_engine.cpp         *)
(* and the two execute functions), with tables that other writers commit   *)
(* to meanwhile.  Subqueries that are not rewritten into joins are run     *)
(* while the query around them is planned.                                 *)
(***************************************************************************)
EXTENDS CpuExecution, GpuExecution, Parser, SqlText, SubqueryResolver, SqlSemantics

CONSTANTS Queries,     \* the statements
          Databases,   \* the states the tables may be in when a query starts
          Commits,     \* what other writers may do: [table, before, after]
          Configs      \* the configurations of the GPU backend

-----------------------------------------------------------------------------
(* Planning *)

AstErr == AstExpr("err", "", <<>>)

\* scalar_to_literal: the literal a subquery's value becomes
scalar_to_literal(v, t) ==
  IF v = NULL THEN AstLiteral("Null", NULL)
  ELSE CASE t = FLOAT64 -> AstLiteral("Float", v)
         [] t = INT64   -> AstLiteral("Integer", v)
         [] t = VARCHAR -> AstLiteral("String", v)
         [] OTHER       -> AstErr

ScanOf(path, table) ==
  IF table.ok THEN LogicalScan(path, table.schema, table.parts) ELSE ErrPlan("StorageError")

\* inspect_source: the scan of a table, whose schema includes the partition
\* columns; there are no predicates yet
inspect_source(path, db) == ScanOf(path, resolve_table_or_delegate(db[path], <<>>))

RECURSIVE run_subquery(_, _)
RECURSIVE plan_logical_unoptimized(_, _)

\* The literal of a result of one column and one row
evaluate_scalar_subquery(r) ==
  IF ~r.ok \/ Len(r.schema) # 1 \/ Len(r.rows) # 1 THEN AstErr
  ELSE scalar_to_literal(r.rows[1][1], r.schema[1].type)

\* The literals of a result of one column
evaluate_list_subquery(r) ==
  IF ~r.ok \/ Len(r.schema) # 1 THEN <<AstErr>>
  ELSE [i \in DOMAIN r.rows |-> scalar_to_literal(r.rows[i][1], r.schema[1].type)]

\* IN over the values of its subquery; over no value it is FALSE, and NOT IN
\* is TRUE
InValues(e, values) ==
  with_alias(IF values = <<>> THEN AstLiteral("Boolean", e.x.neg)
             ELSE AstIn(e.c[1], values, <<>>, e.x.neg), e.as)

IsSubquery(e) == e.k = "subquery"

IsInSubquery(e) == e.k = "in" /\ e.x.sub # <<>>

\* resolve_subqueries: every scalar subquery of an expression replaced by its
\* value.  With lists also resolve_in_subqueries: every IN (SELECT ...)
\* replaced by IN over the list of its values.
RECURSIVE resolve_subqueries(_, _, _)
resolve_subqueries(e, lists, db) ==
  LET inner == [e EXCEPT !.c = [i \in DOMAIN e.c |-> resolve_subqueries(e.c[i], lists, db)]]
      Replaced(r) == IF IsSubquery(e) THEN with_alias(evaluate_scalar_subquery(r), e.as)
                     ELSE InValues(inner, evaluate_list_subquery(r))
  IN  IF IsSubquery(e) \/ (lists /\ IsInSubquery(e))
        THEN Replaced(run_subquery(IF IsSubquery(e) THEN e.x ELSE e.x.sub[1], db))
        ELSE inner

WithFilters(s, filters) == [s EXCEPT !.having = filters.having, !.where = filters.where]

\* HAVING, whose IN lists stay as they are, and WHERE without subqueries
Resolved(s, db) ==
  WithFilters(s, [clause \in {"having", "where"} |->
    [i \in DOMAIN s[clause] |-> resolve_subqueries(s[clause][i], clause = "where", db)]])

\* The plans of a statement's sources
SourcesOf(stmt, db) ==
  LET first == IF stmt.join # <<>> THEN stmt.join[1].first ELSE stmt.from
      derived == IF stmt.join # <<>>
                   THEN <<<<>>>> \o [i \in DOMAIN stmt.join[1].steps |-> stmt.join[1].steps[i].derived]
                 ELSE <<stmt.sub>>
      Path(i) == IF i = 1 THEN first.path ELSE stmt.join[1].steps[i - 1].source.path
  IN  [i \in DOMAIN derived |->
         IF derived[i] # <<>> THEN plan_logical_unoptimized(derived[i][1], db)
         ELSE inspect_source(Path(i), db)]

Built(bound, sources) ==
  IF bound.err THEN ErrPlan("BindingError") ELSE build_logical_plan(bound, sources)

PlanOver(stmt, sources) ==
  IF \E i \in DOMAIN sources : HasErr(sources[i]) THEN ErrPlan("BindingError")
  ELSE Built(bind_query(stmt, [i \in DOMAIN sources |-> output_schema(sources[i])]), sources)

PlanResolved(stmt, db) == PlanOver(stmt, SourcesOf(stmt, db))

\* rewrite, resolve the subqueries left, then bind and plan over the sources
plan_logical_unoptimized(ast, db) ==
  PlanResolved(Resolved(rewrite_correlated_scalar_subqueries(rewrite_exists_subqueries(ast)), db), db)

WithSchema(r, p) ==
  [ok |-> r.ok, rows |-> r.rows, schema |-> IF r.ok THEN PhysicalSchema(p) ELSE <<>>]

RunPlan(p) == WithSchema(execute_physical_plan_cpu(p), p)

\* A subquery always runs on the CPU
run_subquery(stmt, db) ==
  RunPlan(build_physical_plan(optimize(plan_logical_unoptimized(stmt, db)), db))

-----------------------------------------------------------------------------

VARIABLES sql,        \* the statement
          db,         \* the tables
          stage,      \* "start", "planned", "physical" or "done"
          logical,    \* the plan before and after optimize
          physical,   \* the physical plan
          seen,       \* the tables when the logical and the physical plan were built
          result,     \* what execute returned: rows, or an exception
          backend     \* the backend that executed the plan

vars == <<sql, db, stage, logical, physical, seen, result, backend>>

Nothing == Plan("none", "", <<>>)

Init ==
  /\ sql \in Queries
  /\ db \in Databases
  /\ stage = "start"
  /\ logical = [raw |-> Nothing, opt |-> Nothing]
  /\ physical = Nothing
  /\ seen = [logical |-> db, physical |-> db]
  /\ result = [ok |-> FALSE, rows |-> <<>>]
  /\ backend = "none"

WithOptimized(raw) == [raw |-> raw, opt |-> optimize(raw)]

plan_logical ==
  /\ stage = "start"
  /\ stage' = "planned"
  /\ logical' = WithOptimized(plan_logical_unoptimized(parse_sql(Text(sql)), db))
  /\ seen' = [seen EXCEPT !.logical = db]
  /\ UNCHANGED <<sql, db, physical, result, backend>>

explain ==
  /\ stage = "planned"
  /\ logical.opt.k # "err"
  /\ stage' = "physical"
  /\ physical' = build_physical_plan(logical.opt, db)
  /\ seen' = [seen EXCEPT !.physical = db]
  /\ UNCHANGED <<sql, db, logical, result, backend>>

execute_cpu ==
  /\ stage = "physical"
  /\ stage' = "done"
  /\ backend' = "cpu"
  /\ result' = execute_physical_plan_cpu(physical)
  /\ UNCHANGED <<sql, db, logical, physical, seen>>

execute_gpu(cfg) ==
  /\ stage = "physical"
  /\ stage' = "done"
  /\ backend' = "gpu"
  /\ result' = execute_gpu_plan(physical, cfg)
  /\ UNCHANGED <<sql, db, logical, physical, seen>>

\* Another writer commits to a table
Commit(c) ==
  /\ stage \in {"start", "planned"}
  /\ db[c.table] = c.before
  /\ db' = [db EXCEPT ![c.table] = c.after]
  /\ UNCHANGED <<sql, stage, logical, physical, seen, result, backend>>

Next ==
  \/ plan_logical
  \/ explain
  \/ execute_cpu
  \/ \E cfg \in Configs : execute_gpu(cfg)
  \/ \E c \in Commits : Commit(c)

Spec == Init /\ [][Next]_vars

-----------------------------------------------------------------------------

\* A statement some subquery of which is run to plan it
RECURSIVE RunsSubquery(_)
RunsSubquery(e) == \/ IsSubquery(e)
                   \/ IsInSubquery(e)
                   \/ \E i \in DOMAIN e.c : RunsSubquery(e.c[i])

ReadsTwice(stmt) == LET filters == stmt.where \o stmt.having
                    IN  \E i \in DOMAIN filters : RunsSubquery(filters[i])

\* The tables had the same schemas, and for a statement that runs subqueries
\* the same rows, when the logical and when the physical plan was built
Consistent ==
  /\ \A path \in DOMAIN db : Table(seen.logical[path]).schema = Table(seen.physical[path]).schema
  /\ seen.logical = seen.physical \/ ~ReadsTwice(sql)

AllReadable(tables) == \A path \in DOMAIN tables : Readable(tables[path])

SameBag(r, s) ==
  \A row \in ToSet(r) \union ToSet(s) :
    Cardinality({i \in DOMAIN r : r[i] = row}) = Cardinality({i \in DOMAIN s : s[i] = row})

\* The column references in an expression
RECURSIVE ColumnNodes(_)
ColumnNodes(e) == IF e.k = "col" THEN {e} ELSE UNION {ColumnNodes(e.c[i]) : i \in DOMAIN e.c}

Correct == Acceptable(sql, seen.physical, output_schema(logical.raw), result.rows)

\* A NULL is a group-by key of some row, or a join key on both sides
RECURSIVE NullKeyed(_)
NullKeyed(p) ==
  LET NullIn(q, exprs) == \E row \in ToSet(translate(q)), j \in DOMAIN exprs :
                            Eval(exprs[j], row) = NULL
      KeysOn(i) == IF p.k = "agg" THEN [j \in DOMAIN p.x.group |-> p.x.group[j].e]
                   ELSE <<Column("", IF i = 1 THEN p.x.lk ELSE p.x.rk, INT64)>>
  IN  \/ p.k \in {"agg", "join"} /\ \A i \in DOMAIN p.c : NullIn(p.c[i], KeysOn(i))
      \/ \E i \in DOMAIN p.c : NullKeyed(p.c[i])

\* Every scan reads some column that is in its files
RECURSIVE ReadsColumns(_)
ReadsColumns(p) == /\ p.k = "scan" => p.x.columns # <<>>
                   /\ \A i \in DOMAIN p.c : ReadsColumns(p.c[i])

\* What the CPU backend returns is what SQL says the statement means over the
\* tables as they were when the files were listed: parsing, table resolution,
\* binding, planning, constant folding, filter push-down, the pruning of
\* columns, partitions and row groups, the choice of the join's build side and
\* execution together change nothing.  A table that cannot be read correctly
\* is an error and never a result.
CpuCorrect ==
  stage = "done" /\ backend = "cpu" /\ Consistent =>
    /\ AllReadable(seen.physical) => result.ok
    /\ result.ok => Correct

\* The same of the GPU backend, for every way the operators cut the rows into
\* batches and partitions, where it runs the plan at all, where no NULL is a
\* key and where every scan reads a column of its files: the backends differ
\* of NULL keys and of scans of partition columns only (BackendsAgree).
GpuCorrect ==
  /\ stage = "done" /\ backend = "gpu" /\ result.ok
  /\ Consistent /\ ~NullKeyed(physical) /\ ReadsColumns(physical)
  => Correct

\* A supported statement is planned: no rewriting of a subquery, no claim of a
\* source by the parser and no check of the binder refuses it, whatever is in
\* the tables.
Planned == stage = "planned" /\ AllReadable(seen.logical) => logical.opt.k # "err"

RECURSIVE ColumnsAgreeIn(_)
ColumnsAgreeIn(p) ==
  LET input == IF p.k = "join" THEN PhysicalSchema(p.c[1]) \o PhysicalSchema(p.c[2])
               ELSE PhysicalSchema(p.c[1])
      Of(items) == [i \in DOMAIN items |-> items[i].e]
      exprs == CASE p.k = "filter" -> <<p.x>>
                 [] p.k \in {"proj", "sort"} -> Of(p.x)
                 [] p.k = "agg"  -> Of(p.x.group \o p.x.aggs)
                 [] p.k = "join" -> p.x.res
                 [] OTHER -> <<>>
  IN  /\ \A i \in DOMAIN exprs : \A col \in ColumnNodes(exprs[i]) :
           col.x < Len(input) /\ input[col.x + 1] = Field(col.n, col.t)
      /\ \A i \in DOMAIN p.c : ColumnsAgreeIn(p.c[i])

\* Every column reference left in the physical plan names the column, of the
\* type, that the node below has at that index: remapping after column pruning
\* and after a join's sides were swapped misses no expression.
ColumnsAgree == stage = "physical" /\ physical.k # "err" => ColumnsAgreeIn(physical)

RECURSIVE Scans(_)
Scans(p) == IF p.k = "scan" THEN <<p.x>> ELSE FlattenSeq([i \in DOMAIN p.c |-> Scans(p.c[i])])

\* No row group that convert_scan leaves out, by partition values or by
\* statistics, has a row of which every predicate pushed down to the scan is
\* true: proves_empty holds of a partition or a row group only when it is so,
\* also at the ends of a month and where a column is NULL.
PruningSound ==
  stage = "planned" =>
    \A i \in DOMAIN Scans(logical.opt) :
      LET scan == Scans(logical.opt)[i]
      IN  PrunesSoundly(scan, resolve_table_or_delegate(db[scan.table], <<>>),
                        convert_scan(scan, db))

\* optimize() (optimizer.cpp) changes how a plan runs and never its rows: the
\* plan as built and the plan as optimized return the same bag.
OptimizerPreserves ==
  LET Same(raw, opt) == raw.ok => opt.ok /\ SameBag(raw.rows, opt.rows)
  IN  stage = "physical" /\ sql.limit = <<>> =>
        Same(execute_physical_plan_cpu(build_physical_plan(logical.raw, db)),
             execute_physical_plan_cpu(physical))

\* docs/SQL_COMPATIBILITY.md: both backends produce identical results wherever
\* both support a query shape.  A query of partition columns only does not: a
\* cudf table read without columns has no rows.
BackendsAgree ==
  LET Agree(cpu, gpu) == cpu.ok /\ gpu.ok => SameBag(cpu.rows, gpu.rows)
  IN  stage = "physical" =>
        \A cfg \in Configs :
          Agree(execute_physical_plan_cpu(physical), execute_gpu_plan(physical, cfg))

\* docs/SQL_COMPATIBILITY.md: a derived table is planned exactly as if it were
\* a real source, so a query over one returns what SQL says it returns.
DerivedTableIsASource ==
  stage = "done" /\ backend = "cpu" /\ sql.sub # <<>> => result.ok /\ Correct
=============================================================================
