-------------------------------- MODULE Plans --------------------------------
(***************************************************************************)
(* The nodes of logical plans (include/kernellake/planner/logical_plan.hpp *)
(* and logical_planner.cpp) and of physical ones (physical_plan.hpp).  A   *)
(* plan is a record: k its class, x its payload and c its children.        *)
(***************************************************************************)
EXTENDS Integers, Sequences

Plan(k, x, c) == [k |-> k, x |-> x, c |-> c]

\* A failed phase; it stands for the exception the phase throws
ErrPlan(what) == Plan("err", what, <<>>)

-----------------------------------------------------------------------------
(* Logical plans *)

\* parts are the names of the partition columns, the last ones of the schema;
\* until the optimizer narrows it, a scan requires every column
LogicalScan(table, schema, parts) ==
  Plan("scan", [table |-> table, schema |-> schema, parts |-> parts,
                required |-> {schema[i].name : i \in DOMAIN schema},
                pushable |-> <<>>], <<>>)

LogicalJoin(l, r, step) ==
  Plan("join", [lk |-> step.ck, rk |-> step.sk, jt |-> step.jt, res |-> step.res],
       <<l, r>>)
LogicalFilter(child, predicate) == Plan("filter", predicate, <<child>>)
LogicalProjection(child, items) == Plan("proj", items, <<child>>)
LogicalAggregate(child, group, aggs) ==
  Plan("agg", [group |-> group, aggs |-> aggs], <<child>>)
LogicalSort(child, keys) == Plan("sort", keys, <<child>>)
LogicalLimit(child, n) == Plan("limit", n, <<child>>)

-----------------------------------------------------------------------------
(* Physical plans *)

\* A file with the row groups to read of it and its partition values
PhysicalFileFragment(file, groups, pv) == [file |-> file, groups |-> groups, pv |-> pv]

\* columns are the positions read in the files; map says where the columns
\* of the table are in schema; store is what the files are read through
ParquetScanNode(frags, columns, schema, map, store) ==
  Plan("scan", [frags |-> frags, columns |-> columns, schema |-> schema, map |-> map,
                store |-> store], <<>>)

HashJoinNode(l, r, lk, rk, jt, res, map) ==
  Plan("join", [lk |-> lk, rk |-> rk, jt |-> jt, res |-> res, map |-> map], <<l, r>>)

FilterNode(child, predicate) == Plan("filter", predicate, <<child>>)
ProjectionNode(child, items) == Plan("proj", items, <<child>>)
\* HashAggregateNode, or ScalarAggregateNode when group is empty
AggregateNode(child, group, aggs) == Plan("agg", [group |-> group, aggs |-> aggs], <<child>>)
SortNode(child, keys) == Plan("sort", keys, <<child>>)
LimitNode(child, n) == Plan("limit", n, <<child>>)
=============================================================================
