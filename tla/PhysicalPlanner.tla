--------------------------- MODULE PhysicalPlanner ---------------------------
(***************************************************************************)
(* From a logical to a physical plan (src/io/physical_planner.cpp);        *)
(* ScanPlanning has the conversion of its scans.                           *)
(***************************************************************************)
EXTENDS Optimizer, ScanPlanning

-----------------------------------------------------------------------------
(* Remapping of columns: map[i + 1] is where column i went, -1 if pruned *)

Mapped(map, x) == IF x < Len(map) THEN map[x + 1] ELSE -1

\* remap_columns: Err stands for its PlanningError
remap_columns(e, map) ==
  IF \E x \in ColumnsOf(e) : Mapped(map, x) < 0 THEN Err("column was pruned")
  ELSE Reindex(e, [x \in ColumnsOf(e) |-> Mapped(map, x)])

remap_named(items, map) ==
  [i \in DOMAIN items |-> [items[i] EXCEPT !.e = remap_columns(@, map)]]

\* The schema a physical node produces; a join's is that of its children in
\* their physical order
RECURSIVE PhysicalSchema(_)
PhysicalSchema(p) ==
  CASE p.k = "scan" -> p.x.schema
    [] p.k = "join" -> IF IsSemi(p.x.jt) THEN PhysicalSchema(p.c[1])
                       ELSE PhysicalSchema(p.c[1]) \o PhysicalSchema(p.c[2])
    [] p.k = "proj" -> NamedFields(p.x)
    [] p.k = "agg"  -> NamedFields(p.x.group \o p.x.aggs)
    [] OTHER        -> PhysicalSchema(p.c[1])

\* find_scan_boundary: the map expressions above p are restated by.  The
\* first scan or join below gives its own; a projection or an aggregate is
\* taken to be a whole subquery, whose columns are where they were.
RECURSIVE find_scan_boundary(_)
find_scan_boundary(p) ==
  CASE p.k \in {"scan", "join"} -> p.x.map
    [] p.k \in {"proj", "agg"}  -> [i \in DOMAIN PhysicalSchema(p) |-> i - 1]
    [] OTHER                    -> find_scan_boundary(p.c[1])

\* Whether the expressions of a node over p are about the scan's columns
RECURSIVE references_scan_schema(_)
references_scan_schema(p) ==
  CASE p.k \in {"sort", "limit"} -> references_scan_schema(p.c[1])
    [] p.k = "filter"            -> p.c[1].k # "agg"
    [] OTHER                     -> p.k \in {"scan", "join"}

is_identity_projection(items, schema) ==
  /\ Len(items) = Len(schema)
  /\ \A i \in DOMAIN items : /\ items[i].e.k = "col"
                             /\ items[i].e.x = i - 1
                             /\ items[i].name = schema[i].name

-----------------------------------------------------------------------------
(* Row-count estimates, for the choice of the side a join builds on *)

\* A fraction <<n, d>>
RECURSIVE estimate_selectivity(_)
estimate_selectivity(e) ==
  LET a == estimate_selectivity(e.c[1])
      b == estimate_selectivity(e.c[2])
  IN  CASE e.k = "bin" /\ e.x = "AND" -> <<a[1] * b[1], a[2] * b[2]>>
        [] e.k = "bin" /\ e.x = "OR"  -> <<a[1] * b[2] + b[1] * a[2] - a[1] * b[1],
                                           a[2] * b[2]>>
        [] e.k = "bin" /\ e.x = "="   -> <<1, 10>>
        [] e.k = "bin" /\ e.x = "<>"  -> <<9, 10>>
        [] e.k = "bin" /\ e.x \in {"<", "<=", ">", ">="} -> <<33, 100>>
        [] e.k \in {"between", "like"} -> <<1, 4>>
        [] e.k = "un" /\ e.x = "NOT" -> <<a[2] - a[1], a[2]>>
        [] e.k = "un" /\ e.x = "IS NULL" -> <<1, 20>>
        [] e.k = "un" /\ e.x = "IS NOT NULL" -> <<19, 20>>
        [] OTHER -> <<1, 1>>

FileRows(file) == FoldLeft(LAMBDA n, g : n + Len(g), 0, file.groups)

RECURSIVE estimate_row_count(_)
estimate_row_count(p) ==
  CASE p.k = "scan"   -> FoldLeft(LAMBDA n, f : n + FileRows(f.file), 0, p.x.frags)
    [] p.k = "filter" -> LET s == estimate_selectivity(p.x)
                         IN  (2 * estimate_row_count(p.c[1]) * s[1] + s[2]) \div (2 * s[2])
    [] p.k = "join"   -> Max({estimate_row_count(p.c[1]), estimate_row_count(p.c[2])})
    [] OTHER          -> estimate_row_count(p.c[1])

-----------------------------------------------------------------------------
(* Conversion *)

Shifted(map, by) == [i \in DOMAIN map |-> IF map[i] < 0 THEN -1 ELSE map[i] + by]

\* A residual reads left columns, then right ones; nl is the width of the
\* converted left side
remap_join_residual_predicate(e, lmap, rmap, nl) ==
  remap_columns(e, lmap \o Shifted(rmap, nl))

\* Mutant: as if the sides had not changed places
combined_column_map_ForgetsSwap(lmap, rmap, nl, nr, jt, swap) ==
  lmap \o (IF IsSemi(jt) THEN <<>> ELSE Shifted(rmap, nl))

\* Where the columns of the left and then of the right side are in the join's
\* output, whose left side has nl and whose right side nr columns; a semi or
\* anti join has the columns of the left side only
combined_column_map(lmap, rmap, nl, nr, jt, swap) ==
  Shifted(lmap, IF swap THEN nr ELSE 0)
  \o (IF IsSemi(jt) THEN <<>> ELSE Shifted(rmap, IF swap THEN 0 ELSE nl))

\* lmap and rmap say where the columns of l and r went
JoinOf(join, l, r, lmap, rmap, swap) ==
  LET lk == Mapped(lmap, join.lk)
      rk == Mapped(rmap, join.rk)
      nl == Len(PhysicalSchema(l))
      nr == Len(PhysicalSchema(r))
      map == combined_column_map(lmap, rmap, nl, nr, join.jt, swap)
      res == [i \in DOMAIN join.res |->
                remap_join_residual_predicate(join.res[i], lmap, rmap, nl)]
  IN  IF lk < 0 \/ rk < 0 \/ Errors(res) # <<>> THEN ErrPlan("join column pruned")
      ELSE IF swap THEN HashJoinNode(r, l, rk, lk, join.jt, res, map)
      ELSE HashJoinNode(l, r, lk, rk, join.jt, res, map)

\* Keys and residual restated over the pruned children.  An inner join whose
\* left side is estimated the smaller one has its sides swapped, so that the
\* smaller is built on; map says where the columns of the original order are.
convert_join(join, l, r) ==
  JoinOf(join, l, r, find_scan_boundary(l), find_scan_boundary(r),
         join.jt = "Inner" /\ estimate_row_count(l) < estimate_row_count(r))

\* The items of the node p, restated over its converted child
RemapOver(p, child, items) ==
  IF references_scan_schema(p.c[1]) THEN remap_named(items, find_scan_boundary(child))
  ELSE items

\* The items restated and the converted child they are over; a projection that
\* changes nothing is left out
ConvertedNode(p, child, items) ==
  LET n == Len(p.x.group)
  IN  IF \E i \in DOMAIN items : IsErr(items[i].e) THEN ErrPlan("column was pruned")
      ELSE CASE p.k = "filter" -> FilterNode(child, items[1].e)
             [] p.k = "proj"   -> IF is_identity_projection(items, PhysicalSchema(child)) THEN child
                                  ELSE ProjectionNode(child, items)
             [] p.k = "agg"    -> AggregateNode(child, SubSeq(items, 1, n),
                                                SubSeq(items, n + 1, Len(items)))
             [] OTHER          -> SortNode(child, items)

convert_filter(p, child) == ConvertedNode(p, child, RemapOver(p, child, <<[e |-> p.x]>>))
convert_projection(p, child) == ConvertedNode(p, child, RemapOver(p, child, p.x))
convert_aggregate(p, child) == ConvertedNode(p, child, RemapOver(p, child, p.x.group \o p.x.aggs))
convert_sort(p, child) == ConvertedNode(p, child, RemapOver(p, child, p.x))

\* cs are the converted children
ConvertOver(p, cs, db) ==
  LET bad == SelectInSeq(cs, LAMBDA q : q.k = "err")
  IN  IF bad # 0 THEN cs[bad]
      ELSE CASE p.k = "err"    -> p
             [] p.k = "scan"   -> convert_scan(p.x, db)
             [] p.k = "join"   -> convert_join(p.x, cs[1], cs[2])
             [] p.k = "filter" -> convert_filter(p, cs[1])
             [] p.k = "proj"   -> convert_projection(p, cs[1])
             [] p.k = "agg"    -> convert_aggregate(p, cs[1])
             [] p.k = "sort"   -> convert_sort(p, cs[1])
             [] OTHER          -> LimitNode(cs[1], p.x)

RECURSIVE convert(_, _)
convert(p, db) == ConvertOver(p, [i \in DOMAIN p.c |-> convert(p.c[i], db)], db)

build_physical_plan(p, db) == convert(p, db)
=============================================================================
