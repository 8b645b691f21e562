------------------------------ MODULE Execution ------------------------------
(***************************************************************************)
(* What the two execution backends share: the value of a typed expression  *)
(* on a row, the rows of a scan and the joining, grouping and sorting of   *)
(* rows.  The kernels that do this are Arrow's (CPU) and cudf's (GPU); the *)
(* operators here say what the engine relies on them to do.                *)
(***************************************************************************)
EXTENDS PhysicalPlanner

\* The row's value of a compiled expression.  CASE takes the result of the
\* first condition that is TRUE, the ELSE if there is none, or else NULL.
RECURSIVE Eval(_, _)
Eval(e, row) ==
  LET V(i) == Eval(e.c[i], row)
      T(i) == e.c[i].t
      n == Len(e.c)
      taken == {i \in 1..(n - 1) : i % 2 = 1 /\ V(i) = TRUE}
  IN  CASE e.k = "col"     -> row[e.x + 1]
        [] e.k = "lit"     -> e.x
        [] e.k = "bin"     -> BinaryValue(e.x, T(1), V(1), V(2))
        [] e.k = "un"      -> UnaryValue(e.x, T(1), V(1))
        [] e.k = "cast"    -> CastValue(T(1), e.t, V(1))
        [] e.k = "between" -> BetweenValue(T(1), V(1), V(2), V(3))
        [] e.k = "like"    -> IF V(1) = NULL THEN NULL
                              ELSE (V(1) \in Matches[e.x[1]]) # e.x[2]
        [] e.k = "extract" -> IF V(1) = NULL THEN NULL ELSE Year[V(1)]
        [] e.k = "substr"  -> IF V(1) = NULL THEN NULL ELSE Prefix[V(1)]
        [] OTHER           -> IF taken # {} THEN V(Min(taken) + 1)
                              ELSE IF n % 2 = 1 THEN V(n) ELSE NULL

\* The rows on which the predicate is TRUE
FilterRows(rows, predicate) ==
  SelectSeq(rows, LAMBDA row : Eval(predicate, row) = TRUE)

ProjectRows(rows, items) ==
  [r \in DOMAIN rows |-> [i \in DOMAIN items |-> Eval(items[i].e, rows[r])]]

\* The value of a partition column of the plan's type made of a stored value.
\* A string where a number is expected becomes 0, and the other way round the
\* empty string, which is also 0 here.
PartitionConstant(type, stored) ==
  IF (type = VARCHAR) # (stored[1] = VARCHAR) THEN 0 ELSE stored[2]

\* A row group's rows as the scan produces them: the columns it reads, then
\* the fragment's partition values
GroupRows(scan, frag, g) ==
  LET rows == frag.file.groups[g]
      n == Len(scan.columns)
  IN  [r \in DOMAIN rows |->
         [i \in DOMAIN scan.columns |-> rows[r][scan.columns[i]]]
         \o [k \in DOMAIN frag.pv |-> PartitionConstant(scan.schema[n + k].type, frag.pv[k])]]

\* Every file of the scan opens with the credentials of the scan's store
ScanOpens(scan) == \A f \in DOMAIN scan.frags : Opens(scan.store, scan.frags[f].file)

\* The row groups of a scan in order: fragment by fragment, each one's
\* selected row groups
ScanGroups(scan) ==
  FlattenSeq([f \in DOMAIN scan.frags |->
    LET frag == scan.frags[f]
        gs == SelectSeq([g \in DOMAIN frag.file.groups |-> g], LAMBDA g : g \in frag.groups)
    IN  [i \in DOMAIN gs |-> GroupRows(scan, frag, gs[i])]])

\* Whether the join's key and residual match the rows l and r; equal says
\* whether two NULL keys do
Matching(join, l, r, equal) ==
  LET a == l[join.lk + 1]
      b == r[join.rk + 1]
  IN  /\ a = b
      /\ a # NULL \/ equal
      /\ \A i \in DOMAIN join.res : Eval(join.res[i], l \o r) = TRUE

\* What the left row l and the right rows that match it give
Joined(jt, l, partners, width) ==
  CASE jt = "LeftSemi" -> IF partners # <<>> THEN <<l>> ELSE <<>>
    [] jt = "LeftAnti" -> IF partners = <<>> THEN <<l>> ELSE <<>>
    [] jt = "LeftOuter" /\ partners = <<>> -> <<l \o [i \in 1..width |-> NULL]>>
    [] OTHER -> [i \in DOMAIN partners |-> l \o partners[i]]

JoinRows(join, left, right, width, equal) ==
  FlattenSeq([i \in DOMAIN left |->
    Joined(join.jt, left[i], SelectSeq(right, LAMBDA r : Matching(join, left[i], r, equal)), width)])

\* -1, 0 or 1; NULL is greater than any value
KeyOrder(t, x, y) ==
  IF x = NULL \/ y = NULL THEN (IF x = NULL THEN 1 ELSE 0) - (IF y = NULL THEN 1 ELSE 0)
  ELSE Order(t, x, y)

\* Whether row a may come before row b
RECURSIVE SortsBefore(_, _, _)
SortsBefore(keys, a, b) ==
  LET Decided(o) == IF o = 0 THEN SortsBefore(Tail(keys), a, b) ELSE (o < 0) = Head(keys).asc
  IN  \/ keys = <<>>
      \/ Decided(KeyOrder(Head(keys).e.t, Eval(Head(keys).e, a), Eval(Head(keys).e, b)))

\* A stable sort: row i goes before row j if it may not come after it, and
\* rows that tie keep their order
SortRows(rows, keys) ==
  LET Before(i, j) ==
        /\ SortsBefore(keys, rows[i], rows[j])
        /\ SortsBefore(keys, rows[j], rows[i]) => i < j
      Rank(i) == Cardinality({j \in DOMAIN rows : j # i /\ Before(j, i)}) + 1
  IN  [r \in DOMAIN rows |-> rows[CHOOSE i \in DOMAIN rows : Rank(i) = r]]

FirstRows(rows, n) == SubSeq(rows, 1, Min({n, Len(rows)}))

\* The distinct elements of a sequence in the order they first occur
Distinct(s) ==
  FoldLeft(LAMBDA acc, x : IF Contains(acc, x) THEN acc ELSE Append(acc, x), <<>>, s)

\* Every column an expression reads is one of the n its input has
InRange(e, n) == \A x \in ColumnsOf(e) : x < n
=============================================================================
