----------------------------- MODULE Expressions -----------------------------
(***************************************************************************)
(* Typed expressions (include/kernellake/expression/expression.hpp).       *)
(*                                                                         *)
(* Every expression is one record: k is the node's class, x its payload    *)
(* (operator, column index, literal value, ...), n its name (columns       *)
(* only), t its result type and c the sequence of its children.  Giving    *)
(* every class the same shape makes each of the code's tree walks, which   *)
(* visit the classes one by one, a single recursion over c.                *)
(***************************************************************************)
EXTENDS Values, TLC

CONSTANTS Matches,    \* [LIKE pattern -> set of the strings it matches]
          Prefix,     \* [string -> the string SUBSTRING makes of it]
          Year        \* [date -> its EXTRACT(YEAR)]

-----------------------------------------------------------------------------
(* Nodes *)

Node(k, x, t, c) == [k |-> k, x |-> x, n |-> "", t |-> t, c |-> c]

\* Column indexes are 0-based, as in the code
Column(name, index, type) ==
  [k |-> "col", x |-> index, n |-> name, t |-> type, c |-> <<>>]

Literal(value, type) == Node("lit", value, type, <<>>)

Binary(op, l, r, type) == Node("bin", op, type, <<l, r>>)

Unary(op, e, type) == Node("un", op, type, <<e>>)

Cast(e, type) == Node("cast", "", type, <<e>>)

Extract(part, e) == Node("extract", part, INT64, <<e>>)

Substring(e, start, length) == Node("substr", <<start, length>>, VARCHAR, <<e>>)

Between(v, lo, hi) == Node("between", "", BOOL, <<v, lo, hi>>)

Like(v, pattern, negated) == Node("like", <<pattern, negated>>, BOOL, <<v>>)

\* c is w1, t1, w2, t2, ... and, when there is an ELSE, one more child
Case(c, type) == Node("case", "", type, c)

Aggregate(fn, args, type) == Node("agg", fn, type, args)

\* An exception thrown while the node was built
Err(what) == Node("err", what, BOOL, <<>>)

IsErr(e) == e.k = "err"

IsLiteral(e) == e.k = "lit" /\ e.x # NULL

\* structural_key: columns are identified by index, everything else by its
\* class, payload and children; a column's name is not in it
RECURSIVE structural_key(_)
structural_key(e) ==
  ToString(<<e.k, e.x, IF e.k = "cast" THEN e.t ELSE <<>>,
             [i \in DOMAIN e.c |-> structural_key(e.c[i])]>>)

\* to_string: like the key, but a column is its bare name
RECURSIVE to_string(_)
to_string(e) ==
  IF e.k = "col" THEN e.n
  ELSE ToString(<<e.k, e.x, IF e.k = "cast" THEN e.t ELSE <<>>,
                  [i \in DOMAIN e.c |-> to_string(e.c[i])]>>)

\* collect_columns, collect_column_indices
RECURSIVE ColumnsOf(_)
ColumnsOf(e) ==
  IF e.k = "col" THEN {e.x}
  ELSE UNION {ColumnsOf(e.c[i]) : i \in DOMAIN e.c}

\* remap_columns_via: the same tree with every column index i replaced by
\* map[i]
RECURSIVE Reindex(_, _)
Reindex(e, map) ==
  IF e.k = "col" THEN [e EXCEPT !.x = map[e.x]]
  ELSE [e EXCEPT !.c = [i \in DOMAIN e.c |-> Reindex(e.c[i], map)]]

\* collect_conjuncts: the conjuncts of a condition, left to right
RECURSIVE Conjuncts(_)
Conjuncts(e) ==
  IF e.k = "bin" /\ e.x = "AND"
    THEN Conjuncts(e.c[1]) \o Conjuncts(e.c[2])
    ELSE <<e>>

\* conjunction: AND the conjuncts of a non-empty sequence together again
Conjunction(es) ==
  FoldLeft(LAMBDA acc, e : Binary("AND", acc, e, BOOL), Head(es), Tail(es))

-----------------------------------------------------------------------------
(* Aggregates *)

\* The aggregate fn over the argument values of a group's rows (type t);
\* n is the number of rows, which is all COUNT(*) looks at
AggregateValue(fn, t, values, n) ==
  LET vs == SelectSeq(values, LAMBDA v : v # NULL)
      AsQuotient(v) == IF IsQuotient(t) THEN v ELSE <<v, 1>>
      Extreme(op) == vs[CHOOSE i \in DOMAIN vs : \A j \in DOMAIN vs :
                          Holds(op, Order(t, vs[i], vs[j]))]
  IN  CASE fn = "COUNT(*)"       -> n
        [] fn = "COUNT"          -> Len(vs)
        [] fn = "COUNT DISTINCT" -> Cardinality(ToSet(vs))
        [] fn \in {"SUM", "AVG", "MIN", "MAX"} /\ vs = <<>> -> NULL
        [] fn = "SUM" /\ vs # <<>> ->
             FoldLeft(LAMBDA a, v : BinaryValue("+", t, a, v),
                      IF IsQuotient(t) THEN <<0, 1>> ELSE 0, vs)
        [] fn = "AVG" /\ vs # <<>> ->
             QuotArith("/", FoldLeft(LAMBDA a, v : QuotArith("+", a, AsQuotient(v)), <<0, 1>>, vs),
                       <<Len(vs), 1>>)
        [] OTHER -> Extreme(IF fn = "MIN" THEN "<=" ELSE ">=")
=============================================================================
