-------------------------------- MODULE Ast --------------------------------
(***************************************************************************)
(* The untyped syntax tree (include/kernellake/sql/ast.hpp) that the       *)
(* parser produces, the subquery rewriter rewrites and the binder types.   *)
(* A node is a record: k its class, x its payload, c its sub-expressions   *)
(* and as its alias ("" if it has none).  An optional part of a statement  *)
(* is a sequence of length 0 or 1.                                         *)
(***************************************************************************)
EXTENDS Integers, Sequences, SequencesExt

AstExpr(k, x, c) == [k |-> k, x |-> x, c |-> c, as |-> ""]

AstColumnRef(table, name) == AstExpr("col", [n |-> name, q |-> table], <<>>)
AstStar == AstExpr("star", "", <<>>)
AstLiteral(kind, v) == AstExpr("lit", [kind |-> kind, v |-> v], <<>>)
AstBinary(op, l, r) == AstExpr("bin", op, <<l, r>>)
AstUnary(op, e) == AstExpr("un", op, <<e>>)
AstBetween(v, lo, hi) == AstExpr("between", "", <<v, lo, hi>>)
AstAggregate(fn, args) == AstExpr("agg", fn, args)
AstLike(v, pattern, negated) == AstExpr("like", negated, <<v, pattern>>)
\* c is the value followed by the list; sub holds the SELECT of IN (SELECT ..)
AstIn(v, list, sub, negated) ==
  AstExpr("in", [neg |-> negated, sub |-> sub], <<v>> \o list)
\* c is WHEN, THEN, WHEN, THEN, ... and the ELSE if there is one
AstCase(c) == AstExpr("case", "", c)
AstCast(e, ty, p, s) == AstExpr("cast", [ty |-> ty, p |-> p, s |-> s], <<e>>)
AstExtract(field, e) == AstExpr("extract", field, <<e>>)
AstSubstring(e, start, length) ==
  AstExpr("substr", [start |-> start, length |-> length], <<e>>)
AstSubquery(stmt) == AstExpr("subquery", stmt, <<>>)
AstExists(stmt, negated) == AstExpr("exists", [neg |-> negated, sub |-> stmt], <<>>)

\* The node's alias replaced (with_alias of the rewriter, AS of the parser)
with_alias(e, alias) == [e EXCEPT !.as = alias]

AstParquetSource(path, alias) == [path |-> path, alias |-> alias]

AstJoinStep(source, condition, jt, derived) ==
  [source |-> source, on |-> condition, jt |-> jt, derived |-> derived]

\* SELECT list FROM source, every clause that is left out empty
AstSelectStatement(list, source) ==
  [select |-> list, from |-> source, join |-> <<>>, sub |-> <<>>,
   where |-> <<>>, group |-> <<>>, having |-> <<>>, order |-> <<>>,
   limit |-> <<>>]

\* Joins that put no column of their right side in the result
IsSemi(jt) == jt \in {"LeftSemi", "LeftAnti"}

\* collect_and_conjuncts, left to right
RECURSIVE AndConjuncts(_)
AndConjuncts(e) ==
  IF e.k = "bin" /\ e.x = "AND"
    THEN AndConjuncts(e.c[1]) \o AndConjuncts(e.c[2])
    ELSE <<e>>

\* rebuild_and: nothing for no conjunct, their conjunction otherwise
rebuild_and(es) ==
  IF es = <<>> THEN <<>>
  ELSE <<FoldLeft(LAMBDA acc, e : AstBinary("AND", acc, e), Head(es), Tail(es))>>
=============================================================================
