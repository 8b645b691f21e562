-------------------------- MODULE SubqueryResolver --------------------------
(***************************************************************************)
(* The structural half of src/sql/subquery_resolver.cpp: a top-level       *)
(* EXISTS conjunct of WHERE becomes a semi or anti join step, and a        *)
(* comparison with a correlated scalar subquery becomes a join with a      *)
(* grouped derived table.  The other half, which runs a subquery and puts  *)
(* its result in its place, is in QueryEngine, since it needs the engine.  *)
(***************************************************************************)
EXTENDS Ast, TLC

\* No name to correlate a subquery of WHERE by: both rewrites do nothing
NoOuterAlias(stmt) ==
  \/ stmt.where = <<>>
  \/ stmt.sub # <<>>
  \/ stmt.join = <<>> /\ stmt.from.alias = ""

\* steps appended to the statement's JOIN clause, which is made of its FROM
\* if it has none, and its WHERE replaced by the conjunction of conjuncts
WithSteps(stmt, steps, conjuncts) ==
  LET join == IF stmt.join # <<>> THEN stmt.join[1]
              ELSE [first |-> stmt.from, steps |-> <<>>]
  IN  IF steps = <<>> THEN stmt
      ELSE [stmt EXCEPT !.join = <<[join EXCEPT !.steps = @ \o steps]>>,
                        !.where = rebuild_and(conjuncts)]

rewrite_exists_subqueries(stmt) ==
  LET Rewritable(e) ==
        /\ e.k = "exists"
        /\ LET sub == e.x.sub
           IN  /\ sub.where # <<>> /\ sub.join = <<>> /\ sub.sub = <<>>
               /\ sub.from.alias # ""
               /\ sub.group = <<>> /\ sub.having = <<>>
               /\ sub.order = <<>> /\ sub.limit = <<>>
      cs == AndConjuncts(stmt.where[1])
      exists == SelectSeq(cs, Rewritable)
      Step(e) == AstJoinStep(e.x.sub.from, e.x.sub.where[1],
                             IF e.x.neg THEN "LeftAnti" ELSE "LeftSemi", <<>>)
  IN  IF NoOuterAlias(stmt) THEN stmt
      ELSE WithSteps(stmt, [i \in DOMAIN exists |-> Step(exists[i])],
                     SelectSeq(cs, LAMBDA e : ~Rewritable(e)))

-----------------------------------------------------------------------------

\* Mutant: a column that is an operand keeps its qualifier
strip_table_qualifier_TopLevelOnly(e) == IF e.k = "col" THEN [e EXCEPT !.x.q = ""] ELSE e

\* A subquery inside the expression keeps its own qualifiers
RECURSIVE strip_table_qualifier(_)
strip_table_qualifier(e) ==
  IF e.k = "col" THEN [e EXCEPT !.x.q = ""]
  ELSE [e EXCEPT !.c = [i \in DOMAIN e.c |-> strip_table_qualifier(e.c[i])]]

outer_aliases(stmt) ==
  (IF stmt.join = <<>> THEN {stmt.from.alias}
   ELSE {stmt.join[1].first.alias}
        \union {stmt.join[1].steps[i].source.alias : i \in DOMAIN stmt.join[1].steps}) \ {""}

\* A comparison with a subquery on exactly one side
match_scalar_subquery_comparison(e) ==
  /\ e.k = "bin"
  /\ e.x \in {"=", "<>", "<", "<=", ">", ">="}
  /\ (e.c[1].k = "subquery") # (e.c[2].k = "subquery")

\* The subquery grouped by the inner sides of its correlation equalities;
\* <<>> if it is of no such shape.  on joins it by the first equality, the
\* other ones (extra) are left to WHERE.
try_decorrelate(inner, outer, id) ==
  LET IsOuter(e) == e.k = "col" /\ e.x.q \in outer
      Correlates(e) == /\ e.k = "bin" /\ e.x = "="
                       /\ e.c[1].k = "col" /\ e.c[2].k = "col"
                       /\ IsOuter(e.c[1]) # IsOuter(e.c[2])
      cs == AndConjuncts(inner.where[1])
      keys == SelectSeq(cs, Correlates)
      rest == SelectSeq(cs, LAMBDA e : ~Correlates(e))
      OuterSide(e) == IF IsOuter(e.c[1]) THEN e.c[1] ELSE e.c[2]
      adapt(e) == IF inner.join = <<>> THEN strip_table_qualifier(e) ELSE e
      InnerSide(e) == adapt(IF IsOuter(e.c[1]) THEN e.c[2] ELSE e.c[1])
      alias == "__corr_subq_" \o ToString(id)
      Key(i) == "__corr_key_" \o ToString(i - 1)
      Equality(i) == AstBinary("=", OuterSide(keys[i]), AstColumnRef(alias, Key(i)))
      derived ==
        [inner EXCEPT
          !.select = [i \in DOMAIN keys |-> with_alias(InnerSide(keys[i]), Key(i))]
                     \o <<with_alias(adapt(inner.select[1]), "__corr_val_0")>>,
          !.where = rebuild_and([i \in DOMAIN rest |-> adapt(rest[i])]),
          !.group = [i \in DOMAIN keys |-> InnerSide(keys[i])]]
  IN  IF \/ Len(inner.select) # 1 \/ inner.where = <<>> \/ inner.sub # <<>>
         \/ inner.group # <<>> \/ inner.having # <<>> \/ inner.order # <<>>
         \/ inner.limit # <<>>
         \/ inner.join = <<>> /\ inner.from.alias = ""
         \/ keys = <<>>
        THEN <<>>
        ELSE <<[step  |-> AstJoinStep(AstParquetSource("", alias), Equality(1), "Inner", <<derived>>),
                extra |-> [i \in 1..(Len(keys) - 1) |-> Equality(i + 1)],
                value |-> AstColumnRef(alias, "__corr_val_0")]>>

rewrite_correlated_scalar_subqueries(stmt) ==
  LET outer == outer_aliases(stmt)
      One(acc, e) ==
        LET right == e.c[2].k = "subquery"
            d == IF match_scalar_subquery_comparison(e)
                   THEN try_decorrelate(IF right THEN e.c[2].x ELSE e.c[1].x, outer, Len(acc.steps))
                   ELSE <<>>
            compared == IF right THEN AstBinary(e.x, e.c[1], d[1].value)
                        ELSE AstBinary(e.x, d[1].value, e.c[2])
        IN  IF d = <<>> THEN [acc EXCEPT !.cs = Append(@, e)]
            ELSE [steps |-> Append(acc.steps, d[1].step), extra |-> acc.extra \o d[1].extra,
                  cs |-> Append(acc.cs, compared)]
      all == FoldLeft(One, [steps |-> <<>>, extra |-> <<>>, cs |-> <<>>],
                      AndConjuncts(stmt.where[1]))
  IN  IF NoOuterAlias(stmt) THEN stmt
      ELSE WithSteps(stmt, all.steps, all.cs \o all.extra)
=============================================================================
