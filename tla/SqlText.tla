------------------------------- MODULE SqlText -------------------------------
(***************************************************************************)
(* External: the text of a statement as the hsql library parses it, in the *)
(* form module Parser takes.  Calls gives for a source's path the call     *)
(* [fn, arg] that a FROM clause reads it with.                             *)
(***************************************************************************)
EXTENDS Ast

CONSTANT Calls

Hsql(type, x) ==
  [type |-> type, x |-> x, expr |-> <<>>, expr2 |-> <<>>, list |-> <<>>, sel |-> <<>>, as |-> ""]

-----------------------------------------------------------------------------
(* The paths of a statement's sources in the order of its text, where the  *)
(* FROM clause comes before WHERE and HAVING and only these have           *)
(* subqueries                                                              *)

RECURSIVE PathsOf(_)
RECURSIVE PathsOfStatement(_)

PathsOf(e) ==
  FlattenSeq([i \in DOMAIN e.c |-> PathsOf(e.c[i])])
  \o (CASE e.k = "subquery" -> PathsOfStatement(e.x)
        [] e.k = "exists"   -> PathsOfStatement(e.x.sub)
        [] e.k = "in"       -> FlattenSeq([i \in DOMAIN e.x.sub |-> PathsOfStatement(e.x.sub[i])])
        [] OTHER            -> <<>>)

PathsOfFrom(s) ==
  IF s.join # <<>>
    THEN <<s.join[1].first.path>>
         \o [i \in DOMAIN s.join[1].steps |-> s.join[1].steps[i].source.path]
  ELSE IF s.sub # <<>> THEN PathsOfStatement(s.sub[1])
  ELSE <<s.from.path>>

PathsOfStatement(s) ==
  LET filters == s.where \o s.having
  IN  PathsOfFrom(s) \o FlattenSeq([i \in DOMAIN filters |-> PathsOf(filters[i])])

-----------------------------------------------------------------------------
(* The tree; at is the number of sources that come before in the text *)

RECURSIVE TreeOf(_, _)
RECURSIVE TreeOfStatement(_, _)

\* A CASE all of whose conditions compare the same operand is written with it
IsSimpleCase(e) ==
  LET whens == {i \in 1..(Len(e.c) - 1) : i % 2 = 1}
  IN  \A i \in whens : /\ e.c[i].k = "bin" /\ e.c[i].x = "="
                       /\ e.c[i].c[1] = e.c[1].c[1]

\* c are the trees of the operands, operand that of a simple CASE's and sel
\* that of the subquery, each <<>> if there is none
TreeOver(e, c, operand, sel) ==
  LET n == Len(e.c)
      Op(op) == Hsql("op", op)
      Not(t) == [Op("NOT") EXCEPT !.expr = <<t>>]
      Negate(t, negated) == IF negated THEN Not(t) ELSE t
      IntLit(v) == Hsql("int", [ival |-> v, isBoolLiteral |-> FALSE])
      Fn(fn, distinct, args) == [Hsql("fn", [name |-> fn, distinct |-> distinct]) EXCEPT !.list = args]
      When(i) == [Op("WHEN") EXCEPT !.expr = <<c[i]>>,
                                    !.expr2 = <<c[i + 1]>>]
      tree ==
        CASE e.k = "col"      -> Hsql("col", [table |-> e.x.q, name |-> e.x.n])
          [] e.k = "star"     -> Hsql("star", "")
          [] e.k = "lit"      -> CASE e.x.kind = "Integer" -> IntLit(e.x.v)
                                   [] e.x.kind = "Boolean" ->
                                        Hsql("int", [ival |-> IF e.x.v THEN 1 ELSE 0,
                                                     isBoolLiteral |-> TRUE])
                                   [] OTHER -> Hsql(e.x.kind, e.x.v)
          [] e.k = "bin"      -> [Op(e.x) EXCEPT !.expr = <<c[1]>>, !.expr2 = <<c[2]>>]
          [] e.k = "un"       -> CASE e.x = "IS NOT NULL" -> Not([Op("ISNULL") EXCEPT !.expr = <<c[1]>>])
                                   [] e.x = "IS NULL"     -> [Op("ISNULL") EXCEPT !.expr = <<c[1]>>]
                                   [] OTHER               -> [Op(e.x) EXCEPT !.expr = <<c[1]>>]
          [] e.k = "between"  -> [Op("BETWEEN") EXCEPT !.expr = <<c[1]>>, !.list = Tail(c)]
          [] e.k = "like"     -> [Op(IF e.x THEN "NOT LIKE" ELSE "LIKE") EXCEPT
                                    !.expr = <<c[1]>>, !.expr2 = <<c[2]>>]
          [] e.k = "in"       -> Negate([Op("IN") EXCEPT !.expr = <<c[1]>>, !.list = Tail(c),
                                           !.sel = sel],
                                        e.x.neg)
          [] e.k = "exists"   -> Negate([Op("EXISTS") EXCEPT !.sel = sel], e.x.neg)
          [] e.k = "subquery" -> [Hsql("select", "") EXCEPT !.sel = sel]
          [] e.k = "case"     -> [Op("CASE") EXCEPT
                                    !.expr = operand,
                                    !.list = [i \in 1..(n \div 2) |-> When(2 * i - 1)],
                                    !.expr2 = IF n % 2 = 1 THEN <<c[n]>> ELSE <<>>]
          [] e.k = "cast"     -> [Hsql("cast", e.x) EXCEPT !.expr = <<c[1]>>]
          [] e.k = "extract"  -> [Hsql("extract", e.x) EXCEPT !.expr = <<c[1]>>]
          [] e.k = "substr"   -> Fn("SUBSTRING", FALSE, <<c[1], IntLit(e.x.start), IntLit(e.x.length)>>)
          [] OTHER            -> IF e.x = "COUNT(*)" THEN Fn("COUNT", FALSE, <<Hsql("star", "")>>)
                                 ELSE Fn(IF e.x = "COUNT DISTINCT" THEN "COUNT" ELSE e.x,
                                         e.x = "COUNT DISTINCT", <<c[1]>>)
  IN  [tree EXCEPT !.as = e.as]

TreeOf(e, at) ==
  LET Before(i) == Len(FlattenSeq([j \in 1..(i - 1) |-> PathsOf(e.c[j])]))
      simple == e.k = "case" /\ IsSimpleCase(e)
      subs == CASE e.k = "subquery" -> <<e.x>>
                [] e.k = "exists"   -> <<e.x.sub>>
                [] e.k = "in"       -> e.x.sub
                [] OTHER            -> <<>>
      \* the operands, or of a simple CASE what they are compared with
      Operand(i) == IF simple /\ i % 2 = 1 /\ i < Len(e.c) THEN e.c[i].c[2] ELSE e.c[i]
  IN  TreeOver(e, [i \in DOMAIN e.c |-> TreeOf(Operand(i), at + Before(i))],
               IF simple THEN <<TreeOf(e.c[1].c[1], at)>> ELSE <<>>,
               [i \in DOMAIN subs |-> TreeOfStatement(subs[i], at + Before(Len(e.c) + 1))])

TreeOfStatement(s, at) ==
  LET All(es, k) == [i \in DOMAIN es |-> TreeOf(es[i], k)]
      Name(source, k) == [type |-> "name", name |-> k, alias |-> source.alias]
      JoinTree(t, i) ==
        [type |-> "join", left |-> t, on |-> TreeOf(s.join[1].steps[i].on, at),
         right |-> Name(s.join[1].steps[i].source, at + i + 1),
         jt |-> IF s.join[1].steps[i].jt = "Inner" THEN "INNER" ELSE "LEFT"]
      filtered == at + Len(PathsOfFrom(s))
      grouped == filtered + Len(FlattenSeq([i \in DOMAIN s.where |-> PathsOf(s.where[i])]))
  IN  [select |-> All(s.select, at),
       from |-> IF s.join # <<>>
                  THEN FoldLeft(JoinTree, Name(s.join[1].first, at + 1),
                                [i \in DOMAIN s.join[1].steps |-> i])
                ELSE IF s.sub # <<>>
                  THEN [type |-> "select", sel |-> TreeOfStatement(s.sub[1], at), alias |-> "d"]
                ELSE Name(s.from, at + 1),
       where |-> All(s.where, filtered), group |-> All(s.group, at),
       having |-> All(s.having, grouped),
       order |-> [i \in DOMAIN s.order |-> [e |-> TreeOf(s.order[i].e, at), asc |-> s.order[i].asc]],
       limit |-> s.limit, features |-> {}]

\* The text of a statement
Text(s) ==
  LET CallsOf(paths) == [i \in DOMAIN paths |-> Calls[paths[i]]]
  IN  [calls |-> CallsOf(PathsOfStatement(s)), tree |-> TreeOfStatement(s, 0)]
=============================================================================
