------------------------------- MODULE Parser -------------------------------
(***************************************************************************)
(* From a query's text to its syntax tree (src/sql/parser.cpp).  The text  *)
(* itself is parsed by a library, hsql; the code replaces the calls        *)
(* read_parquet(..), read_delta(..), ... of the FROM clauses by            *)
(* placeholders first and converts the library's tree afterwards.          *)
(*                                                                         *)
(* A text is [calls, tree]: the calls in the order they appear, and the    *)
(* tree hsql builds, in which a table's name is the number of its          *)
(* placeholder.  An hsql expression has a type, a payload x, up to two     *)
(* operands expr and expr2 (sequences of length 0 or 1), a list, a nested  *)
(* SELECT sel and an alias.                                                *)
(***************************************************************************)
EXTENDS Ast, FiniteSets

\* SqlError; the exception ends the parse, and binding is where the model
\* notices it
unsupported == AstExpr("err", "", <<>>)
UnsupportedStatement == AstSelectStatement(<<unsupported>>, AstParquetSource("", ""))

\* The sources the placeholders stand for, in order of appearance: a call of
\* another function than read_parquet is encoded as a URI
preprocess_from_read_parquet(calls) ==
  LET Scheme(fn) == CASE fn = "read_parquet" -> ""
                      [] fn = "read_iceberg" -> "iceberg://"
                      [] fn = "read_delta"   -> "delta://"
                      [] OTHER               -> "unitycatalog://"
  IN  [i \in DOMAIN calls |-> Scheme(calls[i].fn) \o calls[i].arg]

kMaxJoinSources == 12

-----------------------------------------------------------------------------
(* Every conversion that meets a table claims its source.  Claims lists    *)
(* them in the order of conversion; CASE converts its operand once for     *)
(* every WHEN.                                                             *)

RECURSIVE ClaimsOf(_)
RECURSIVE ClaimsOfTable(_)
RECURSIVE ClaimsOfStatement(_)

ClaimsOfAll(es) == FlattenSeq([i \in DOMAIN es |-> ClaimsOf(es[i])])

ClaimsOf(e) ==
  LET IsCase == e.type = "op" /\ e.x = "CASE"
      operands == IF IsCase THEN FlattenSeq([i \in DOMAIN e.list |-> e.expr]) ELSE e.expr
  IN  ClaimsOfAll(operands \o e.list \o e.expr2)
      \o FlattenSeq([i \in DOMAIN e.sel |-> ClaimsOfStatement(e.sel[i])])

ClaimsOfTable(t) ==
  CASE t.type = "name" -> <<t.name>>
    [] t.type = "join" -> ClaimsOfTable(t.left) \o ClaimsOfTable(t.right) \o ClaimsOf(t.on)
    [] OTHER           -> ClaimsOfStatement(t.sel)

ClaimsOfStatement(s) ==
  ClaimsOfTable(s.from) \o ClaimsOfAll(s.select \o s.where \o s.group \o s.having)
  \o FlattenSeq([i \in DOMAIN s.order |-> ClaimsOf(s.order[i].e)])

\* find_and_consume_source never throws: every claim is of a source, and of
\* one no clause has claimed
find_and_consume_source(claims, sources) ==
  /\ ToSet(claims) \subseteq DOMAIN sources
  /\ Cardinality(ToSet(claims)) = Len(claims)

-----------------------------------------------------------------------------
(* Expressions; src is the sequence of the sources *)

to_binary_op(op) ==
  IF op \in {"+", "-", "*", "/", "=", "<>", "<", "<=", ">", ">=", "AND", "OR"} THEN <<op>>
  ELSE <<>>

to_cast_type_name(type) ==
  CASE type \in {"BIGINT", "LONG"}           -> "BIGINT"
    [] type \in {"INT", "SMALLINT"}          -> "INT"
    [] type \in {"DOUBLE", "REAL"}           -> "DOUBLE"
    [] type \in {"VARCHAR", "TEXT", "CHAR"}  -> "VARCHAR"
    [] OTHER                                 -> type

RECURSIVE convert_expr(_, _)
RECURSIVE convert_select_statement(_, _)

ConvertAll(es, src) == [i \in DOMAIN es |-> convert_expr(es[i], src)]

convert_in(e, src, negated) ==
  LET value == convert_expr(e.expr[1], src)
  IN  IF e.sel # <<>>
        THEN AstIn(value, <<>>, <<convert_select_statement(e.sel[1], src)>>, negated)
        ELSE AstIn(value, ConvertAll(e.list, src), <<>>, negated)

\* A CASE with an operand becomes one whose conditions are equalities with it
convert_case(e, src) ==
  LET Condition(w) == LET when == convert_expr(w.expr[1], src)
                      IN  IF e.expr = <<>> THEN when
                          ELSE AstBinary("=", convert_expr(e.expr[1], src), when)
  IN  IF e.list = <<>> THEN unsupported
      ELSE AstCase(FlattenSeq([i \in DOMAIN e.list |->
                     <<Condition(e.list[i]), convert_expr(e.list[i].expr2[1], src)>>])
                   \o ConvertAll(e.expr2, src))

\* hsql has NOT(IS NULL), NOT(IN) and NOT(EXISTS) for the negated forms
convert_operator(e, src) ==
  LET One == convert_expr(e.expr[1], src)
      Two == convert_expr(e.expr2[1], src)
      inner == e.expr[1]
      NotOf(op) == inner.type = "op" /\ inner.x = op
  IN  CASE e.x = "BETWEEN" -> AstBetween(One, convert_expr(e.list[1], src),
                                         convert_expr(e.list[2], src))
        [] e.x = "NEG"     -> AstUnary("NEG", One)
        [] e.x = "ISNULL"  -> AstUnary("IS NULL", One)
        [] e.x = "NOT"     ->
             IF NotOf("ISNULL") THEN AstUnary("IS NOT NULL", convert_expr(inner.expr[1], src))
             ELSE IF NotOf("IN") THEN convert_in(inner, src, TRUE)
             ELSE IF NotOf("EXISTS")
               THEN AstExists(convert_select_statement(inner.sel[1], src), TRUE)
             ELSE AstUnary("NOT", One)
        [] e.x = "EXISTS"  -> AstExists(convert_select_statement(e.sel[1], src), FALSE)
        [] e.x \in {"LIKE", "NOT LIKE"} -> AstLike(One, Two, e.x = "NOT LIKE")
        [] e.x = "IN"      -> convert_in(e, src, FALSE)
        [] e.x = "CASE"    -> convert_case(e, src)
        [] to_binary_op(e.x) # <<>> -> AstBinary(e.x, One, Two)
        [] OTHER           -> unsupported

convert_function(e, src) ==
  LET fn == e.x.name
      args == e.list
      star == Len(args) = 1 /\ args[1].type = "star"
  IN  CASE fn = "COUNT" /\ star -> IF e.x.distinct THEN unsupported
                                   ELSE AstAggregate("COUNT(*)", <<>>)
        [] fn = "COUNT" /\ ~star /\ Len(args) = 1 ->
             AstAggregate(IF e.x.distinct THEN "COUNT DISTINCT" ELSE "COUNT",
                          ConvertAll(args, src))
        [] fn \in {"SUM", "MIN", "MAX", "AVG"} /\ Len(args) = 1 ->
             IF e.x.distinct THEN unsupported ELSE AstAggregate(fn, ConvertAll(args, src))
        [] fn \in {"SUBSTRING", "SUBSTR"} /\ Len(args) = 3 ->
             IF e.x.distinct \/ args[2].type # "int" \/ args[3].type # "int" THEN unsupported
             ELSE AstSubstring(convert_expr(args[1], src), args[2].x.ival, args[3].x.ival)
        [] OTHER -> unsupported

convert_expr(e, src) ==
  with_alias(
    CASE e.type = "col"     -> AstColumnRef(e.x.table, e.x.name)
      [] e.type = "star"    -> AstStar
      [] e.type = "int"     -> IF e.x.isBoolLiteral THEN AstLiteral("Boolean", e.x.ival # 0)
                               ELSE AstLiteral("Integer", e.x.ival)
      [] e.type \in {"Float", "String", "Null", "Date"} -> AstLiteral(e.type, e.x)
      [] e.type = "op"      -> convert_operator(e, src)
      [] e.type = "fn"      -> convert_function(e, src)
      [] e.type = "cast"    -> AstCast(convert_expr(e.expr[1], src), to_cast_type_name(e.x.ty),
                                       e.x.p, e.x.s)
      [] e.type = "extract" -> IF e.x \in {"YEAR", "MONTH", "DAY"}
                                 THEN AstExtract(e.x, convert_expr(e.expr[1], src))
                                 ELSE unsupported
      [] e.type = "select"  -> AstSubquery(convert_select_statement(e.sel[1], src))
      [] OTHER              -> unsupported,
    e.as)

-----------------------------------------------------------------------------
(* Statements *)

\* A side of a JOIN: a source with an alias
convert_join_source(t, src) == AstParquetSource(src[t.name], t.alias)

\* <<>> for the join types that are not supported
convert_join_type(jt) ==
  CASE jt = "INNER" -> <<"Inner">> [] jt = "LEFT" -> <<"LeftOuter">> [] OTHER -> <<>>

\* hsql's tree leans to the left: the steps are those of the left side and
\* one more
RECURSIVE flatten_join_chain(_, _)
flatten_join_chain(t, src) ==
  LET clause == IF t.left.type = "join" THEN flatten_join_chain(t.left, src)
                ELSE [first |-> convert_join_source(t.left, src), steps |-> <<>>]
      step == AstJoinStep(convert_join_source(t.right, src), convert_expr(t.on, src),
                          convert_join_type(t.jt)[1], <<>>)
  IN  [clause EXCEPT !.steps = Append(@, step)]

\* Every join of the chain is one of two sources with aliases, of a
\* supported type
RECURSIVE ChainSupported(_)
ChainSupported(t) ==
  LET Side(s) == s.type = "name" /\ s.alias # ""
  IN  /\ convert_join_type(t.jt) # <<>>
      /\ Side(t.right)
      /\ IF t.left.type = "join" THEN ChainSupported(t.left) ELSE Side(t.left)

\* s.features are the clauses present that are not supported at all:
\* DISTINCT, UNION, WITH, OFFSET, a LIMIT that is no literal
convert_select_statement(s, src) ==
  LET stmt == [AstSelectStatement(ConvertAll(s.select, src), AstParquetSource("", "")) EXCEPT
        !.where = ConvertAll(s.where, src),
        !.group = ConvertAll(s.group, src),
        !.having = ConvertAll(s.having, src),
        !.order = [i \in DOMAIN s.order |->
                     [e |-> convert_expr(s.order[i].e, src), asc |-> s.order[i].asc]],
        !.limit = s.limit]
      from == s.from
  IN  IF s.features # {} \/ s.select = <<>> THEN UnsupportedStatement
      ELSE CASE from.type = "name" -> [stmt EXCEPT !.from = convert_join_source(from, src)]
             [] from.type = "join" -> IF ChainSupported(from)
                                        THEN [stmt EXCEPT !.join = <<flatten_join_chain(from, src)>>]
                                        ELSE UnsupportedStatement
             [] OTHER -> IF from.alias = "" THEN UnsupportedStatement
                         ELSE [stmt EXCEPT !.sub = <<convert_select_statement(from.sel, src)>>]

\* Every call of the text must be the source of exactly one clause
parse_sql(text) ==
  LET src == preprocess_from_read_parquet(text.calls)
      claims == ClaimsOfStatement(text.tree)
  IN  IF /\ Len(src) \in 1..kMaxJoinSources
         /\ find_and_consume_source(claims, src)
         /\ ToSet(claims) = DOMAIN src
        THEN convert_select_statement(text.tree, src)
        ELSE UnsupportedStatement
=============================================================================
