------------------------------ MODULE SqlValues ------------------------------
(***************************************************************************)
(* What the operators of SQL mean of single values, said without types: a  *)
(* value carries its own kind.  It is <<kind, v>>: "i" an integer (also a  *)
(* date or a string), "q" a quotient, "b" a boolean, "n" NULL.             *)
(***************************************************************************)
EXTENDS Values

Null == <<"n", NULL>>

OfKind(kind, v) == IF v = NULL THEN Null ELSE <<kind, v>>

KindOf(t) == IF IsQuotient(t) THEN "q" ELSE IF t = BOOL THEN "b" ELSE "i"

\* Every number as a quotient, so that results of either kind compare
Canonical(a) == IF a[1] = "i" THEN <<a[2], 1>> ELSE a[2]

\* -1, 0 or 1, NULL after every value
CompareValues(a, b) ==
  IF a = Null \/ b = Null THEN (IF a = Null THEN 1 ELSE 0) - (IF b = Null THEN 1 ELSE 0)
  ELSE IF a[1] = "b" THEN Order(BOOL, a[2], b[2])
  ELSE Order(FLOAT64, Canonical(a), Canonical(b))

BinaryMeaning(op, a, b) ==
  IF is_logical(op) THEN OfKind("b", BinaryValue(op, BOOL, a[2], b[2]))
  ELSE IF a = Null \/ b = Null THEN Null
  ELSE IF is_comparison(op) THEN <<"b", Holds(op, CompareValues(a, b))>>
  ELSE IF a[1] = "q" \/ b[1] = "q" THEN <<"q", QuotArith(op, Canonical(a), Canonical(b))>>
  ELSE <<"i", IntArith(op, a[2], b[2])>>

UnaryMeaning(op, a) ==
  CASE op = "IS NULL"     -> <<"b", a = Null>>
    [] op = "IS NOT NULL" -> <<"b", a # Null>>
    [] OTHER              -> IF a = Null THEN Null
                             ELSE IF op = "NOT" THEN <<"b", ~a[2]>>
                             ELSE BinaryMeaning("-", <<"i", 0>>, a)

CastMeaning(ty, a) ==
  IF a = Null THEN Null
  ELSE IF ty \in {"DOUBLE", "DECIMAL"} THEN <<"q", Canonical(a)>>
  ELSE IF a[1] = "q" THEN <<"i", Truncate(a[2][1], a[2][2])>> ELSE a

\* The predicate is TRUE of a row of a file, or is not of its columns
Satisfies(f, row, pred) ==
  LET i == find_field(f.schema, pred.col) + 1
  IN  i # 0 => BinaryMeaning(pred.op, OfKind(KindOf(f.schema[i].type), row[i]),
                             OfKind(KindOf(pred.lit.t), pred.lit.x))[2] = TRUE

SatisfiesAll(f, row, preds) == \A j \in DOMAIN preds : Satisfies(f, row, preds[j])
=============================================================================
