------------------------------- MODULE Values -------------------------------
(***************************************************************************)
(* Types, schemas (types/schema.hpp) and the SQL values expressions range  *)
(* over.                                                                   *)
(*                                                                         *)
(* Integers, dates and strings are integers (a string stands for its rank  *)
(* in the collating order), FLOAT64 and DECIMAL values are exact quotients *)
(* <<n, d>> in lowest terms, booleans are booleans and NULL is a model     *)
(* value.  An integer has IntMax as its largest value and wraps; a double  *)
(* holds every integer up to ExactMax and only the even ones above it,     *)
(* which is where a 53-bit mantissa stands to a 64-bit integer.  A type is *)
(* <<id>>, or <<"DECIMAL", precision, scale>>; nullability is not          *)
(* modelled, since nothing the engine computes depends on it.              *)
(***************************************************************************)
EXTENDS Integers, Sequences, FiniteSets, SequencesExt

CONSTANTS NULL,       \* the SQL null
          IntMax,     \* the largest integer of the word
          ExactMax    \* the largest integer up to which a double is exact

ASSUME NullAssumption == NULL # TRUE
ASSUME RangeAssumption == IntMax \in Nat /\ ExactMax \in Nat

-----------------------------------------------------------------------------
(* Types and schemas *)

BOOL == <<"BOOLEAN">>
INT32 == <<"INT32">>
INT64 == <<"INT64">>
UINT64 == <<"UINT64">>
FLOAT64 == <<"FLOAT64">>
VARCHAR == <<"STRING">>
DATE32 == <<"DATE32">>

DECIMAL(p, s) == <<"DECIMAL", p, s>>

is_floating(t) == t[1] = "FLOAT64"

is_numeric(t) == t[1] \in {"INT32", "INT64", "UINT64", "FLOAT64", "DECIMAL"}

\* Values of these types are quotients, the other numbers are integers
IsQuotient(t) == t[1] \in {"FLOAT64", "DECIMAL"}

Field(name, type) == [name |-> name, type |-> type]

\* Schema::find_field: the 0-based position of the first field with the
\* name, -1 if there is none
find_field(schema, name) ==
  SelectInSeq(schema, LAMBDA f : f.name = name) - 1

-----------------------------------------------------------------------------
(* Values *)

is_arithmetic(op) == op \in {"+", "-", "*", "/"}
is_comparison(op) == op \in {"=", "<>", "<", "<=", ">", ">="}
is_logical(op) == op \in {"AND", "OR"}
Abs(n) == IF n < 0 THEN -n ELSE n

\* Two's complement
Wrap(n) == ((n + IntMax + 1) % (2 * (IntMax + 1))) - (IntMax + 1)

Sign(n) == IF n < 0 THEN -1 ELSE IF n > 0 THEN 1 ELSE 0

\* The quotient n/d, d # 0, in lowest terms
Quot(n, d) ==
  LET Cancel(g) == <<Sign(d) * (n \div g), Abs(d) \div g>>
  IN  Cancel(Max({k \in 1..Abs(d) : n % k = 0 /\ d % k = 0}))

\* static_cast<double> of an integer: ties go to the even significand
ToDouble(n) ==
  IF Abs(n) <= ExactMax \/ n % 2 = 0 THEN <<n, 1>>
  ELSE IF (n - 1) % 4 = 0 THEN <<n - 1, 1>> ELSE <<n + 1, 1>>

\* Division of the machine truncates towards zero
Truncate(n, d) == (IF (n < 0) = (d < 0) THEN 1 ELSE -1) * (Abs(n) \div Abs(d))

IntArith(op, a, b) ==
  Wrap(CASE op = "+" -> a + b
         [] op = "-" -> a - b
         [] op = "*" -> a * b
         [] OTHER    -> Truncate(a, b))

QuotArith(op, a, b) ==
  Quot(CASE op = "+" -> a[1] * b[2] + b[1] * a[2]
         [] op = "-" -> a[1] * b[2] - b[1] * a[2]
         [] op = "*" -> a[1] * b[1]
         [] OTHER    -> a[1] * b[2],
       a[2] * (IF op = "/" THEN b[1] ELSE b[2]))

\* -1, 0 or 1; FALSE sorts before TRUE
Order(t, a, b) ==
  Sign(IF IsQuotient(t) THEN a[1] * b[2] - b[1] * a[2]
       ELSE IF t = BOOL THEN (IF a THEN 1 ELSE 0) - (IF b THEN 1 ELSE 0)
       ELSE a - b)

Holds(op, order) ==
  CASE op = "="  -> order = 0
    [] op = "<>" -> order # 0
    [] op = "<"  -> order < 0
    [] op = "<=" -> order <= 0
    [] op = ">"  -> order > 0
    [] OTHER     -> order >= 0

\* Three-valued logic
KleeneAnd(a, b) ==
  IF a = FALSE \/ b = FALSE THEN FALSE
  ELSE IF a = NULL \/ b = NULL THEN NULL ELSE TRUE

KleeneOr(a, b) ==
  IF a = TRUE \/ b = TRUE THEN TRUE
  ELSE IF a = NULL \/ b = NULL THEN NULL ELSE FALSE

KleeneNot(a) == IF a = NULL THEN NULL ELSE ~a

\* op on two values of type t: every operator but AND and OR is strict
BinaryValue(op, t, a, b) ==
  IF op = "AND" THEN KleeneAnd(a, b)
  ELSE IF op = "OR" THEN KleeneOr(a, b)
  ELSE IF a = NULL \/ b = NULL THEN NULL
  ELSE IF is_comparison(op) THEN Holds(op, Order(t, a, b))
  ELSE IF IsQuotient(t) THEN QuotArith(op, a, b)
  ELSE IntArith(op, a, b)

\* BETWEEN is the conjunction of its two comparisons
BetweenValue(t, a, lo, hi) ==
  KleeneAnd(BinaryValue(">=", t, a, lo), BinaryValue("<=", t, a, hi))

UnaryValue(op, t, a) ==
  CASE op = "IS NULL"     -> a = NULL
    [] op = "IS NOT NULL" -> a # NULL
    [] OTHER              -> IF a = NULL THEN NULL
                             ELSE IF op = "NOT" THEN ~a
                             ELSE IF IsQuotient(t) THEN <<-a[1], a[2]>> ELSE Wrap(-a)

\* A value of type from as one of type to
CastValue(from, to, a) ==
  IF a = NULL THEN NULL
  ELSE IF IsQuotient(from) /\ ~IsQuotient(to) THEN Truncate(a[1], a[2])
  ELSE IF IsQuotient(to) /\ ~IsQuotient(from) THEN ToDouble(a)
  ELSE a
=============================================================================
