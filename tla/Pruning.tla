------------------------------- MODULE Pruning -------------------------------
(***************************************************************************)
(* What a scan need not read: row groups by the statistics of their        *)
(* columns (src/io/parquet_pruning.cpp), files of an Iceberg table by      *)
(* their partition values (src/iceberg/partition_pruning.cpp).             *)
(*                                                                         *)
(* A predicate is [col, op, lit]: a column, a comparison and a literal     *)
(* [t, x] of type t.  A file has a schema and row groups, sequences of     *)
(* rows; the statistics of a column in one are the least and the greatest  *)
(* of its values.  A stored value is <<type, v>>.                          *)
(***************************************************************************)
EXTENDS Values

AsDouble(t, v) == IF IsQuotient(t) THEN v ELSE ToDouble(v)

-----------------------------------------------------------------------------
(* By statistics *)

\* compare_literals: numbers compare as doubles, strings as strings; <<>>
\* when the two do not compare
compare_literals(t, v, lit) ==
  IF t = VARCHAR /\ lit.t = VARCHAR THEN <<Order(VARCHAR, v, lit.x)>>
  ELSE IF t = BOOL /\ lit.t = BOOL THEN <<Order(BOOL, v, lit.x)>>
  ELSE IF {t, lit.t} \intersect {VARCHAR, BOOL} # {} THEN <<>>
  ELSE <<Order(FLOAT64, AsDouble(t, v), AsDouble(lit.t, lit.x))>>

\* The statistics of column f of a row group: <<>> or <<min, max>>
Statistics(group, f, t) ==
  LET vs == {group[i][f] : i \in DOMAIN group} \ {NULL}
      Extreme(op) == CHOOSE v \in vs : \A w \in vs : Holds(op, Order(t, v, w))
  IN  IF vs = {} THEN <<>> ELSE <<Extreme("<="), Extreme(">=")>>

\* lo and hi compare the least and the greatest value with the literal
BoundsProveEmpty(op, lo, hi) ==
  /\ lo # <<>> /\ hi # <<>>
  /\ CASE op = "="  -> lo[1] > 0 \/ hi[1] < 0
       [] op = "<>" -> lo[1] = 0 /\ hi[1] = 0
       [] op = "<"  -> lo[1] >= 0
       [] op = "<=" -> lo[1] > 0
       [] op = ">"  -> hi[1] <= 0
       [] OTHER     -> hi[1] < 0

\* The predicate can hold of no row whose value is between the statistics
predicate_proves_empty(pred, t, stats) ==
  /\ stats # <<>>
  /\ pred.lit.x # NULL
  /\ BoundsProveEmpty(pred.op, compare_literals(t, stats[1], pred.lit),
                      compare_literals(t, stats[2], pred.lit))

\* The row groups of a file that must be read
evaluate_pruning(file, preds) ==
  {g \in DOMAIN file.groups :
     \A i \in DOMAIN preds :
       LET f == find_field(file.schema, preds[i].col) + 1
           t == file.schema[f].type
       IN  f = 0 \/ ~predicate_proves_empty(preds[i], t, Statistics(file.groups[g], f, t))}

-----------------------------------------------------------------------------
(* By partition values *)

\* compare_literals of partition_pruning.cpp
CompareStored(a, b) ==
  IF a[1] = VARCHAR /\ b[1] = VARCHAR THEN <<Order(VARCHAR, a[2], b[2])>>
  ELSE IF {a[1], b[1]} \intersect {VARCHAR, BOOL} # {} THEN <<>>
  ELSE <<Order(FLOAT64, AsDouble(a[1], a[2]), AsDouble(b[1], b[2]))>>

\* Mutant: a coarse partition is taken for the value itself
proves_empty_Strict(op, cmp, is_identity) ==
  CASE op = "="  -> cmp # 0
    [] op = "<>" -> is_identity /\ cmp = 0
    [] op = "<"  -> cmp >= 0
    [] op = "<=" -> cmp > 0
    [] op = ">"  -> cmp <= 0
    [] OTHER     -> cmp < 0

\* cmp compares the partition's value with the literal's; unless the
\* transform is the identity, rows on both sides of the literal may share it
proves_empty(op, cmp, is_identity) ==
  CASE op = "="  -> cmp # 0
    [] op = "<>" -> is_identity /\ cmp = 0
    [] op = "<"  -> cmp > 0 \/ (is_identity /\ cmp = 0)
    [] op = "<=" -> cmp > 0
    [] op = ">"  -> cmp < 0 \/ (is_identity /\ cmp = 0)
    [] OTHER     -> cmp < 0

\* A partition value, a transformed literal and their comparison may be absent
ProvesEmpty(op, cmp, is_identity) == cmp # <<>> /\ proves_empty(op, cmp[1], is_identity)

ComparesEmpty(op, value, literal, is_identity) ==
  /\ value # <<>>
  /\ literal # <<>>
  /\ ProvesEmpty(op, CompareStored(value[1], literal[1]), is_identity)
=============================================================================
