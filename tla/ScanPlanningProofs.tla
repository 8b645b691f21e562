------------------------- MODULE ScanPlanningProofs -------------------------
(***************************************************************************)
(* A scan leaves out no row that satisfies the predicates pushed down to   *)
(* it, for every table, of every kind, and every predicate: what           *)
(* resolve_iceberg_table drops by partition values and what                *)
(* evaluate_pruning drops by statistics (PruningProofs), taken together.   *)
(***************************************************************************)
EXTENDS ScanPlanning, PruningProofs

-----------------------------------------------------------------------------
(* Sequences put together of others *)

\* f has the first 1, ..., n sequences of ss put together.
IsFlat(f, ss, n) ==
  /\ DOMAIN f = 1 .. n
  /\ \A i \in 1 .. n : f[i] = IF i = 1 THEN ss[i] ELSE f[i - 1] \o ss[i]

\* Any sequences can be put together.
LEMMA FlatExists ==
  ASSUME NEW ss, NEW n \in Nat
  PROVE  \E f : IsFlat(f, ss, n)
<1> DEFINE T == {i \in Nat : ~\E f : IsFlat(f, ss, i)}
<1> SUFFICES ASSUME T # {} PROVE FALSE
  OBVIOUS
<1>1. PICK k \in T : \A j \in T : k <= j
  <2>1. T \in SUBSET Nat
    OBVIOUS
  <2> HIDE DEF T
  <2> QED BY <2>1, LeastNat
<1>2. CASE k = 0
  <2>1. IsFlat([i \in 1 .. 0 |-> 0], ss, 0)
    BY DEF IsFlat
  <2> QED BY <1>1, <1>2, <2>1
<1>3. CASE k # 0
  <2>1. k - 1 \in Nat /\ k - 1 \notin T
    BY <1>1, <1>3
  <2>2. PICK f : IsFlat(f, ss, k - 1)
    BY <2>1
  <2> DEFINE last == IF k = 1 THEN ss[k] ELSE f[k - 1] \o ss[k]
             g == [i \in 1 .. k |-> IF i = k THEN last ELSE f[i]]
  <2>3. ASSUME NEW i \in 1 .. k PROVE g[i] = IF i = 1 THEN ss[i] ELSE g[i - 1] \o ss[i]
    <3>1. CASE i = k
      <4>1. i # 1 => i - 1 \in 1 .. k /\ i - 1 # k
        BY <1>1, <3>1
      <4>2. g[i] = last
        BY <3>1
      <4>3. i # 1 => g[i - 1] = f[i - 1]
        BY <4>1
      <4> QED BY <3>1, <4>2, <4>3
    <3>2. CASE i # k
      <4>1. i \in 1 .. (k - 1)
        BY <1>1, <3>2
      <4>2. i # 1 => i - 1 \in 1 .. k /\ i - 1 # k
        BY <1>1, <4>1
      <4>3. f[i] = IF i = 1 THEN ss[i] ELSE f[i - 1] \o ss[i]
        BY <2>2, <4>1 DEF IsFlat
      <4>4. g[i] = f[i] /\ (i # 1 => g[i - 1] = f[i - 1])
        BY <3>2, <4>2
      <4> QED BY <4>3, <4>4
    <3> QED BY <3>1, <3>2
  <2>4. IsFlat(g, ss, k)
    <3>1. DOMAIN g = 1 .. k
      OBVIOUS
    <3> HIDE DEF g
    <3> QED BY <2>3, <3>1 DEF IsFlat
  <2> QED BY <1>1, <2>4
<1> QED BY <1>2, <1>3

\* FlattenSeq has the elements of each of the sequences, and no other.
LEMMA FlattenElements ==
  ASSUME NEW S, NEW ss \in Seq(Seq(S))
  PROVE  /\ FlattenSeq(ss) \in Seq(S)
         /\ \A x : x \in ToSet(FlattenSeq(ss)) <=> \E i \in 1 .. Len(ss) : x \in ToSet(ss[i])
<1>1. CASE Len(ss) = 0
  <2>1. FlattenSeq(ss) = <<>>
    BY <1>1 DEF FlattenSeq
  <2> QED BY <1>1, <2>1 DEF ToSet
<1>2. CASE Len(ss) # 0
  <2> DEFINE n == Len(ss)
             G(f) == [i \in 1 .. n |-> IF i = 1 THEN ss[i] ELSE f[i - 1] \o ss[i]]
             F == CHOOSE f : f = G(f)
  <2>1. n \in Nat \ {0}
    BY <1>2
  <2>2. FlattenSeq(ss) = F[n]
    BY <1>2 DEF FlattenSeq
  <2>3. F = G(F)
    <3>1. PICK f : IsFlat(f, ss, n)
      BY <2>1, FlatExists
    <3> DEFINE h == [i \in 1 .. n |-> f[i]]
    <3>2. \A i \in 1 .. n : h[i] = IF i = 1 THEN ss[i] ELSE h[i - 1] \o ss[i]
      <4> SUFFICES ASSUME NEW i \in 1 .. n
                   PROVE  h[i] = IF i = 1 THEN ss[i] ELSE h[i - 1] \o ss[i]
        OBVIOUS
      <4>1. f[i] = IF i = 1 THEN ss[i] ELSE f[i - 1] \o ss[i]
        BY <3>1 DEF IsFlat
      <4>2. i # 1 => i - 1 \in 1 .. n
        BY <2>1
      <4>3. h[i] = f[i] /\ (i # 1 => h[i - 1] = f[i - 1])
        BY <4>2
      <4> HIDE DEF h
      <4> QED BY <4>1, <4>3
    <3>3. h = [i \in 1 .. n |-> h[i]]
      OBVIOUS
    <3> HIDE DEF h
    <3>4. h = G(h)
      BY <3>2, <3>3
    <3> HIDE DEF G
    <3> QED BY <3>4
  <2> HIDE DEF F
  <2>4. \A i \in 1 .. n : F[i] = IF i = 1 THEN ss[i] ELSE F[i - 1] \o ss[i]
    BY <2>3
  <2> DEFINE Good(i) == /\ F[i] \in Seq(S)
                        /\ \A x : x \in ToSet(F[i]) <=> \E j \in 1 .. i : x \in ToSet(ss[j])
             T == {i \in 1 .. n : ~Good(i)}
  <2>5. T = {}
    <3> SUFFICES ASSUME T # {} PROVE FALSE
      OBVIOUS
    <3>1. PICK k \in T : \A j \in T : k <= j
      <4>1. T \in SUBSET Nat
        BY <2>1
      <4> HIDE DEF T
      <4> QED BY <4>1, LeastNat
    <3>2. k \in 1 .. n /\ ss[k] \in Seq(S)
      BY <2>1, <3>1
    <3>3. CASE k = 1
      <4>1. F[k] = ss[k]
        BY <2>4, <3>2, <3>3
      <4>2. \A x : x \in ToSet(ss[k]) <=> \E j \in 1 .. k : x \in ToSet(ss[j])
        BY <3>3
      <4>3. Good(k)
        BY <3>2, <4>1, <4>2
      <4> QED BY <3>1, <4>3
    <3>4. CASE k # 1
      <4>1. k - 1 \in 1 .. n /\ k - 1 \notin T
        <5> HIDE DEF T
        <5>1. k - 1 \in 1 .. n /\ ~(k <= k - 1)
          BY <2>1, <3>2, <3>4
        <5> QED BY <3>1, <5>1
      <4>2. Good(k - 1)
        BY <4>1
      <4>3. F[k] = F[k - 1] \o ss[k]
        BY <2>4, <3>2, <3>4
      <4>4. F[k] \in Seq(S)
        BY <3>2, <4>2, <4>3
      <4>5. ASSUME NEW a \in Seq(S), NEW b \in Seq(S), NEW x
            PROVE  x \in ToSet(a \o b) <=> x \in ToSet(a) \/ x \in ToSet(b)
        <5>1. /\ Len(a \o b) = Len(a) + Len(b) /\ Len(a) \in Nat /\ Len(b) \in Nat
              /\ DOMAIN (a \o b) = 1 .. (Len(a) + Len(b))
              /\ DOMAIN a = 1 .. Len(a) /\ DOMAIN b = 1 .. Len(b)
          OBVIOUS
        <5>2. \A i \in 1 .. Len(a) : (a \o b)[i] = a[i]
          OBVIOUS
        <5>3. \A i \in 1 .. Len(b) : (a \o b)[Len(a) + i] = b[i]
          OBVIOUS
        <5>4. ASSUME x \in ToSet(a) PROVE x \in ToSet(a \o b)
          <6>1. PICK i \in 1 .. Len(a) : x = a[i]
            BY <5>1, <5>4 DEF ToSet
          <6>2. i \in DOMAIN (a \o b) /\ x = (a \o b)[i]
            BY <5>1, <5>2, <6>1
          <6> QED BY <6>2 DEF ToSet
        <5>5. ASSUME x \in ToSet(b) PROVE x \in ToSet(a \o b)
          <6>1. PICK i \in 1 .. Len(b) : x = b[i]
            BY <5>1, <5>5 DEF ToSet
          <6>2. Len(a) + i \in DOMAIN (a \o b) /\ x = (a \o b)[Len(a) + i]
            BY <5>1, <5>3, <6>1
          <6> QED BY <6>2 DEF ToSet
        <5>6. ASSUME x \in ToSet(a \o b) PROVE x \in ToSet(a) \/ x \in ToSet(b)
          <6>1. PICK i \in 1 .. (Len(a) + Len(b)) : x = (a \o b)[i]
            BY <5>1, <5>6 DEF ToSet
          <6>2. CASE i <= Len(a)
            <7>1. i \in DOMAIN a /\ x = a[i]
              BY <5>1, <5>2, <6>1, <6>2
            <7> QED BY <7>1 DEF ToSet
          <6>3. CASE i > Len(a)
            <7> DEFINE j == i - Len(a)
            <7>1. j \in 1 .. Len(b) /\ Len(a) + j = i
              BY <5>1, <6>1, <6>3
            <7>2. j \in DOMAIN b /\ x = b[j]
              BY <5>1, <5>3, <6>1, <7>1
            <7> QED BY <7>2 DEF ToSet
          <6> QED BY <5>1, <6>1, <6>2, <6>3
        <5> QED BY <5>4, <5>5, <5>6
      <4>6. \A x : x \in ToSet(F[k]) <=> \E j \in 1 .. k : x \in ToSet(ss[j])
        <5> SUFFICES ASSUME NEW x
                     PROVE  x \in ToSet(F[k]) <=> \E j \in 1 .. k : x \in ToSet(ss[j])
          OBVIOUS
        <5>1. x \in ToSet(F[k]) <=> x \in ToSet(F[k - 1]) \/ x \in ToSet(ss[k])
          BY <3>2, <4>2, <4>3, <4>5
        <5>2. x \in ToSet(F[k - 1]) <=> \E j \in 1 .. (k - 1) : x \in ToSet(ss[j])
          BY <4>2
        <5>3. \A j : j \in 1 .. k <=> j \in 1 .. (k - 1) \/ j = k
          BY <3>2, <3>4
        <5> QED BY <5>1, <5>2, <5>3
      <4> QED BY <3>1, <4>4, <4>6
    <3> QED BY <3>3, <3>4
  <2>6. Good(n)
    <3> HIDE DEF Good
    <3>1. n \in 1 .. n
      BY <2>1
    <3> QED BY <2>5, <3>1
  <2> QED BY <2>2, <2>6
<1> QED BY <1>1, <1>2

\* AtPositions has the elements at the positions asked for, and no other.
LEMMA ChosenElements ==
  ASSUME NEW S, NEW s \in Seq(S), NEW K
  PROVE  /\ AtPositions(s, K) \in Seq(S)
         /\ \A x : x \in ToSet(AtPositions(s, K)) <=> \E i \in DOMAIN s : i \in K /\ x = s[i]
<1> DEFINE ss == [i \in DOMAIN s |-> IF i \in K THEN <<s[i]>> ELSE <<>>]
<1>1. AtPositions(s, K) = FlattenSeq(ss)
  BY DEF AtPositions
<1>2. \A i \in DOMAIN s : s[i] \in S
  OBVIOUS
<1>3. ss \in Seq(Seq(S)) /\ DOMAIN s = 1 .. Len(ss)
  <2>1. DOMAIN s = 1 .. Len(s) /\ Len(s) \in Nat
    OBVIOUS
  <2>2. \A i \in 1 .. Len(s) : ss[i] \in Seq(S)
    BY <1>2, <2>1
  <2>3. ss = [i \in 1 .. Len(s) |-> ss[i]]
    BY <2>1
  <2> HIDE DEF ss
  <2> QED BY <2>1, <2>2, <2>3
<1>4. ASSUME NEW i \in DOMAIN s, NEW x PROVE x \in ToSet(ss[i]) <=> i \in K /\ x = s[i]
  BY DEF ToSet
<1> HIDE DEF ss
<1>5. /\ FlattenSeq(ss) \in Seq(S)
      /\ \A x : x \in ToSet(FlattenSeq(ss)) <=> \E i \in 1 .. Len(ss) : x \in ToSet(ss[i])
  BY <1>3, FlattenElements
<1> QED BY <1>1, <1>3, <1>4, <1>5

-----------------------------------------------------------------------------
(* Files ruled out by partition values *)

\* What a manifest stores of a value the transform made: a string as a
\* string, an integer or a date as a number.
StoredAs(stored, made) ==
  \/ made[1] = VARCHAR /\ stored = made
  \/ /\ made[1] \notin {VARCHAR, BOOL} /\ ~IsQuotient(made[1])
     /\ stored = <<INT64, made[2]>>

\* The file was written under a partition field: when its manifest has a
\* value for the field, the transform makes it of the column's value in every
\* row, unless that is NULL.
WrittenUnder(file, name, transform, stored) ==
  LET c == find_field(file.schema, name) + 1
      Made(v) == apply_transform(transform, [t |-> file.schema[c].type, x |-> v])
  IN  stored # <<>> /\ transform \in {"identity", "day", "month", "year"} =>
        \A g \in DOMAIN file.groups : \A r \in DOMAIN file.groups[g] :
          file.groups[g][r][c] # NULL =>
            /\ Made(file.groups[g][r][c]) # <<>>
            /\ StoredAs(stored[1], Made(file.groups[g][r][c])[1])

\* A partition value that is the column's own, compared with a literal,
\* decides what the comparison of the column with it would.
LEMMA IdentityRulesOut ==
  ASSUME NEW t, NEW v \in ValuesOf(t), v # NULL, NEW lit,
         lit.x \in ValuesOf(lit.t), lit.x # NULL, NEW op, is_comparison(op),
         \/ op \in {"=", "<=", ">="} /\ Integral(t, lit)
         \/ Trusted(t, v, lit),
         NEW stored, StoredAs(stored, <<t, v>>),
         ComparesEmpty(op, <<stored>>, <<<<lit.t, lit.x>>>>, TRUE)
  PROVE  ~Holds(op, OrderMeant(t, v, lit))
<1>1. CASE t = VARCHAR
  <2>1. stored = <<t, v>>
    BY <1>1 DEF StoredAs
  <2> QED BY <2>1, IdentityPartitionsSkippedSoundly
<1>2. CASE t # VARCHAR
  <2>1. t \notin {VARCHAR, BOOL} /\ ~IsQuotient(t) /\ stored = <<INT64, v>>
    BY <1>2 DEF StoredAs
  <2>2. INT64 \notin {VARCHAR, BOOL} /\ ~IsQuotient(INT64)
    BY DEF INT64, VARCHAR, BOOL, IsQuotient
  <2>3. v \in ValuesOf(INT64)
    BY <2>1, <2>2 DEF ValuesOf
  <2>4. Integral(t, lit) => Integral(INT64, lit)
    BY <2>2 DEF Integral
  <2>5. Trusted(t, v, lit) => Trusted(INT64, v, lit)
    BY <2>1 DEF Trusted, Exact
  <2>6. OrderMeant(t, v, lit) = OrderMeant(INT64, v, lit)
    BY <2>1, <2>2 DEF OrderMeant, KindOf
  <2>7. ComparesEmpty(op, <<<<INT64, v>>>>, <<<<lit.t, lit.x>>>>, TRUE)
    BY <2>1
  <2>8. \/ op \in {"=", "<=", ">="} /\ Integral(INT64, lit)
        \/ Trusted(INT64, v, lit)
    BY <2>4, <2>5
  <2>9. ~Holds(op, OrderMeant(INT64, v, lit))
    BY <2>3, <2>7, <2>8, IdentityPartitionsSkippedSoundly
  <2> QED BY <2>6, <2>9
<1> QED BY <1>1, <1>2

\* What apply_time_transform computes of a day.
TimeTransform(transform) ==
  [d \in Int |-> IF transform = "day" THEN d
                 ELSE IF transform = "month" THEN months_from_days(d)
                 ELSE civil_from_days(d).year - 1970]

\* apply_transform keeps the order of days, and is defined of dates only.
LEMMA TimeTransforms ==
  ASSUME NEW transform \in {"day", "month", "year"}
  PROVE  /\ TimeTransform(transform) \in [Int -> Int]
         /\ \A a, b \in Int : a <= b => TimeTransform(transform)[a] <= TimeTransform(transform)[b]
         /\ \A lit : lit.x \in Int =>
              apply_transform(transform, lit)
                = IF lit.t = DATE32 THEN <<<<INT64, TimeTransform(transform)[lit.x]>>>> ELSE <<>>
<1> DEFINE T == TimeTransform(transform)
<1>1. ASSUME NEW d \in Int
      PROVE  T[d] \in Int /\ T[d] = IF transform = "day" THEN d
                                     ELSE IF transform = "month" THEN months_from_days(d)
                                     ELSE civil_from_days(d).year - 1970
  <2>1. months_from_days(d) \in Int /\ civil_from_days(d).year \in Int
    BY CalendarMonotonic
  <2> QED BY <2>1 DEF TimeTransform
<1>2. T \in [Int -> Int]
  BY <1>1 DEF TimeTransform
<1>3. ASSUME NEW a \in Int, NEW b \in Int, a <= b PROVE T[a] <= T[b]
  <2>1. /\ civil_from_days(a).year \in Int /\ civil_from_days(b).year \in Int
        /\ civil_from_days(a).year <= civil_from_days(b).year
        /\ months_from_days(a) <= months_from_days(b)
    <3>1. b <= b
      OBVIOUS
    <3> QED BY <1>3, <3>1, CalendarMonotonic
  <2> HIDE DEF T
  <2>2. CASE transform = "day"
    BY <1>1, <1>3, <2>2
  <2>3. CASE transform = "month"
    <3>1. T[a] = months_from_days(a) /\ T[b] = months_from_days(b)
      BY <1>1, <2>3
    <3> QED BY <2>1, <3>1
  <2>4. CASE transform = "year"
    <3>1. T[a] = civil_from_days(a).year - 1970 /\ T[b] = civil_from_days(b).year - 1970
      BY <1>1, <2>4
    <3> QED BY <2>1, <3>1
  <2> QED BY <2>2, <2>3, <2>4
<1>4. ASSUME NEW lit, lit.x \in Int
      PROVE  apply_transform(transform, lit)
               = IF lit.t = DATE32 THEN <<<<INT64, T[lit.x]>>>> ELSE <<>>
  <2>1. apply_transform(transform, lit) = apply_time_transform(transform, lit)
    BY DEF apply_transform
  <2>2. CASE lit.t # DATE32
    BY <2>1, <2>2 DEF apply_time_transform
  <2>3. CASE lit.t = DATE32
    <3> HIDE DEF T
    <3>1. CASE transform = "day"
      BY <1>1, <1>4, <2>1, <2>3, <3>1 DEF apply_time_transform
    <3>2. CASE transform = "month"
      BY <1>1, <1>4, <2>1, <2>3, <3>2 DEF apply_time_transform
    <3>3. CASE transform = "year"
      BY <1>1, <1>4, <2>1, <2>3, <3>3 DEF apply_time_transform
    <3> QED BY <3>1, <3>2, <3>3
  <2> QED BY <2>2, <2>3
<1> QED BY <1>2, <1>3, <1>4

\* Two days compare as the numbers they are.
LEMMA DaysCompare ==
  ASSUME NEW v \in Int, NEW lit, lit.t = DATE32, lit.x \in Int, v # NULL, lit.x # NULL
  PROVE  OrderMeant(DATE32, v, lit) = Order(DATE32, v, lit.x)
<1>1. KindOf(DATE32) = "i" /\ ~IsQuotient(DATE32) /\ DATE32 # BOOL
  BY DEF KindOf, IsQuotient, DATE32, BOOL
<1>2. OfKind("i", v) = <<"i", v>> /\ OfKind("i", lit.x) = <<"i", lit.x>>
  BY DEF OfKind
<1>3. CompareValues(<<"i", v>>, <<"i", lit.x>>) = Order(FLOAT64, <<v, 1>>, <<lit.x, 1>>)
  BY DEF CompareValues, Null, Canonical
<1>4. Order(FLOAT64, <<v, 1>>, <<lit.x, 1>>) = Sign(v - lit.x)
  BY IntegersAsQuotients
<1>5. Order(DATE32, v, lit.x) = Sign(v - lit.x)
  BY <1>1 DEF Order
<1> QED BY <1>1, <1>2, <1>3, <1>4, <1>5 DEF OrderMeant

\* A partition of days, months or years that is compared with a date decides
\* what the comparison of the dates in it would.
LEMMA TimeRulesOut ==
  ASSUME NEW transform \in {"day", "month", "year"},
         NEW t, NEW v \in ValuesOf(t), v # NULL, NEW lit,
         lit.x \in ValuesOf(lit.t), lit.x # NULL, NEW op, is_comparison(op),
         apply_transform(transform, [t |-> t, x |-> v]) # <<>>,
         NEW stored, StoredAs(stored, apply_transform(transform, [t |-> t, x |-> v])[1]),
         ComparesEmpty(op, <<stored>>, apply_transform(transform, lit), FALSE)
  PROVE  ~Holds(op, OrderMeant(t, v, lit))
<1> DEFINE T == TimeTransform(transform)
<1>1. apply_transform(transform, lit) # <<>>
  BY DEF ComparesEmpty
<1>2. t = DATE32 /\ lit.t = DATE32
  <2>1. \A l : apply_transform(transform, l) # <<>> => l.t = DATE32
    BY DEF apply_transform, apply_time_transform
  <2>2. [t |-> t, x |-> v].t = DATE32 /\ lit.t = DATE32
    BY <1>1, <2>1
  <2> QED BY <2>2
<1>3. v \in Int /\ lit.x \in Int
  <2>1. ValuesOf(DATE32) = Int
    BY DEF ValuesOf, IsQuotient, DATE32, BOOL
  <2> QED BY <1>2, <2>1
<1>4. /\ T \in [Int -> Int]
      /\ \A a, b \in Int : a <= b => T[a] <= T[b]
      /\ \A l : l.x \in Int =>
           apply_transform(transform, l) = IF l.t = DATE32 THEN <<<<INT64, T[l.x]>>>> ELSE <<>>
  BY TimeTransforms
<1> HIDE DEF T
<1>5. apply_transform(transform, lit) = <<<<INT64, T[lit.x]>>>>
  BY <1>2, <1>3, <1>4
<1>6. apply_transform(transform, [t |-> t, x |-> v]) = <<<<INT64, T[v]>>>>
  <2> DEFINE l == [t |-> t, x |-> v]
  <2>1. l.t = DATE32 /\ l.x = v
    BY <1>2
  <2> HIDE DEF l
  <2>2. apply_transform(transform, l) = <<<<INT64, T[l.x]>>>>
    BY <1>3, <1>4, <2>1
  <2>3. apply_transform(transform, l) = <<<<INT64, T[v]>>>>
    BY <2>1, <2>2
  <2> QED BY <2>3 DEF l
<1>7. stored = <<INT64, T[v]>>
  <2>1. StoredAs(stored, <<INT64, T[v]>>)
    BY <1>6
  <2> QED BY <2>1 DEF StoredAs, INT64, VARCHAR
<1>8. ComparesEmpty(op, <<<<INT64, T[v]>>>>, <<<<INT64, T[lit.x]>>>>, FALSE)
  BY <1>5, <1>7
<1>9. {INT64} \cap {VARCHAR, BOOL} = {} /\ ~IsQuotient(INT64)
  BY DEF INT64, VARCHAR, BOOL, IsQuotient
<1>10. {INT64, INT64} \cap {VARCHAR, BOOL} = {}
  BY <1>9
<1>11. ~Holds(op, Order(DATE32, v, lit.x))
  BY <1>3, <1>4, <1>8, <1>9, <1>10, CoarsePartitionsSkippedSoundly
<1>12. OrderMeant(DATE32, v, lit) = Order(DATE32, v, lit.x)
  BY <1>2, <1>3, DaysCompare
<1> QED BY <1>2, <1>11, <1>12

\* A column that find_field finds is one of the schema's.
LEMMA FieldPosition ==
  ASSUME NEW schema, NEW name, Len(schema) \in Nat, find_field(schema, name) + 1 # 0
  PROVE  find_field(schema, name) + 1 \in 1 .. Len(schema)
<1>1. find_field(schema, name) + 1 \in 0 .. Len(schema)
  BY FieldFound
<1> QED BY <1>1

\* apply_transform knows the identity, days, months and years.
LEMMA TransformsUnderstood ==
  ASSUME NEW transform, NEW lit, apply_transform(transform, lit) # <<>>
  PROVE  transform \in {"identity", "day", "month", "year"}
<1> SUFFICES ASSUME transform \notin {"identity", "day", "month", "year"} PROVE FALSE
  OBVIOUS
<1>1. apply_transform(transform, lit) = apply_time_transform(transform, lit)
  BY DEF apply_transform
<1>2. apply_time_transform(transform, lit) = <<>>
  BY DEF apply_time_transform
<1> QED BY <1>1, <1>2

\* The partition values of a file's manifest entry are those of its rows,
\* field by field of the spec the file was written under, as far as the table
\* still has the columns.
PartitionedBy(file, meta, spec, values) ==
  \A i \in 1 .. Min({Len(spec.fields), Len(values)}) :
    source_column_name(meta, spec.fields[i].source_id) # "" =>
      WrittenUnder(file, source_column_name(meta, spec.fields[i].source_id),
                   spec.fields[i].transform, decode_partition_field(values[i]))

\* No row of a file whose partition values rule it out satisfies the
\* predicates: partition_values_prove_empty may skip the file unread.
LEMMA RuledOutSoundly ==
  ASSUME NEW file, IsFile(file), NEW preds,
         \A j \in DOMAIN preds : IsPredicate(preds[j]) /\ DoublesSuffice(file, preds[j]),
         NEW meta, NEW spec, NEW values, PartitionedBy(file, meta, spec, values),
         \A id : source_column_name(meta, id) # "" =>
                   find_field(file.schema, source_column_name(meta, id)) + 1 # 0,
         partition_values_prove_empty(meta, spec, values, preds),
         NEW g \in DOMAIN file.groups, NEW r \in DOMAIN file.groups[g]
  PROVE  ~SatisfiesAll(file, file.groups[g][r], preds)
<1>1. PICK i \in 1 .. Min({Len(spec.fields), Len(values)}), j \in DOMAIN preds :
        LET f == spec.fields[i]
        IN  /\ source_column_name(meta, f.source_id) # ""
            /\ source_column_name(meta, f.source_id) = preds[j].col
            /\ preds[j].lit.x # NULL
            /\ ComparesEmpty(preds[j].op, decode_partition_field(values[i]),
                             apply_transform(f.transform, preds[j].lit), f.transform = "identity")
  BY Zenon DEF partition_values_prove_empty
<1> DEFINE pred == preds[j]
           transform == spec.fields[i].transform
           stored == decode_partition_field(values[i])
           c == find_field(file.schema, pred.col) + 1
           t == file.schema[c].type
           v == file.groups[g][r][c]
<1>2. /\ c # 0 /\ pred.lit.x # NULL
      /\ ComparesEmpty(pred.op, stored, apply_transform(transform, pred.lit),
                       transform = "identity")
      /\ WrittenUnder(file, pred.col, transform, stored)
  BY <1>1, Zenon DEF PartitionedBy
<1>3. IsPredicate(pred) /\ is_comparison(pred.op) /\ DoublesSuffice(file, pred)
  BY DEF IsPredicate
<1> SUFFICES ASSUME Satisfies(file, file.groups[g][r], pred) PROVE FALSE
  BY DEF SatisfiesAll
<1>4. v # NULL /\ Holds(pred.op, OrderMeant(t, v, pred.lit))
  <2> DEFINE row == file.groups[g][r]
  <2> HIDE DEF pred, row
  <2>1. Satisfies(file, row, pred)
    BY DEF row
  <2>2. row[c] # NULL /\ Holds(pred.op, OrderMeant(t, row[c], pred.lit))
    BY <1>2, <1>3, <2>1, SatisfiedMeans
  <2> QED BY <2>2 DEF row
<1>5. v \in ValuesOf(t) /\ pred.lit.x \in ValuesOf(pred.lit.t)
  <2>1. c \in 1 .. Len(file.schema)
    <3>1. Len(file.schema) \in Nat
      BY DEF IsFile
    <3>2. c # 0
      BY <1>2
    <3> QED BY <3>1, <3>2, FieldPosition
  <2> HIDE DEF c
  <2>2. v \in ValuesOf(t) \cup {NULL}
    BY <2>1 DEF IsFile
  <2> QED BY <1>2, <1>3, <1>4, <2>2 DEF IsPredicate
<1>6. stored # <<>> /\ apply_transform(transform, pred.lit) # <<>>
  BY <1>2 DEF ComparesEmpty
<1>7. transform \in {"identity", "day", "month", "year"}
  <2> HIDE DEF transform, pred
  <2> QED BY <1>6, TransformsUnderstood
<1> DEFINE made == apply_transform(transform, [t |-> t, x |-> v])
<1>8. made # <<>> /\ StoredAs(stored[1], made[1])
  <2> HIDE DEF stored, transform, pred
  <2> QED BY <1>2, <1>4, <1>6, <1>7 DEF WrittenUnder
<1>9. stored = <<stored[1]>>
  BY <1>6 DEF decode_partition_field
<1>10. \/ pred.op \in {"=", "<=", ">="} /\ Integral(t, pred.lit)
       \/ Trusted(t, v, pred.lit)
  <2> HIDE DEF pred, t, c
  <2> QED BY <1>2, <1>3, <1>4 DEF DoublesSuffice, Trusted, t, c
<1> HIDE DEF pred, transform, stored, c, t, v
<1>11. CASE transform = "identity"
  <2>1. made = <<<<t, v>>>> /\ apply_transform(transform, pred.lit) = <<<<pred.lit.t, pred.lit.x>>>>
    BY <1>11 DEF apply_transform
  <2>2. StoredAs(stored[1], <<t, v>>)
    <3> HIDE DEF made
    <3>1. made[1] = <<t, v>>
      BY <2>1
    <3> QED BY <1>8, <3>1, Zenon
  <2>3. ComparesEmpty(pred.op, <<stored[1]>>, <<<<pred.lit.t, pred.lit.x>>>>, TRUE)
    BY <1>2, <1>9, <1>11, <2>1
  <2> QED BY <1>2, <1>3, <1>4, <1>5, <1>10, <2>2, <2>3, IdentityRulesOut
<1>12. CASE transform \in {"day", "month", "year"}
  <2>1. ComparesEmpty(pred.op, <<stored[1]>>, apply_transform(transform, pred.lit), FALSE)
    BY <1>2, <1>9, <1>12
  <2> QED BY <1>2, <1>3, <1>4, <1>5, <1>8, <1>12, <2>1, TimeRulesOut
<1> QED BY <1>7, <1>11, <1>12

-----------------------------------------------------------------------------
(* The files of an Iceberg table *)

\* A sequence of whatever elements.
IsList(s) == s \in Seq(ToSet(s))

\* A list has its length of positions.
LEMMA ListDomain ==
  ASSUME NEW s, IsList(s)
  PROVE  Len(s) \in Nat /\ DOMAIN s = 1 .. Len(s)
BY DEF IsList

\* SelectInSeq finds an element that passes the test, if there is one.
LEMMA FirstPosition ==
  ASSUME NEW n \in Nat, NEW I \in SUBSET (1 .. n), NEW k,
         k = IF I # {} THEN Min(I) ELSE 0
  PROVE  IF I # {} THEN k \in I /\ k # 0 ELSE k = 0
<1>1. CASE I # {}
  <2>1. I \in SUBSET Nat
    OBVIOUS
  <2>2. \E x \in I : \A y \in I : x <= y
    BY <1>1, <2>1, LeastNat
  <2>3. Min(I) \in I
    BY <2>2 DEF Min
  <2> QED BY <1>1, <2>3
<1> QED BY <1>1

\* find_field finds a name the schema has.
LEMMA NameFound ==
  ASSUME NEW schema, Len(schema) \in Nat, NEW k \in 1 .. Len(schema),
         NEW name, schema[k].name = name
  PROVE  find_field(schema, name) + 1 # 0
<1> DEFINE J == {i \in 1 .. Len(schema) : schema[i].name = name}
           s == IF J # {} THEN Min(J) ELSE 0
<1>1. find_field(schema, name) = s - 1
  BY DEF find_field, SelectInSeq
<1>2. k \in J /\ J \in SUBSET (1 .. Len(schema))
  OBVIOUS
<1> HIDE DEF J
<1>3. s \in J /\ s # 0
  BY <1>2, FirstPosition
<1>4. s \in 1 .. Len(schema)
  BY <1>2, <1>3
<1> HIDE DEF s
<1> QED BY <1>1, <1>3, <1>4

\* The column a partition field names is one of the table's schema.
LEMMA SourceColumn ==
  ASSUME NEW meta, NEW id, IsList(current_schema(meta)), source_column_name(meta, id) # ""
  PROVE  \E k \in 1 .. Len(current_schema(meta)) :
           source_column_name(meta, id) = current_schema(meta)[k].name
<1> DEFINE fields == current_schema(meta)
           I == {i \in 1 .. Len(fields) : fields[i].id = id}
           s == IF I # {} THEN Min(I) ELSE 0
<1>1. Len(fields) \in Nat
  BY ListDomain, Zenon
<1>2. source_column_name(meta, id) = IF s = 0 THEN "" ELSE fields[s].name
  BY Zenon DEF source_column_name, SelectInSeq
<1>3. I \in SUBSET (1 .. Len(fields))
  BY Zenon
<1> HIDE DEF I
<1>4. s # 0 => s \in I
  BY <1>1, <1>3, FirstPosition, Zenon
<1> HIDE DEF s
<1>5. s # 0 /\ source_column_name(meta, id) = fields[s].name
  BY <1>2, Zenon
<1>6. s \in 1 .. Len(fields)
  BY <1>3, <1>4, <1>5, Zenon
<1> QED BY <1>5, <1>6, Zenon

\* The schema of a table has the names its metadata declares.
LEMMA SchemaNames ==
  ASSUME NEW fields, IsList(fields), NEW schema,
         schema = iceberg_schema_to_kernellake_schema(fields), schema # <<>>
  PROVE  Len(schema) = Len(fields) /\ \A k \in 1 .. Len(fields) : schema[k].name = fields[k].name
<1>1. Len(fields) \in Nat /\ DOMAIN fields = 1 .. Len(fields)
  BY ListDomain
<1>2. schema = [i \in 1 .. Len(fields) |-> Field(fields[i].name, IcebergTypes[fields[i].type])]
  BY <1>1 DEF iceberg_schema_to_kernellake_schema, TranslateSchema
<1> QED BY <1>1, <1>2 DEF Field

\* A column an Iceberg table is partitioned by is one of its files' columns.
LEMMA SourceColumnFound ==
  ASSUME NEW meta, NEW id, IsList(current_schema(meta)), source_column_name(meta, id) # "",
         NEW schema, schema = iceberg_schema_to_kernellake_schema(current_schema(meta)),
         schema # <<>>
  PROVE  find_field(schema, source_column_name(meta, id)) + 1 # 0
<1>1. PICK k \in 1 .. Len(current_schema(meta)) :
        source_column_name(meta, id) = current_schema(meta)[k].name
  BY SourceColumn, Zenon
<1>2. /\ Len(schema) = Len(current_schema(meta))
      /\ schema[k].name = current_schema(meta)[k].name
  BY SchemaNames, Zenon
<1>3. Len(current_schema(meta)) \in Nat
  BY ListDomain, Zenon
<1>4. Len(schema) \in Nat /\ k \in 1 .. Len(schema)
      /\ schema[k].name = source_column_name(meta, id)
  BY <1>1, <1>2, <1>3, Zenon
<1> QED BY <1>4, NameFound, Zenon

\* The data file of a manifest entry.
FileOf(src, e) == ResolvedFile(src.objects[e.path], <<>>)

\* The entry's file has not some of its rows deleted and, unless all of them
\* are, opens with the table's schema.
Readable(store, src, schema, e, deletes) ==
  LET n == DeletedRows(src, deletes, e.path)
  IN  /\ ~(n > 0 /\ n < e.record_count)
      /\ n = 0 => Opens(store, src.objects[e.path]) /\ src.objects[e.path].schema = schema

\* The table is resolved when every live data file is readable, and then has
\* the files without deleted rows.
HasReadable(table, store, src, schema, live, deletes) ==
  /\ table.ok <=> \A e \in ToSet(live) : Readable(store, src, schema, e, deletes)
  /\ IsList(table.files)
  /\ table.ok => \A f : f \in ToSet(table.files) <=>
       \E e \in ToSet(live) : DeletedRows(src, deletes, e.path) = 0 /\ f = FileOf(src, e)

\* That is what becomes of the live data files.
LEMMA FilesAfterDeletes ==
  ASSUME NEW store, NEW src, NEW schema, NEW S, NEW live \in Seq(S), NEW deletes
  PROVE  HasReadable(AfterDeletes(store, src, schema, live, deletes),
                     store, src, schema, live, deletes)
<1> DEFINE table == AfterDeletes(store, src, schema, live, deletes)
           Deleted(e) == DeletedRows(src, deletes, e.path)
           deleted == [i \in DOMAIN live |-> Deleted(live[i])]
           K == {i \in DOMAIN live : deleted[i] = 0}
           kept == AtPositions(live, K)
           files == [i \in DOMAIN kept |-> src.objects[kept[i].path]]
           Part == \E i \in DOMAIN live : deleted[i] > 0 /\ deleted[i] < live[i].record_count
           Bad == \E i \in DOMAIN files : ~Opens(store, files[i]) \/ files[i].schema # schema
           resolved == [i \in DOMAIN files |-> ResolvedFile(files[i], <<>>)]
<1>1. table = IF Part THEN Unresolved
              ELSE IF Bad THEN Unresolved ELSE ResolvedTable(schema, <<>>, resolved, store)
  BY Zenon DEF AfterDeletes, IcebergTable
<1>2. /\ kept \in Seq(S)
      /\ \A x : x \in ToSet(kept) <=> \E i \in DOMAIN live : i \in K /\ x = live[i]
  <2> HIDE DEF K
  <2> QED BY ChosenElements
<1>3. \A x : x \in ToSet(kept) <=> x \in ToSet(live) /\ Deleted(x) = 0
  <2> HIDE DEF kept, Deleted
  <2> QED BY <1>2 DEF ToSet
<1> HIDE DEF kept
<1>4. Part <=> \E e \in ToSet(live) : Deleted(e) > 0 /\ Deleted(e) < e.record_count
  <2> HIDE DEF Deleted
  <2> QED BY DEF ToSet
<1>5. Bad <=> \E e \in ToSet(kept) :
        ~Opens(store, src.objects[e.path]) \/ src.objects[e.path].schema # schema
  BY DEF ToSet
<1>6. IsList(resolved) /\ \A f : f \in ToSet(resolved) <=> \E e \in ToSet(kept) : f = FileOf(src, e)
  <2>1. DOMAIN kept = 1 .. Len(kept) /\ Len(kept) \in Nat
    BY <1>2
  <2>2. resolved = [i \in 1 .. Len(kept) |-> FileOf(src, kept[i])]
    BY <2>1 DEF FileOf
  <2> HIDE DEF resolved
  <2>3. \A f : f \in ToSet(resolved) <=> \E e \in ToSet(kept) : f = FileOf(src, e)
    BY <2>1, <2>2 DEF ToSet
  <2>4. \A i \in 1 .. Len(kept) : resolved[i] \in ToSet(resolved)
    BY <2>1, <2>2 DEF ToSet
  <2> QED BY <2>1, <2>2, <2>3, <2>4 DEF IsList
<1> HIDE DEF Part, Bad, resolved, Deleted, table
<1>7. /\ table.ok <=> ~Part /\ ~Bad
      /\ table.files = IF ~Part /\ ~Bad THEN resolved ELSE <<>>
  <2>1. CASE Part \/ Bad
    <3>1. table = Unresolved
      BY <1>1, <2>1, Zenon
    <3>2. Unresolved.ok = FALSE /\ Unresolved.files = <<>>
      BY DEF Unresolved
    <3> QED BY <2>1, <3>1, <3>2, Zenon
  <2>2. CASE ~Part /\ ~Bad
    <3>1. table = ResolvedTable(schema, <<>>, resolved, store)
      BY <1>1, <2>2, Zenon
    <3> QED BY <2>2, <3>1 DEF ResolvedTable
  <2> QED BY <2>1, <2>2
<1>8. ~Part /\ ~Bad <=> \A e \in ToSet(live) : Readable(store, src, schema, e, deletes)
  BY <1>3, <1>4, <1>5 DEF Readable, Deleted
<1>9. IsList(table.files)
  BY <1>6, <1>7 DEF IsList, ToSet
<1>10. table.ok => \A f : f \in ToSet(table.files) <=>
         \E e \in ToSet(live) : Deleted(e) = 0 /\ f = FileOf(src, e)
  BY <1>3, <1>6, <1>7
<1>11. HasReadable(table, store, src, schema, live, deletes)
  BY <1>7, <1>8, <1>9, <1>10 DEF Deleted, HasReadable
<1> QED BY <1>11 DEF table

\* A manifest list, of manifests that list entries.
IsManifests(manifests) ==
  IsList(manifests) /\ \A i \in DOMAIN manifests : IsList(manifests[i].entries)

\* UnprunedEntries are the live entries of data manifests that are not ruled
\* out.
LEMMA EntriesUnpruned ==
  ASSUME NEW meta, NEW manifests, IsManifests(manifests), NEW preds
  PROVE  LET live == UnprunedEntries(meta, manifests, preds)
         IN  /\ live \in Seq(UNION {ToSet(manifests[i].entries) : i \in DOMAIN manifests})
             /\ \A e : e \in ToSet(live) <=>
                  \E i \in DOMAIN manifests : \E k \in LiveIn(manifests[i].entries) :
                    /\ manifests[i].content = "DATA"
                    /\ e = manifests[i].entries[k]
                    /\ ~RuledOut(meta, manifests[i], e, preds)
<1> DEFINE S == UNION {ToSet(manifests[i].entries) : i \in DOMAIN manifests}
           Read(i) == {k \in LiveIn(manifests[i].entries) :
                         ~RuledOut(meta, manifests[i], manifests[i].entries[k], preds)}
           ss == [i \in DOMAIN manifests |->
                    IF manifests[i].content # "DATA" THEN <<>>
                    ELSE AtPositions(manifests[i].entries, Read(i))]
<1>1. UnprunedEntries(meta, manifests, preds) = FlattenSeq(ss)
  BY Zenon DEF UnprunedEntries
<1>2. Len(manifests) \in Nat /\ DOMAIN manifests = 1 .. Len(manifests)
  BY ListDomain DEF IsManifests
<1>3. ASSUME NEW i \in DOMAIN manifests
      PROVE  /\ ss[i] \in Seq(S)
             /\ \A e : e \in ToSet(ss[i]) <=>
                  \E k \in LiveIn(manifests[i].entries) :
                    /\ manifests[i].content = "DATA"
                    /\ e = manifests[i].entries[k]
                    /\ ~RuledOut(meta, manifests[i], e, preds)
  <2> DEFINE es == manifests[i].entries
             K == Read(i)
  <2>1. es \in Seq(ToSet(es)) /\ ToSet(es) \subseteq S
    BY DEF IsManifests, IsList
  <2>2. es \in Seq(S)
    <3> HIDE DEF es, S
    <3> QED BY <2>1
  <2>3. \A k : k \in K <=> k \in DOMAIN es /\ k \in LiveIn(es)
                            /\ ~RuledOut(meta, manifests[i], es[k], preds)
    BY DEF LiveIn
  <2>4. \A k \in LiveIn(es) : k \in DOMAIN es
    BY DEF LiveIn
  <2> HIDE DEF S, K, es
  <2>5. /\ AtPositions(es, K) \in Seq(S)
        /\ \A x : x \in ToSet(AtPositions(es, K)) <=> \E k \in DOMAIN es : k \in K /\ x = es[k]
    BY <2>2, ChosenElements
  <2>6. ss[i] = IF manifests[i].content # "DATA" THEN <<>> ELSE AtPositions(es, K)
    BY Zenon DEF es, K
  <2> HIDE DEF ss, Read
  <2>7. CASE manifests[i].content # "DATA"
    <3>1. ss[i] = <<>>
      BY <2>6, <2>7, Zenon
    <3>2. ss[i] \in Seq(S) /\ ToSet(ss[i]) = {}
      BY <3>1 DEF ToSet
    <3> QED BY <2>7, <3>2, Zenon
  <2>8. CASE manifests[i].content = "DATA"
    <3>1. ss[i] = AtPositions(es, K)
      BY <2>6, <2>8, Zenon
    <3>2. \A x : x \in ToSet(ss[i]) <=> \E k \in DOMAIN es : k \in K /\ x = es[k]
      BY <2>5, <3>1, Zenon
    <3>3. ss[i] \in Seq(S)
      BY <2>5, <3>1, Zenon
    <3>4. \A e : e \in ToSet(ss[i]) <=>
            \E k \in LiveIn(es) : e = es[k] /\ ~RuledOut(meta, manifests[i], e, preds)
      BY <2>3, <2>4, <3>2, Zenon
    <3> QED BY <2>8, <3>3, <3>4, Zenon DEF es
  <2> QED BY <2>7, <2>8
<1>4. ss \in Seq(Seq(S)) /\ 1 .. Len(ss) = DOMAIN manifests
  <2>1. ss = [i \in 1 .. Len(manifests) |-> ss[i]]
    BY <1>2, Zenon
  <2> HIDE DEF ss, S
  <2>2. \A i \in 1 .. Len(manifests) : ss[i] \in Seq(S)
    BY <1>2, <1>3
  <2> QED BY <1>2, <2>1, <2>2
<1> HIDE DEF ss, S
<1>5. /\ FlattenSeq(ss) \in Seq(S)
      /\ \A x : x \in ToSet(FlattenSeq(ss)) <=> \E i \in 1 .. Len(ss) : x \in ToSet(ss[i])
  BY <1>4, FlattenElements
<1>6. \A e : e \in ToSet(FlattenSeq(ss)) <=>
        \E i \in DOMAIN manifests : \E k \in LiveIn(manifests[i].entries) :
          /\ manifests[i].content = "DATA"
          /\ e = manifests[i].entries[k]
          /\ ~RuledOut(meta, manifests[i], e, preds)
  BY <1>3, <1>4, <1>5, Zenon
<1> QED BY <1>1, <1>5, <1>6, Zenon DEF S

\* What a writer of an Iceberg table promises: the partition values of every
\* live data file of the current snapshot are made of the file's rows.
IcebergWritten(src) ==
  LET manifests == current_manifest_list(src.meta)
      Spec(m) == find_partition_spec(src.meta, m.spec)
  IN  /\ IsList(current_schema(src.meta))
      /\ manifests # <<>> =>
           /\ IsManifests(manifests[1])
           /\ \A i \in DOMAIN manifests[1] :
                manifests[1][i].content = "DATA" /\ Spec(manifests[1][i]) # <<>> =>
                  \A k \in LiveIn(manifests[1][i].entries) :
                    PartitionedBy(FileOf(src, manifests[1][i].entries[k]), src.meta,
                                  Spec(manifests[1][i])[1], manifests[1][i].entries[k].partition)

\* No row of the file is in the answer.
NoRowOf(file, preds) ==
  \A g \in DOMAIN file.groups : \A r \in DOMAIN file.groups[g] :
    ~SatisfiesAll(file, file.groups[g][r], preds)

\* The files are of well-typed rows, the predicates well typed, and doubles
\* can compare them.
Comparisons(files, preds) ==
  /\ \A j \in DOMAIN preds : IsPredicate(preds[j])
  /\ \A f \in files : IsFile(f) /\ \A j \in DOMAIN preds : DoublesSuffice(f, preds[j])

\* Without predicates no file is ruled out.
LEMMA NothingRuledOut ==
  ASSUME NEW meta, NEW m, NEW entry
  PROVE  ~RuledOut(meta, m, entry, <<>>)
<1>1. DOMAIN <<>> = {}
  OBVIOUS
<1> QED BY <1>1, Zenon DEF RuledOut, partition_values_prove_empty

\* A data file with the table's schema that its partition values rule out has
\* no row that satisfies the predicates.
LEMMA EntryRuledOut ==
  ASSUME NEW src, IcebergWritten(src), NEW preds,
         NEW manifests, current_manifest_list(src.meta) = <<manifests>>,
         NEW i \in DOMAIN manifests, manifests[i].content = "DATA",
         NEW k \in LiveIn(manifests[i].entries), NEW e, e = manifests[i].entries[k],
         RuledOut(src.meta, manifests[i], e, preds),
         NEW schema, schema = iceberg_schema_to_kernellake_schema(current_schema(src.meta)),
         schema # <<>>, src.objects[e.path].schema = schema,
         Comparisons({FileOf(src, e)}, preds)
  PROVE  NoRowOf(FileOf(src, e), preds)
<1> DEFINE file == FileOf(src, e)
           found == find_partition_spec(src.meta, manifests[i].spec)
<1>1. file.schema = schema
  BY DEF FileOf, ResolvedFile
<1>2. found # <<>> /\ partition_values_prove_empty(src.meta, found[1], e.partition, preds)
  BY Zenon DEF RuledOut
<1>3. IsList(current_schema(src.meta))
  BY Zenon DEF IcebergWritten
<1>4. PartitionedBy(file, src.meta, found[1], e.partition)
  <2>1. current_manifest_list(src.meta) # <<>> /\ current_manifest_list(src.meta)[1] = manifests
    OBVIOUS
  <2> HIDE DEF found
  <2>2. found # <<>> => PartitionedBy(FileOf(src, manifests[i].entries[k]), src.meta,
                                      found[1], manifests[i].entries[k].partition)
    BY <2>1, Zenon DEF IcebergWritten, found
  <2> QED BY <1>2, <2>2, Zenon
<1>5. IsFile(file) /\ \A j \in DOMAIN preds : IsPredicate(preds[j]) /\ DoublesSuffice(file, preds[j])
  BY Zenon DEF Comparisons
<1> HIDE DEF file, found
<1>6. \A id : source_column_name(src.meta, id) # "" =>
                find_field(file.schema, source_column_name(src.meta, id)) + 1 # 0
  <2>1. \A id : source_column_name(src.meta, id) # "" =>
                  find_field(schema, source_column_name(src.meta, id)) + 1 # 0
    BY <1>3, SourceColumnFound, Zenon
  <2> QED BY <1>1, <2>1, Zenon
<1>7. ASSUME NEW g \in DOMAIN file.groups, NEW r \in DOMAIN file.groups[g]
      PROVE  ~SatisfiesAll(file, file.groups[g][r], preds)
  BY <1>2, <1>4, <1>5, <1>6, RuledOutSoundly, Zenon
<1>8. NoRowOf(file, preds)
  BY <1>7, Zenon DEF NoRowOf
<1> QED BY <1>8 DEF file

\* Resolving an Iceberg table for some predicates succeeds when resolving it
\* for none does, and leaves out only files none of whose rows satisfies them.
LEMMA IcebergPrunedSoundly ==
  ASSUME NEW store, NEW src, IcebergWritten(src), NEW preds,
         NEW full, full = resolve_iceberg_table(store, src, <<>>), full.ok,
         NEW pruned, pruned = resolve_iceberg_table(store, src, preds),
         Comparisons(ToSet(full.files), preds)
  PROVE  /\ pruned.ok /\ IsList(pruned.files)
         /\ \A f \in ToSet(full.files) : f \in ToSet(pruned.files) \/ NoRowOf(f, preds)
<1> DEFINE schema == iceberg_schema_to_kernellake_schema(current_schema(src.meta))
           found == current_manifest_list(src.meta)
<1>0. Unresolved.ok = FALSE
  BY DEF Unresolved
<1>1. schema # <<>>
  <2> SUFFICES ASSUME schema = <<>> PROVE FALSE
    OBVIOUS
  <2>1. full = Unresolved
    BY Zenon DEF resolve_iceberg_table
  <2> QED BY <1>0, <2>1, Zenon
<1>2. CASE found = <<>>
  <2> DEFINE none == ResolvedTable(schema, <<>>, <<>>, store)
  <2>1. full = none /\ pruned = none
    BY <1>1, <1>2, Zenon DEF resolve_iceberg_table
  <2>2. none.ok = TRUE /\ none.files = <<>> /\ IsList(<<>>) /\ ToSet(<<>>) = {}
    BY DEF ResolvedTable, IsList, ToSet
  <2> HIDE DEF none
  <2> QED BY <2>1, <2>2, Zenon
<1>3. CASE found # <<>>
  <2> DEFINE manifests == found[1]
             deletes == LiveEntries(manifests, "DELETES")
             Live(ps) == UnprunedEntries(src.meta, manifests, ps)
             Refused == \/ \E d \in ToSet(deletes) : d.content # "POSITION_DELETES" \/ d.format # "PARQUET"
                        \/ \E e \in ToSet(LiveEntries(manifests, "DATA")) : e.format # "PARQUET"
  <2>1. ASSUME NEW ps
        PROVE  resolve_iceberg_table(store, src, ps)
                 = IF Refused THEN Unresolved
                   ELSE AfterDeletes(store, src, schema, Live(ps), deletes)
    BY <1>1, <1>3, Zenon DEF resolve_iceberg_table, SnapshotTable
  <2>2. found = <<manifests>> /\ IsManifests(manifests)
    <3>1. IsManifests(manifests)
      BY <1>3, Zenon DEF IcebergWritten
    <3>2. found = <<found[1]>>
      BY <1>3 DEF current_manifest_list
    <3> QED BY <3>1, <3>2
  <2> HIDE DEF schema, found, manifests, deletes, Refused
  <2>3. ~Refused
    BY <1>0, <2>1, Zenon
  <2>4. /\ full = AfterDeletes(store, src, schema, Live(<<>>), deletes)
        /\ pruned = AfterDeletes(store, src, schema, Live(preds), deletes)
    BY <2>1, <2>3, Zenon
  <2> DEFINE S == UNION {ToSet(manifests[i].entries) : i \in DOMAIN manifests}
             all == Live(<<>>)
             left == Live(preds)
  <2>5. /\ all \in Seq(S)
        /\ \A e : e \in ToSet(all) <=>
             \E i \in DOMAIN manifests : \E k \in LiveIn(manifests[i].entries) :
               manifests[i].content = "DATA" /\ e = manifests[i].entries[k]
    <3>1. /\ all \in Seq(S)
          /\ \A e : e \in ToSet(all) <=>
               \E i \in DOMAIN manifests : \E k \in LiveIn(manifests[i].entries) :
                 /\ manifests[i].content = "DATA"
                 /\ e = manifests[i].entries[k]
                 /\ ~RuledOut(src.meta, manifests[i], e, <<>>)
      BY <2>2, EntriesUnpruned, Zenon
    <3> HIDE DEF all, S
    <3> QED BY <3>1, NothingRuledOut, Zenon
  <2>6. /\ left \in Seq(S)
        /\ \A e : e \in ToSet(left) <=>
             \E i \in DOMAIN manifests : \E k \in LiveIn(manifests[i].entries) :
               /\ manifests[i].content = "DATA"
               /\ e = manifests[i].entries[k]
               /\ ~RuledOut(src.meta, manifests[i], e, preds)
    BY <2>2, EntriesUnpruned, Zenon
  <2>7. full = AfterDeletes(store, src, schema, all, deletes)
    BY <2>4
  <2>8. pruned = AfterDeletes(store, src, schema, left, deletes)
    BY <2>4
  <2> HIDE DEF S, all, left
  <2>9. \A e \in ToSet(left) : e \in ToSet(all)
    BY <2>5, <2>6, Zenon
  <2>10. /\ full.ok <=> \A e \in ToSet(all) : Readable(store, src, schema, e, deletes)
         /\ full.ok => \A f : f \in ToSet(full.files) <=>
              \E e \in ToSet(all) : DeletedRows(src, deletes, e.path) = 0 /\ f = FileOf(src, e)
    <3>1. all \in Seq(S)
      BY <2>5
    <3>2. HasReadable(full, store, src, schema, all, deletes)
      BY <2>7, <3>1, FilesAfterDeletes, Zenon
    <3> QED BY <3>2, Zenon DEF HasReadable
  <2>11. /\ pruned.ok <=> \A e \in ToSet(left) : Readable(store, src, schema, e, deletes)
         /\ IsList(pruned.files)
         /\ pruned.ok => \A f : f \in ToSet(pruned.files) <=>
              \E e \in ToSet(left) : DeletedRows(src, deletes, e.path) = 0 /\ f = FileOf(src, e)
    <3>1. left \in Seq(S)
      BY <2>6
    <3>2. HasReadable(pruned, store, src, schema, left, deletes)
      BY <2>8, <3>1, FilesAfterDeletes, Zenon
    <3> QED BY <3>2, Zenon DEF HasReadable
  <2>12. pruned.ok
    BY <2>9, <2>10, <2>11, Zenon
  <2>13. ASSUME NEW f \in ToSet(full.files), f \notin ToSet(pruned.files)
         PROVE  NoRowOf(f, preds)
    <3>1. PICK e \in ToSet(all) : DeletedRows(src, deletes, e.path) = 0 /\ f = FileOf(src, e)
      BY <2>10, Zenon
    <3>2. PICK i \in DOMAIN manifests : \E k \in LiveIn(manifests[i].entries) :
            manifests[i].content = "DATA" /\ e = manifests[i].entries[k]
      BY <2>5, Zenon
    <3>3. PICK k \in LiveIn(manifests[i].entries) :
            manifests[i].content = "DATA" /\ e = manifests[i].entries[k]
      BY <3>2
    <3>4. RuledOut(src.meta, manifests[i], e, preds)
      BY <2>6, <2>11, <2>12, <2>13, <3>1, <3>3, Zenon
    <3>5. src.objects[e.path].schema = schema
      BY <2>10, <3>1, Zenon DEF Readable
    <3>6. Comparisons({FileOf(src, e)}, preds)
      BY <3>1, Zenon DEF Comparisons
    <3>7. current_manifest_list(src.meta) = <<manifests>>
      BY <2>2 DEF found
    <3>8. NoRowOf(FileOf(src, e), preds)
      BY <1>1, <3>3, <3>4, <3>5, <3>6, <3>7, EntryRuledOut, Zenon DEF schema
    <3> QED BY <3>1, <3>8
  <2> QED BY <2>11, <2>12, <2>13, Zenon
<1> QED BY <1>2, <1>3

-----------------------------------------------------------------------------
(* Scans *)

\* The row groups of the file that a scan node reads.
GroupsRead(node, f) ==
  UNION {node.x.frags[i].groups : i \in {j \in DOMAIN node.x.frags : node.x.frags[j].file = f}}

\* A scan of a table reads of each file the row groups that evaluate_pruning
\* leaves.
LEMMA FilesRead ==
  ASSUME NEW scan, NEW table, NEW kept, table.ok, IsList(table.files)
  PROVE  LET node == ScanTable(scan, table, kept)
         IN  /\ node.k # "err"
             /\ \A f \in ToSet(table.files) :
                  evaluate_pruning(f, scan.pushable) \subseteq GroupsRead(node, f)
<1> DEFINE node == ScanTable(scan, table, kept)
           files == table.files
           Left(i) == evaluate_pruning(files[i], scan.pushable)
           K == {i \in DOMAIN files : Left(i) # {} \/ files[i].groups = <<>>}
           s == [i \in DOMAIN files |->
                   PhysicalFileFragment(files[i], Left(i), KeptValues(scan, kept, files[i]))]
           frags == AtPositions(s, K)
<1>1. node.k # "err" /\ node.x.frags = frags
  <2>1. \A c, d, e, f : /\ ParquetScanNode(frags, c, d, e, f).k = "scan"
                        /\ ParquetScanNode(frags, c, d, e, f).x.frags = frags
    <3> HIDE DEF frags
    <3> QED BY DEF ParquetScanNode, Plan
  <2>2. \E c, d, e, f : node = ParquetScanNode(Fragments(scan, kept, files), c, d, e, f)
    BY Zenon DEF ScanTable
  <2>3. Fragments(scan, kept, files) = frags
    BY Zenon DEF Fragments
  <2> HIDE DEF node, frags
  <2>4. PICK c, d, e, f : node = ParquetScanNode(frags, c, d, e, f)
    BY <2>2, <2>3, Zenon
  <2>5. node.k = "scan" /\ node.x.frags = frags
    BY <2>1, <2>4, Zenon
  <2> QED BY <2>5
<1>2. Len(files) \in Nat /\ DOMAIN files = 1 .. Len(files)
  BY ListDomain
<1>3. \A i \in DOMAIN files : s[i].file = files[i] /\ s[i].groups = Left(i)
  BY DEF PhysicalFileFragment
<1>4. s \in Seq({s[i] : i \in DOMAIN files}) /\ DOMAIN s = DOMAIN files
  <2>1. s = [i \in 1 .. Len(files) |-> s[i]]
    BY <1>2
  <2> HIDE DEF s
  <2> QED BY <1>2, <2>1
<1> HIDE DEF s
<1>5. \A x : x \in ToSet(frags) <=> \E i \in DOMAIN files : i \in K /\ x = s[i]
  <2> HIDE DEF K
  <2> QED BY <1>4, ChosenElements
<1>6. ASSUME NEW f \in ToSet(files), NEW g \in evaluate_pruning(f, scan.pushable)
      PROVE  g \in GroupsRead(node, f)
  <2>1. PICK i \in DOMAIN files : f = files[i]
    BY DEF ToSet
  <2>2. s[i] \in ToSet(frags) /\ s[i].file = f /\ g \in s[i].groups
    BY <1>3, <1>5, <2>1, Zenon
  <2>3. PICK j \in DOMAIN frags : s[i] = frags[j]
    BY <2>2, Zenon DEF ToSet
  <2> HIDE DEF node, frags
  <2>4. j \in DOMAIN node.x.frags /\ node.x.frags[j].file = f /\ g \in node.x.frags[j].groups
    BY <1>1, <2>2, <2>3, Zenon
  <2> QED BY <2>4, Zenon DEF GroupsRead
<1> QED BY <1>1, <1>6

\* Only Iceberg tables are resolved with the predicates.
LEMMA ResolvedAlike ==
  ASSUME NEW src, src.scheme # "iceberg", NEW preds
  PROVE  resolve_table_or_delegate(src, preds) = resolve_table_or_delegate(src, <<>>)
BY DEF resolve_table_or_delegate

\* A scan with pushed down predicates fails only where the table cannot be
\* resolved at all, and leaves out, of all files of a table of any kind and
\* all their row groups, only rows that do not satisfy the predicates.
THEOREM ScansPrunedSoundly ==
  ASSUME NEW db, NEW scan, NEW table,
         table = resolve_table_or_delegate(db[scan.table], <<>>), IsList(table.files),
         Comparisons(ToSet(table.files), scan.pushable),
         db[scan.table].scheme = "iceberg" => IcebergWritten(db[scan.table])
  PROVE  PrunesSoundly(scan, table, convert_scan(scan, db))
<1> SUFFICES ASSUME table.ok PROVE PrunesSoundly(scan, table, convert_scan(scan, db))
  BY Zenon DEF PrunesSoundly
<1> DEFINE src == db[scan.table]
           preds == scan.pushable
           pruned == resolve_table_or_delegate(src, preds)
           node == convert_scan(scan, db)
<1>1. /\ pruned.ok /\ IsList(pruned.files)
      /\ \A f \in ToSet(table.files) : f \in ToSet(pruned.files) \/ NoRowOf(f, preds)
  <2>1. CASE src.scheme = "iceberg"
    <3>1. ASSUME NEW ps
          PROVE  resolve_table_or_delegate(src, ps) = resolve_iceberg_table("default", src, ps)
      BY <2>1 DEF resolve_table_or_delegate
    <3> HIDE DEF src, preds
    <3>2. table = resolve_iceberg_table("default", src, <<>>)
      BY <3>1 DEF src
    <3>3. pruned = resolve_iceberg_table("default", src, preds)
      BY <3>1
    <3>4. IcebergWritten(src) /\ Comparisons(ToSet(table.files), preds)
      BY <2>1 DEF src, preds
    <3> HIDE DEF pruned
    <3> QED BY <3>2, <3>3, <3>4, IcebergPrunedSoundly, Zenon
  <2>2. CASE src.scheme # "iceberg"
    <3>1. pruned = table
      BY <2>2, ResolvedAlike, Zenon
    <3> HIDE DEF pruned
    <3> QED BY <3>1, Zenon
  <2> QED BY <2>1, <2>2
<1>2. PICK kept : node = ScanTable(scan, pruned, kept)
  BY Zenon DEF convert_scan
<1> HIDE DEF pruned, node
<1>3. /\ node.k # "err"
      /\ \A f \in ToSet(pruned.files) : evaluate_pruning(f, preds) \subseteq GroupsRead(node, f)
  BY <1>1, <1>2, FilesRead, Zenon
<1>4. ASSUME NEW f \in ToSet(table.files), NEW g \in DOMAIN f.groups \ GroupsRead(node, f),
             NEW r \in DOMAIN f.groups[g]
      PROVE  ~SatisfiesAll(f, f.groups[g][r], preds)
  <2>1. CASE NoRowOf(f, preds)
    BY <2>1, Zenon DEF NoRowOf
  <2>2. CASE f \in ToSet(pruned.files)
    <3>1. g \in DOMAIN f.groups \ evaluate_pruning(f, preds)
      BY <1>3, <2>2, Zenon
    <3>2. IsFile(f) /\ \A j \in DOMAIN preds : IsPredicate(preds[j]) /\ DoublesSuffice(f, preds[j])
      BY Zenon DEF Comparisons
    <3> HIDE DEF preds
    <3> QED BY <3>1, <3>2, RowGroupsSkippedSoundly, Zenon
  <2> QED BY <1>1, <2>1, <2>2, Zenon
<1>5. PrunesSoundly(scan, table, node)
  BY <1>3, <1>4, Zenon DEF PrunesSoundly, GroupsRead
<1> QED BY <1>5 DEF node
=============================================================================
