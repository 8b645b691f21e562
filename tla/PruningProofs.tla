---------------------------- MODULE PruningProofs ----------------------------
(***************************************************************************)
(* Pruning leaves out no row that satisfies the predicates, for files of   *)
(* any size and values of any size: every comparison of the code, made     *)
(* with a bound of the values or with what a transform makes of them, and  *)
(* in doubles, decides what the comparison of the values themselves would. *)
(***************************************************************************)
EXTENDS Pruning, SqlValues, CalendarProofs

-----------------------------------------------------------------------------
(* First elements *)

\* Schema::find_field finds a column of the schema, or none.
LEMMA FieldFound ==
  ASSUME NEW schema, NEW name, Len(schema) \in Nat
  PROVE  find_field(schema, name) + 1 \in 0 .. Len(schema)
<1> DEFINE I == {i \in 1 .. Len(schema) : schema[i].name = name}
           s == IF I # {} THEN Min(I) ELSE 0
<1>1. find_field(schema, name) = s - 1
  BY DEF find_field, SelectInSeq
<1>2. I # {} => Min(I) \in I
  <2> SUFFICES ASSUME I # {} PROVE Min(I) \in I
    OBVIOUS
  <2>0. I \in SUBSET Nat
    OBVIOUS
  <2> HIDE DEF I
  <2>1. \E x \in I : \A y \in I : x <= y
    BY <2>0, LeastNat
  <2> QED BY <2>1 DEF Min
<1>3. s \in 0 .. Len(schema)
  BY <1>2
<1> HIDE DEF s
<1> QED BY <1>1, <1>3

\* R orders X, ties allowed.
TotalOrder(R, X) ==
  /\ \A a, b \in X : <<a, b>> \in R \/ <<b, a>> \in R
  /\ \A a, b, c \in X : <<a, b>> \in R /\ <<b, c>> \in R => <<a, c>> \in R

\* vs lists n values of X and places without one.
Listed(vs, n, X, none) == n \in Nat /\ \A i \in 1 .. n : vs[i] \in X \cup {none}
Filled(vs, n, none) == {vs[i] : i \in 1 .. n} \ {none}

HasFirst(V, R) == \E v \in V : \A w \in V : <<v, w>> \in R

\* Of finitely many values in a total order one comes before all others.
LEMMA FirstOfMany ==
  ASSUME NEW R, NEW X, TotalOrder(R, X),
         NEW s, NEW n, NEW none, Listed(s, n, X, none), Filled(s, n, none) # {}
  PROVE  HasFirst(Filled(s, n, none), R)
<1> USE DEF TotalOrder, Listed, Filled, HasFirst
<1> DEFINE V(m) == {s[i] : i \in 1 .. m} \ {none}
           Bad == {m \in 0 .. n : V(m) # {} /\ ~\E v \in V(m) : \A w \in V(m) : <<v, w>> \in R}
<1> SUFFICES ASSUME n \in Bad PROVE FALSE
  OBVIOUS
<1>1. PICK m \in Bad : \A k \in Bad : m <= k
  <2>1. \A k \in Bad : k \in Nat
    OBVIOUS
  <2> HIDE DEF Bad
  <2> QED BY <2>1, LeastNat
<1>2. m \in 1 .. n
  <2>1. V(0) = {}
    OBVIOUS
  <2> QED BY <1>1, <2>1
<1>3. /\ V(m) = V(m - 1) \cup ({s[m]} \ {none})
      /\ V(m - 1) \subseteq X /\ V(m) \subseteq X
  <2>1. 1 .. m = 1 .. (m - 1) \cup {m}
    BY <1>2
  <2>2. 1 .. m \subseteq 1 .. n
    BY <1>2
  <2> QED BY <2>1, <2>2
<1>4. /\ V(m) # {}
      /\ ~\E v \in V(m) : \A w \in V(m) : <<v, w>> \in R
      /\ m - 1 \notin Bad /\ m - 1 \in 0 .. n
  <2>1. m - 1 \notin Bad /\ m - 1 \in 0 .. n
    <3> HIDE DEF Bad
    <3> QED BY <1>1, <1>2
  <2> QED BY <1>1, <2>1
<1>5. V(m - 1) = {} \/ \E v \in V(m - 1) : \A w \in V(m - 1) : <<v, w>> \in R
  BY <1>4
<1> DEFINE P == V(m - 1)
           Q == V(m)
<1>6. /\ Q = P \cup ({s[m]} \ {none}) /\ P \subseteq X /\ Q \subseteq X
      /\ Q # {} /\ ~\E v \in Q : \A w \in Q : <<v, w>> \in R
      /\ P = {} \/ \E v \in P : \A w \in P : <<v, w>> \in R
  BY <1>3, <1>4, <1>5
<1> HIDE DEF P, Q
<1>7. s[m] # none
  BY <1>6
<1>8. s[m] \in X /\ Q = P \cup {s[m]} /\ <<s[m], s[m]>> \in R
  BY <1>6, <1>7
<1>9. CASE P = {}
  BY <1>6, <1>8, <1>9
<1>10. CASE P # {}
  <2>1. PICK v \in P : \A w \in P : <<v, w>> \in R
    BY <1>6, <1>10
  <2>2. CASE <<v, s[m]>> \in R
    BY <1>6, <1>8, <2>1, <2>2
  <2>3. CASE <<s[m], v>> \in R
    <3>1. \A w \in P : <<s[m], w>> \in R
      BY <1>6, <1>8, <2>1, <2>3
    <3> QED BY <1>6, <1>8, <3>1
  <2> QED BY <1>6, <1>8, <2>1, <2>2, <2>3
<1> QED BY <1>9, <1>10
-----------------------------------------------------------------------------
(* Orders *)

\* The values of a type.
ValuesOf(t) ==
  IF IsQuotient(t) THEN Int \X (Nat \ {0}) ELSE IF t = BOOL THEN BOOLEAN ELSE Int

Quotients == Int \X (Nat \ {0})

\* Comparing quotients by cross products is transitive.
LEMMA CrossProducts ==
  ASSUME NEW a \in Int, NEW b \in Int, NEW c \in Int,
         NEW p \in Nat \ {0}, NEW q \in Nat \ {0}, NEW r \in Nat \ {0},
         a * q <= b * p, b * r <= c * q
  PROVE  /\ a * r <= c * p
         /\ a * q < b * p \/ b * r < c * q => a * r < c * p
<1> DEFINE x == a * r
           y == c * p
<1>1. x \in Int /\ y \in Int
  OBVIOUS
<1>2. x * q <= y * q
  <2>1. (a * q) * r <= (b * p) * r
    BY SMTT(20)
  <2>2. (b * r) * p <= (c * q) * p
    BY SMTT(20)
  <2> QED BY <2>1, <2>2, SMTT(20)
<1>3. a * q < b * p \/ b * r < c * q => x * q < y * q
  <2>1. CASE a * q < b * p
    <3>1. (a * q) * r < (b * p) * r
      BY <2>1, SMTT(20)
    <3>2. (b * r) * p <= (c * q) * p
      BY SMTT(20)
    <3> QED BY <3>1, <3>2, SMTT(20)
  <2>2. CASE b * r < c * q
    <3>1. (a * q) * r <= (b * p) * r
      BY SMTT(20)
    <3>2. (b * r) * p < (c * q) * p
      BY <2>2, SMTT(20)
    <3> QED BY <3>1, <3>2, SMTT(20)
  <2> QED BY <2>1, <2>2
<1> HIDE DEF x, y
<1>4. x <= y
  BY <1>1, <1>2, SMTT(20)
<1>5. x * q < y * q => x < y
  BY <1>1, SMTT(20)
<1> QED BY <1>3, <1>4, <1>5 DEF x, y

\* Order of two quotients is the sign of the difference of their cross
\* products.
LEMMA QuotientOrder ==
  ASSUME NEW x \in Quotients, NEW y \in Quotients
  PROVE  /\ Order(FLOAT64, x, y) \in {-1, 0, 1}
         /\ Order(FLOAT64, x, y) <= 0 <=> x[1] * y[2] <= y[1] * x[2]
         /\ Order(FLOAT64, x, y) < 0 <=> x[1] * y[2] < y[1] * x[2]
         /\ Order(FLOAT64, y, x) = -Order(FLOAT64, x, y)
<1> DEFINE a == x[1] * y[2]
           b == y[1] * x[2]
<1>1. a \in Int /\ b \in Int
  BY DEF Quotients
<1>2. Order(FLOAT64, x, y) = Sign(a - b) /\ Order(FLOAT64, y, x) = Sign(b - a)
  BY DEF Order, IsQuotient, FLOAT64
<1> HIDE DEF a, b
<1>3. /\ Sign(a - b) \in {-1, 0, 1} /\ Sign(b - a) = -Sign(a - b)
      /\ Sign(a - b) <= 0 <=> a <= b
      /\ Sign(a - b) < 0 <=> a < b
  BY <1>1 DEF Sign
<1> QED BY <1>2, <1>3 DEF a, b

\* Integers are ordered as quotients by their difference.
LEMMA IntegersAsQuotients ==
  ASSUME NEW a \in Int, NEW b \in Int
  PROVE  Order(FLOAT64, <<a, 1>>, <<b, 1>>) = Sign(a - b)
<1>1. a * 1 - b * 1 = a - b
  OBVIOUS
<1> QED BY <1>1 DEF Order, IsQuotient, FLOAT64

\* Quotients are totally ordered: a quotient between x and z.
LEMMA QuotientsOrdered ==
  ASSUME NEW x \in Quotients, NEW y \in Quotients, NEW z \in Quotients,
         Order(FLOAT64, x, y) <= 0, Order(FLOAT64, y, z) <= 0
  PROVE  /\ Order(FLOAT64, x, z) <= 0
         /\ Order(FLOAT64, x, y) < 0 \/ Order(FLOAT64, y, z) < 0
              => Order(FLOAT64, x, z) < 0
<1> DEFINE a == x[1]
           b == y[1]
           c == z[1]
           p == x[2]
           q == y[2]
           r == z[2]
<1>1. /\ a \in Int /\ b \in Int /\ c \in Int
      /\ p \in Nat \ {0} /\ q \in Nat \ {0} /\ r \in Nat \ {0}
  BY DEF Quotients
<1>2. a * q <= b * p /\ b * r <= c * q
  BY QuotientOrder
<1>3. /\ Order(FLOAT64, x, y) < 0 => a * q < b * p
      /\ Order(FLOAT64, y, z) < 0 => b * r < c * q
  BY QuotientOrder
<1>4. /\ a * r <= c * p => Order(FLOAT64, x, z) <= 0
      /\ a * r < c * p => Order(FLOAT64, x, z) < 0
  BY QuotientOrder
<1> HIDE DEF a, b, c, p, q, r
<1>5. /\ a * r <= c * p
      /\ a * q < b * p \/ b * r < c * q => a * r < c * p
  BY <1>1, <1>2, CrossProducts
<1> QED BY <1>3, <1>4, <1>5

\* The values of every type are totally ordered.
LEMMA OrderTotal ==
  ASSUME NEW t, NEW a \in ValuesOf(t), NEW b \in ValuesOf(t)
  PROVE  Order(t, a, b) \in {-1, 0, 1} /\ Order(t, b, a) = -Order(t, a, b)
<1>1. CASE IsQuotient(t)
  <2>1. a \in Quotients /\ b \in Quotients
    BY <1>1 DEF ValuesOf, Quotients
  <2>2. /\ Order(t, a, b) = Order(FLOAT64, a, b)
        /\ Order(t, b, a) = Order(FLOAT64, b, a)
    BY <1>1 DEF Order, IsQuotient, FLOAT64
  <2> QED BY <2>1, <2>2, QuotientOrder
<1>2. CASE ~IsQuotient(t) /\ t = BOOL
  BY <1>2 DEF ValuesOf, Order, Sign
<1>3. CASE ~IsQuotient(t) /\ t # BOOL
  BY <1>3 DEF ValuesOf, Order, Sign
<1> QED BY <1>1, <1>2, <1>3

LEMMA OrderTransitive ==
  ASSUME NEW t, NEW a \in ValuesOf(t), NEW b \in ValuesOf(t), NEW c \in ValuesOf(t),
         Order(t, a, b) <= 0, Order(t, b, c) <= 0
  PROVE  Order(t, a, c) <= 0
<1>1. CASE IsQuotient(t)
  <2>1. a \in Quotients /\ b \in Quotients /\ c \in Quotients
    BY <1>1 DEF ValuesOf, Quotients
  <2>2. /\ Order(t, a, b) = Order(FLOAT64, a, b)
        /\ Order(t, b, c) = Order(FLOAT64, b, c)
        /\ Order(t, a, c) = Order(FLOAT64, a, c)
    BY <1>1 DEF Order, IsQuotient, FLOAT64
  <2> QED BY <2>1, <2>2, QuotientsOrdered
<1>2. CASE ~IsQuotient(t) /\ t = BOOL
  BY <1>2 DEF ValuesOf, Order, Sign
<1>3. CASE ~IsQuotient(t) /\ t # BOOL
  BY <1>3 DEF ValuesOf, Order, Sign
<1> QED BY <1>1, <1>2, <1>3

\* The statistics of a column exist when it has a value, and lie around all
\* its values.
LEMMA StatisticsBound ==
  ASSUME NEW group, NEW f, NEW t, NEW n \in Nat, DOMAIN group = 1 .. n,
         \A i \in 1 .. n : group[i][f] \in ValuesOf(t) \cup {NULL},
         NEW k \in 1 .. n, group[k][f] # NULL
  PROVE  \E lo, hi \in {group[i][f] : i \in 1 .. n} \ {NULL} :
           /\ Statistics(group, f, t) = <<lo, hi>>
           /\ lo \in ValuesOf(t) /\ hi \in ValuesOf(t)
           /\ Order(t, lo, group[k][f]) <= 0
           /\ Order(t, hi, group[k][f]) >= 0
<1> DEFINE X == ValuesOf(t)
           s == [i \in 1 .. n |-> group[i][f]]
           vs == {group[i][f] : i \in 1 .. n} \ {NULL}
           Up == {p \in X \X X : Order(t, p[1], p[2]) <= 0}
           Down == {p \in X \X X : Order(t, p[1], p[2]) >= 0}
           lo == CHOOSE v \in vs : \A w \in vs : Holds("<=", Order(t, v, w))
           hi == CHOOSE v \in vs : \A w \in vs : Holds(">=", Order(t, v, w))
<1>1. vs \subseteq X /\ group[k][f] \in vs /\ vs # {}
  OBVIOUS
<1>2. Statistics(group, f, t) = <<lo, hi>>
  BY <1>1 DEF Statistics
<1>3. Listed(s, n, X, NULL) /\ Filled(s, n, NULL) = vs
  BY DEF Listed, Filled
<1>4. /\ \A a, b \in X : <<a, b>> \in Up \/ <<b, a>> \in Up
      /\ \A a, b \in X : <<a, b>> \in Down \/ <<b, a>> \in Down
  <2> SUFFICES ASSUME NEW a \in X, NEW b \in X
               PROVE  /\ <<a, b>> \in Up \/ <<b, a>> \in Up
                      /\ <<a, b>> \in Down \/ <<b, a>> \in Down
    OBVIOUS
  <2>1. Order(t, a, b) \in {-1, 0, 1} /\ Order(t, b, a) = -Order(t, a, b)
    BY OrderTotal
  <2> HIDE DEF X
  <2> QED BY <2>1
<1>5. /\ \A a, b, c \in X : <<a, b>> \in Up /\ <<b, c>> \in Up => <<a, c>> \in Up
      /\ \A a, b, c \in X : <<a, b>> \in Down /\ <<b, c>> \in Down => <<a, c>> \in Down
  <2> SUFFICES ASSUME NEW a \in X, NEW b \in X, NEW c \in X
               PROVE  /\ <<a, b>> \in Up /\ <<b, c>> \in Up => <<a, c>> \in Up
                      /\ <<a, b>> \in Down /\ <<b, c>> \in Down => <<a, c>> \in Down
    OBVIOUS
  <2>1. /\ Order(t, a, b) \in {-1, 0, 1} /\ Order(t, b, a) = -Order(t, a, b)
        /\ Order(t, b, c) \in {-1, 0, 1} /\ Order(t, c, b) = -Order(t, b, c)
        /\ Order(t, a, c) \in {-1, 0, 1} /\ Order(t, c, a) = -Order(t, a, c)
    BY OrderTotal
  <2>2. /\ Order(t, a, b) <= 0 /\ Order(t, b, c) <= 0 => Order(t, a, c) <= 0
        /\ Order(t, c, b) <= 0 /\ Order(t, b, a) <= 0 => Order(t, c, a) <= 0
    BY OrderTransitive
  <2> HIDE DEF X
  <2> QED BY <2>1, <2>2
<1>6. HasFirst(vs, Up) /\ HasFirst(vs, Down)
  <2>1. TotalOrder(Up, X) /\ TotalOrder(Down, X)
    BY <1>4, <1>5 DEF TotalOrder
  <2> HIDE DEF X, s, vs, Up, Down
  <2> QED BY <1>1, <1>3, <2>1, FirstOfMany
<1>7. /\ lo \in vs /\ \A w \in vs : Order(t, lo, w) <= 0
      /\ hi \in vs /\ \A w \in vs : Order(t, hi, w) >= 0
  <2>1. /\ \E v \in vs : \A w \in vs : Holds("<=", Order(t, v, w))
        /\ \E v \in vs : \A w \in vs : Holds(">=", Order(t, v, w))
    <3> HIDE DEF vs, X
    <3> QED BY <1>6 DEF Holds, HasFirst
  <2> HIDE DEF vs
  <2>2. /\ lo \in vs /\ \A w \in vs : Holds("<=", Order(t, lo, w))
        /\ hi \in vs /\ \A w \in vs : Holds(">=", Order(t, hi, w))
    BY <2>1
  <2> HIDE DEF lo, hi
  <2> QED BY <2>2 DEF Holds
<1> HIDE DEF lo, hi
<1> QED BY <1>1, <1>2, <1>7

-----------------------------------------------------------------------------
(* Comparisons made in doubles *)

\* Rounding to a double may make two integers equal and swaps none.
LEMMA RoundingMonotone ==
  ASSUME NEW a \in Int, NEW b \in Int
  PROVE  /\ ToDouble(a) \in Quotients /\ ToDouble(a) = <<ToDouble(a)[1], 1>>
         /\ ToDouble(a)[1] \in Int
         /\ a <= b => ToDouble(a)[1] <= ToDouble(b)[1]
<1>1. /\ ToDouble(a)[1] \in Int /\ ToDouble(a)[2] = 1
      /\ ToDouble(a) = <<ToDouble(a)[1], 1>>
      /\ ToDouble(a)[1] \in {a - 1, a, a + 1}
      /\ ToDouble(a)[1] # a => a % 2 = 1 /\ ToDouble(a)[1] % 4 = 0
  BY RangeAssumption DEF ToDouble, Abs
<1>2. /\ ToDouble(b)[1] \in Int
      /\ ToDouble(b)[1] \in {b - 1, b, b + 1}
      /\ ToDouble(b)[1] # b => b % 2 = 1 /\ ToDouble(b)[1] % 4 = 0
  BY RangeAssumption DEF ToDouble, Abs
<1>3. ToDouble(a) \in Quotients
  BY <1>1 DEF Quotients
<1>4. a <= b => ToDouble(a)[1] <= ToDouble(b)[1]
  BY <1>1, <1>2
<1> QED BY <1>1, <1>3, <1>4

\* A value as a quotient, and whether a double holds it.
AsQuotient(t, v) == IF IsQuotient(t) THEN v ELSE <<v, 1>>
Exact(t, v) == IsQuotient(t) \/ t \in {VARCHAR, BOOL} \/ Abs(v) <= ExactMax

\* How a value of a column compares with a literal.
OrderMeant(t, v, lit) ==
  CompareValues(OfKind(KindOf(t), v), OfKind(KindOf(lit.t), lit.x))

\* The kinds of values compare_literals compares.
LEMMA Comparable ==
  ASSUME NEW t, NEW lit, NEW a, compare_literals(t, a, lit) # <<>>
  PROVE  \/ t = VARCHAR /\ lit.t = VARCHAR
         \/ t = BOOL /\ lit.t = BOOL
         \/ t \notin {VARCHAR, BOOL} /\ lit.t \notin {VARCHAR, BOOL}
BY DEF compare_literals

\* Numbers and strings mean their quotients.
LEMMA MeantAsQuotients ==
  ASSUME NEW t, NEW lit, NEW b \in ValuesOf(t), lit.x \in ValuesOf(lit.t),
         b # NULL, lit.x # NULL, t # BOOL, lit.t # BOOL
  PROVE  /\ AsQuotient(t, b) \in Quotients /\ AsQuotient(lit.t, lit.x) \in Quotients
         /\ OrderMeant(t, b, lit)
              = Order(FLOAT64, AsQuotient(t, b), AsQuotient(lit.t, lit.x))
<1>1. AsQuotient(t, b) \in Quotients /\ AsQuotient(lit.t, lit.x) \in Quotients
  BY DEF AsQuotient, Quotients, ValuesOf
<1>2. /\ OfKind(KindOf(t), b) = <<KindOf(t), b>>
      /\ OfKind(KindOf(lit.t), lit.x) = <<KindOf(lit.t), lit.x>>
      /\ KindOf(t) \in {"q", "i"} /\ KindOf(lit.t) \in {"q", "i"}
  BY DEF OfKind, KindOf
<1>3. /\ Canonical(<<KindOf(t), b>>) = AsQuotient(t, b)
      /\ Canonical(<<KindOf(lit.t), lit.x>>) = AsQuotient(lit.t, lit.x)
  BY DEF Canonical, KindOf, AsQuotient
<1>4. <<KindOf(t), b>> # Null /\ <<KindOf(lit.t), lit.x>> # Null
  BY <1>2 DEF Null
<1> QED BY <1>1, <1>2, <1>3, <1>4 DEF OrderMeant, CompareValues

\* Order on a type is the order of the quotients.
LEMMA OrderOfQuotients ==
  ASSUME NEW t, t # BOOL, NEW a \in ValuesOf(t), NEW b \in ValuesOf(t)
  PROVE  Order(t, a, b) = Order(FLOAT64, AsQuotient(t, a), AsQuotient(t, b))
<1>1. CASE IsQuotient(t)
  BY <1>1 DEF Order, AsQuotient, IsQuotient, FLOAT64
<1>2. CASE ~IsQuotient(t)
  <2>1. a \in Int /\ b \in Int
    BY <1>2 DEF ValuesOf
  <2>2. a * 1 - b * 1 = a - b
    BY <2>1
  <2> QED BY <1>2, <2>2 DEF Order, AsQuotient, IsQuotient, FLOAT64
<1> QED BY <1>1, <1>2

\* A comparison in doubles is exact, or compares integers and only its strict
\* outcomes are used.
Trusted(t, v, lit) == Exact(t, v) /\ Exact(lit.t, lit.x)
Integral(t, lit) == ~IsQuotient(t) /\ ~IsQuotient(lit.t)

\* What the comparison of a bound with a literal says of a value inside the
\* bound: of one above a, when a is a least value, and of one below.
LEMMA BoundDecides ==
  ASSUME NEW t, NEW lit, NEW a \in ValuesOf(t), NEW b \in ValuesOf(t),
         lit.x \in ValuesOf(lit.t), a # NULL, b # NULL, lit.x # NULL,
         compare_literals(t, a, lit) # <<>>
  PROVE  LET c == compare_literals(t, a, lit)[1]
             m == OrderMeant(t, b, lit)
         IN  /\ m \in {-1, 0, 1} /\ c \in {-1, 0, 1}
             /\ Trusted(t, a, lit) =>
                  /\ Order(t, a, b) <= 0 /\ c >= 0 => m >= 0
                  /\ Order(t, a, b) >= 0 /\ c <= 0 => m <= 0
             /\ Trusted(t, a, lit) \/ Integral(t, lit) =>
                  /\ Order(t, a, b) <= 0 /\ c > 0 => m > 0
                  /\ Order(t, a, b) >= 0 /\ c < 0 => m < 0
<1> DEFINE c == compare_literals(t, a, lit)[1]
           m == OrderMeant(t, b, lit)
           o == Order(t, a, b)
<1>1. CASE t = BOOL /\ lit.t = BOOL
  <2>1. a \in BOOLEAN /\ b \in BOOLEAN /\ lit.x \in BOOLEAN
    BY <1>1 DEF ValuesOf, IsQuotient, BOOL
  <2>2. c = Order(BOOL, a, lit.x)
    BY <1>1 DEF compare_literals, BOOL, VARCHAR
  <2>3. m = Order(BOOL, b, lit.x)
    BY <1>1 DEF OrderMeant, OfKind, KindOf, CompareValues, Null, IsQuotient, BOOL
  <2>4. o = Order(BOOL, a, b)
    BY <1>1
  <2>5. \A x, y \in BOOLEAN :
          Order(BOOL, x, y) = IF x = y THEN 0 ELSE IF x THEN 1 ELSE -1
    BY DEF Order, Sign, IsQuotient, BOOL
  <2> HIDE DEF c, m, o
  <2>6. /\ m \in {-1, 0, 1} /\ c \in {-1, 0, 1}
        /\ o <= 0 /\ c >= 0 => m >= 0
        /\ o >= 0 /\ c <= 0 => m <= 0
        /\ o <= 0 /\ c > 0 => m > 0
        /\ o >= 0 /\ c < 0 => m < 0
    BY <2>1, <2>2, <2>3, <2>4, <2>5
  <2> QED BY <2>6 DEF c, m, o
<1> DEFINE x == AsQuotient(t, a)
           y == AsQuotient(t, b)
           z == AsQuotient(lit.t, lit.x)
<1>2. ASSUME t # BOOL, lit.t # BOOL
      PROVE  /\ x \in Quotients /\ y \in Quotients /\ z \in Quotients
             /\ m = Order(FLOAT64, y, z) /\ o = Order(FLOAT64, x, y)
             /\ m \in {-1, 0, 1}
  <2>1. /\ x \in Quotients /\ y \in Quotients /\ z \in Quotients
        /\ m = Order(FLOAT64, y, z)
    BY <1>2, MeantAsQuotients
  <2>2. o = Order(FLOAT64, x, y)
    BY <1>2, OrderOfQuotients
  <2> QED BY <2>1, <2>2, QuotientOrder
<1>3. ASSUME t # BOOL, lit.t # BOOL, c = Order(FLOAT64, x, z)
      PROVE  /\ c \in {-1, 0, 1}
             /\ o <= 0 /\ c >= 0 => m >= 0
             /\ o >= 0 /\ c <= 0 => m <= 0
             /\ o <= 0 /\ c > 0 => m > 0
             /\ o >= 0 /\ c < 0 => m < 0
  <2> HIDE DEF c, m, o, x, y, z
  <2>1. /\ Order(FLOAT64, x, z) \in {-1, 0, 1}
        /\ Order(FLOAT64, z, x) = -Order(FLOAT64, x, z)
        /\ Order(FLOAT64, x, y) \in {-1, 0, 1}
        /\ Order(FLOAT64, y, x) = -Order(FLOAT64, x, y)
        /\ Order(FLOAT64, y, z) \in {-1, 0, 1}
        /\ Order(FLOAT64, z, y) = -Order(FLOAT64, y, z)
    BY <1>2, <1>3, QuotientOrder
  <2>2. Order(FLOAT64, x, y) <= 0 /\ Order(FLOAT64, z, x) <= 0 =>
          /\ Order(FLOAT64, z, y) <= 0
          /\ Order(FLOAT64, z, x) < 0 => Order(FLOAT64, z, y) < 0
    BY <1>2, <1>3, QuotientsOrdered
  <2>3. Order(FLOAT64, y, x) <= 0 /\ Order(FLOAT64, x, z) <= 0 =>
          /\ Order(FLOAT64, y, z) <= 0
          /\ Order(FLOAT64, x, z) < 0 => Order(FLOAT64, y, z) < 0
    BY <1>2, <1>3, QuotientsOrdered
  <2> QED BY <1>2, <1>3, <2>1, <2>2, <2>3
<1>4. CASE t = VARCHAR /\ lit.t = VARCHAR
  <2>1. t # BOOL /\ lit.t # BOOL
    BY <1>4 DEF VARCHAR, BOOL
  <2>2. c = Order(t, a, lit.x)
    BY <1>4 DEF compare_literals
  <2>3. c = Order(FLOAT64, x, z)
    BY <1>4, <2>1, <2>2, OrderOfQuotients
  <2> HIDE DEF c, m, o, x, y, z
  <2>4. /\ m \in {-1, 0, 1} /\ c \in {-1, 0, 1}
        /\ o <= 0 /\ c >= 0 => m >= 0
        /\ o >= 0 /\ c <= 0 => m <= 0
        /\ o <= 0 /\ c > 0 => m > 0
        /\ o >= 0 /\ c < 0 => m < 0
    BY <1>2, <1>3, <2>1, <2>3
  <2> QED BY <2>4 DEF c, m, o
<1>5. CASE t \notin {VARCHAR, BOOL} /\ lit.t \notin {VARCHAR, BOOL}
  <2>1. c = Order(FLOAT64, AsDouble(t, a), AsDouble(lit.t, lit.x))
    BY <1>5 DEF compare_literals
  <2>2. CASE Trusted(t, a, lit)
    <3>1. AsDouble(t, a) = x /\ AsDouble(lit.t, lit.x) = z
      BY <1>5, <2>2 DEF Trusted, Exact, AsDouble, AsQuotient, ToDouble
    <3>2. t # BOOL /\ lit.t # BOOL /\ c = Order(FLOAT64, x, z)
      BY <1>5, <2>1, <3>1
    <3> HIDE DEF c, m, o, x, y, z
    <3>3. /\ m \in {-1, 0, 1} /\ c \in {-1, 0, 1}
          /\ o <= 0 /\ c >= 0 => m >= 0
          /\ o >= 0 /\ c <= 0 => m <= 0
          /\ o <= 0 /\ c > 0 => m > 0
          /\ o >= 0 /\ c < 0 => m < 0
      BY <1>2, <1>3, <3>2
    <3> QED BY <3>3 DEF c, m, o
  <2>3. CASE ~Trusted(t, a, lit)
    <3> DEFINE d == AsDouble(t, a)
               e == AsDouble(lit.t, lit.x)
    <3>1. d \in Quotients /\ e \in Quotients
      BY <1>5, RoundingMonotone DEF AsDouble, ValuesOf, Quotients
    <3>2. c \in {-1, 0, 1} /\ m \in {-1, 0, 1}
      <4>1. c = Order(FLOAT64, d, e)
        BY <2>1
      <4> HIDE DEF c, m, d, e, o, x, y, z
      <4> QED BY <1>2, <1>5, <3>1, <4>1, QuotientOrder
    <3>3. ASSUME Integral(t, lit)
          PROVE  /\ o <= 0 /\ c > 0 => m > 0
                 /\ o >= 0 /\ c < 0 => m < 0
      <4>1. a \in Int /\ b \in Int /\ lit.x \in Int
        BY <1>5, <3>3 DEF Integral, ValuesOf
      <4>2. /\ x = <<a, 1>> /\ y = <<b, 1>> /\ z = <<lit.x, 1>>
            /\ d = ToDouble(a) /\ e = ToDouble(lit.x)
        BY <3>3 DEF Integral, AsQuotient, AsDouble
      <4>3. c = Sign(ToDouble(a)[1] - ToDouble(lit.x)[1])
        <5> DEFINE da == ToDouble(a)[1]
                   dl == ToDouble(lit.x)[1]
        <5>1. /\ ToDouble(a) = <<da, 1>> /\ ToDouble(lit.x) = <<dl, 1>>
              /\ da \in Int /\ dl \in Int
          BY <4>1, RoundingMonotone
        <5>2. c = Order(FLOAT64, <<da, 1>>, <<dl, 1>>)
          BY <2>1, <4>2, <5>1
        <5> HIDE DEF c, da, dl
        <5>3. Order(FLOAT64, <<da, 1>>, <<dl, 1>>) = Sign(da - dl)
          BY <5>1, IntegersAsQuotients
        <5> QED BY <5>2, <5>3 DEF da, dl
      <4>4. m = Sign(b - lit.x) /\ o = Sign(a - b)
        BY <1>2, <1>5, <4>1, <4>2 DEF Order, IsQuotient, FLOAT64
      <4>5. /\ lit.x <= a => ToDouble(lit.x)[1] <= ToDouble(a)[1]
            /\ a <= lit.x => ToDouble(a)[1] <= ToDouble(lit.x)[1]
            /\ ToDouble(a)[1] \in Int /\ ToDouble(lit.x)[1] \in Int
        BY <4>1, RoundingMonotone DEF Quotients
      <4> HIDE DEF c, m, o
      <4> QED BY <4>1, <4>3, <4>4, <4>5 DEF Sign
    <3> HIDE DEF c, m, o
    <3> QED BY <2>3, <3>2, <3>3 DEF c, m, o
  <2> QED BY <2>2, <2>3
<1> QED BY <1>1, <1>4, <1>5, Comparable

-----------------------------------------------------------------------------
(* Row groups *)

\* A file whose rows have values of their columns' types, and a pushed down
\* comparison of a column with a literal.
IsFile(file) ==
  /\ Len(file.schema) \in Nat
  /\ \A g \in DOMAIN file.groups :
       \E n \in Nat :
         /\ DOMAIN file.groups[g] = 1 .. n
         /\ \A r \in 1 .. n, f \in 1 .. Len(file.schema) :
              file.groups[g][r][f] \in ValuesOf(file.schema[f].type) \cup {NULL}

IsPredicate(pred) ==
  /\ is_comparison(pred.op)
  /\ pred.lit.x \in ValuesOf(pred.lit.t) \cup {NULL}

\* compare_literals compares numbers as doubles.  If the file has the column,
\* either a double holds the literal and each value of the column, or all of
\* them are integers and the comparison needs only strict outcomes.
DoublesSuffice(file, pred) ==
  LET f == find_field(file.schema, pred.col) + 1
      t == file.schema[f].type
  IN  f # 0 =>
        \/ pred.op \in {"=", "<=", ">="} /\ Integral(t, pred.lit)
        \/ /\ pred.lit.x # NULL => Exact(pred.lit.t, pred.lit.x)
           /\ \A g \in DOMAIN file.groups :
                \A r \in DOMAIN file.groups[g] :
                  file.groups[g][r][f] # NULL => Exact(t, file.groups[g][r][f])

\* When the bounds of a column prove a predicate empty, no value between
\* them satisfies it.
LEMMA BoundsSound ==
  ASSUME NEW pred, is_comparison(pred.op), NEW t,
         NEW lo \in ValuesOf(t), NEW hi \in ValuesOf(t), NEW v \in ValuesOf(t),
         lo # NULL, hi # NULL, v # NULL, pred.lit.x # NULL,
         pred.lit.x \in ValuesOf(pred.lit.t),
         Order(t, lo, v) <= 0, Order(t, hi, v) >= 0,
         \/ pred.op \in {"=", "<=", ">="} /\ Integral(t, pred.lit)
         \/ Trusted(t, lo, pred.lit) /\ Trusted(t, hi, pred.lit),
         BoundsProveEmpty(pred.op, compare_literals(t, lo, pred.lit),
                          compare_literals(t, hi, pred.lit))
  PROVE  ~Holds(pred.op, OrderMeant(t, v, pred.lit))
<1> DEFINE cl == compare_literals(t, lo, pred.lit)
           ch == compare_literals(t, hi, pred.lit)
           l == cl[1]
           h == ch[1]
           m == OrderMeant(t, v, pred.lit)
           T == Trusted(t, lo, pred.lit) /\ Trusted(t, hi, pred.lit)
           I == Integral(t, pred.lit)
<1>1. cl # <<>> /\ ch # <<>>
  BY DEF BoundsProveEmpty
<1>2. /\ m \in {-1, 0, 1} /\ l \in {-1, 0, 1}
      /\ T /\ l >= 0 => m >= 0
      /\ (T \/ I) /\ l > 0 => m > 0
  BY <1>1, BoundDecides
<1>3. /\ h \in {-1, 0, 1}
      /\ T /\ h <= 0 => m <= 0
      /\ (T \/ I) /\ h < 0 => m < 0
  BY <1>1, BoundDecides
<1>4. \/ pred.op \in {"=", "<=", ">="} /\ I
      \/ T
  OBVIOUS
<1>5. /\ pred.op = "=" => l > 0 \/ h < 0
      /\ pred.op = "<>" => l = 0 /\ h = 0
      /\ pred.op = "<" => l >= 0
      /\ pred.op = "<=" => l > 0
      /\ pred.op = ">" => h <= 0
      /\ pred.op = ">=" => h < 0
  BY DEF BoundsProveEmpty
<1> HIDE DEF l, h, T, I, m
<1>6. pred.op \in {"=", "<>", "<", "<=", ">", ">="}
  BY DEF is_comparison
<1>7. ~Holds(pred.op, m)
  BY <1>2, <1>3, <1>4, <1>5, <1>6 DEF Holds
<1> QED BY <1>7 DEF m

\* A row satisfies a predicate only if its value is not NULL and compares
\* with the literal, which is not NULL either, as the operator asks.
LEMMA SatisfiedMeans ==
  ASSUME NEW file, NEW row, NEW pred, is_comparison(pred.op),
         find_field(file.schema, pred.col) + 1 # 0,
         Satisfies(file, row, pred)
  PROVE  LET f == find_field(file.schema, pred.col) + 1
         IN  /\ row[f] # NULL /\ pred.lit.x # NULL
             /\ Holds(pred.op, OrderMeant(file.schema[f].type, row[f], pred.lit))
<1> DEFINE f == find_field(file.schema, pred.col) + 1
           a == OfKind(KindOf(file.schema[f].type), row[f])
           b == OfKind(KindOf(pred.lit.t), pred.lit.x)
<1>1. BinaryMeaning(pred.op, a, b)[2] = TRUE
  BY DEF Satisfies
<1>2. ~is_logical(pred.op)
  BY DEF is_comparison, is_logical
<1>3. a # Null /\ b # Null /\ Holds(pred.op, CompareValues(a, b)) = TRUE
  <2> HIDE DEF a, b, f
  <2>1. CASE a = Null \/ b = Null
    <3>1. BinaryMeaning(pred.op, a, b) = <<"n", NULL>>
      BY <1>2, <2>1 DEF BinaryMeaning, Null
    <3> QED BY <1>1, <3>1, NullAssumption
  <2>2. CASE ~(a = Null \/ b = Null)
    <3>1. BinaryMeaning(pred.op, a, b) = <<"b", Holds(pred.op, CompareValues(a, b))>>
      BY <1>2, <2>2 DEF BinaryMeaning
    <3> QED BY <1>1, <2>2, <3>1
  <2> QED BY <2>1, <2>2
<1>4. row[f] # NULL /\ pred.lit.x # NULL
  BY <1>3 DEF OfKind
<1> QED BY <1>3, <1>4 DEF OrderMeant

\* No row of a row group that evaluate_pruning drops satisfies the pushed
\* down predicates, whatever the size of the file, its values and the
\* predicates: leaving the group out of the scan changes no result.
THEOREM RowGroupsSkippedSoundly ==
  ASSUME NEW file, IsFile(file), NEW preds,
         \A i \in DOMAIN preds : IsPredicate(preds[i]) /\ DoublesSuffice(file, preds[i]),
         NEW g \in DOMAIN file.groups \ evaluate_pruning(file, preds),
         NEW r \in DOMAIN file.groups[g]
  PROVE  ~SatisfiesAll(file, file.groups[g][r], preds)
<1> DEFINE Field_(i) == find_field(file.schema, preds[i].col) + 1
           Type_(i) == file.schema[Field_(i)].type
<1>1. PICK i \in DOMAIN preds :
        /\ Field_(i) # 0
        /\ predicate_proves_empty(preds[i], Type_(i),
                                  Statistics(file.groups[g], Field_(i), Type_(i)))
  BY DEF evaluate_pruning
<1> DEFINE pred == preds[i]
           group == file.groups[g]
           f == find_field(file.schema, pred.col) + 1
           t == file.schema[f].type
           v == group[r][f]
<1>2. f # 0 /\ predicate_proves_empty(pred, t, Statistics(group, f, t))
  BY <1>1
<1> SUFFICES ASSUME Satisfies(file, group[r], pred) PROVE FALSE
  BY DEF SatisfiesAll
<1>3. IsPredicate(pred) /\ is_comparison(pred.op) /\ DoublesSuffice(file, pred)
  BY DEF IsPredicate
<1>4. v # NULL /\ pred.lit.x # NULL /\ Holds(pred.op, OrderMeant(t, v, pred.lit))
  <2> HIDE DEF pred, group
  <2> QED BY <1>2, <1>3, SatisfiedMeans
<1>5. f \in 1 .. Len(file.schema)
  <2>1. Len(file.schema) \in Nat
    BY DEF IsFile
  <2>2. f \in 0 .. Len(file.schema)
    BY <2>1, FieldFound
  <2> HIDE DEF f
  <2> QED BY <1>2, <2>1, <2>2
<1>6. PICK n \in Nat :
        /\ DOMAIN group = 1 .. n
        /\ \A k \in 1 .. n : group[k][f] \in ValuesOf(t) \cup {NULL}
  <2>1. PICK n \in Nat :
          /\ DOMAIN group = 1 .. n
          /\ \A k \in 1 .. n, j \in 1 .. Len(file.schema) :
               group[k][j] \in ValuesOf(file.schema[j].type) \cup {NULL}
    BY DEF IsFile
  <2> HIDE DEF group, f
  <2> QED BY <1>5, <2>1
<1>7. pred.lit.x \in ValuesOf(pred.lit.t) /\ v \in ValuesOf(t) /\ r \in 1 .. n
  BY <1>3, <1>4, <1>6 DEF IsPredicate
<1>8. PICK lo, hi \in {group[k][f] : k \in 1 .. n} \ {NULL} :
        /\ Statistics(group, f, t) = <<lo, hi>>
        /\ lo \in ValuesOf(t) /\ hi \in ValuesOf(t)
        /\ Order(t, lo, v) <= 0 /\ Order(t, hi, v) >= 0
  <2> HIDE DEF group, f, t, pred
  <2> QED BY <1>4, <1>6, <1>7, StatisticsBound
<1>9. BoundsProveEmpty(pred.op, compare_literals(t, lo, pred.lit),
                       compare_literals(t, hi, pred.lit))
  <2> HIDE DEF group, f, t, pred
  <2> QED BY <1>2, <1>8 DEF predicate_proves_empty
<1>10. \/ pred.op \in {"=", "<=", ">="} /\ Integral(t, pred.lit)
       \/ Trusted(t, lo, pred.lit) /\ Trusted(t, hi, pred.lit)
  <2>1. \/ pred.op \in {"=", "<=", ">="} /\ Integral(t, pred.lit)
        \/ /\ Exact(pred.lit.t, pred.lit.x)
           /\ \A k \in 1 .. n : group[k][f] # NULL => Exact(t, group[k][f])
    BY <1>2, <1>3, <1>4, <1>6 DEF DoublesSuffice
  <2> HIDE DEF group, f, t, pred
  <2>2. (\A k \in 1 .. n : group[k][f] # NULL => Exact(t, group[k][f]))
          => Exact(t, lo) /\ Exact(t, hi)
    BY <1>8
  <2> QED BY <2>1, <2>2 DEF Trusted
<1>11. lo # NULL /\ hi # NULL
  BY <1>8
<1> HIDE DEF v, t, f, pred, group
<1> QED BY <1>3, <1>4, <1>7, <1>8, <1>9, <1>10, <1>11, BoundsSound

\* The restriction to numbers that doubles hold is needed: with the widths of
\* the machine (2^53 is a multiple of 4) a row group of the one value 2^53 is
\* dropped for the predicate "< 2^53 + 1", which the value satisfies.
THEOREM LossyComparisonSkipsARow ==
  ASSUME NEW name, ExactMax % 4 = 0, ExactMax # NULL, ExactMax + 1 # NULL
  PROVE  LET file == [schema |-> <<Field(name, INT64)>>, groups |-> <<<<<<ExactMax>>>>>>]
             pred == [col |-> name, op |-> "<", lit |-> [t |-> INT64, x |-> ExactMax + 1]]
         IN  /\ IsFile(file) /\ IsPredicate(pred)
             /\ 1 \in DOMAIN file.groups \ evaluate_pruning(file, <<pred>>)
             /\ SatisfiesAll(file, file.groups[1][1], <<pred>>)
<1> DEFINE lit == [t |-> INT64, x |-> ExactMax + 1]
           pred == [col |-> name, op |-> "<", lit |-> lit]
           schema == <<Field(name, INT64)>>
           group == <<<<ExactMax>>>>
           file == [schema |-> schema, groups |-> <<group>>]
<1>1. ExactMax \in Nat
  BY RangeAssumption
<1>2. find_field(schema, name) + 1 = 1
  <2>1. {i \in 1 .. Len(schema) : schema[i].name = name} = {1}
    BY DEF Field
  <2>2. Min({1}) = 1
    BY DEF Min
  <2>3. SelectInSeq(schema, LAMBDA f : f.name = name) = 1
    BY <2>1, <2>2 DEF SelectInSeq
  <2> QED BY <2>3 DEF find_field
<1>3. schema[1].type = INT64 /\ ~IsQuotient(INT64) /\ INT64 \notin {BOOL, VARCHAR}
  BY DEF Field, IsQuotient, INT64, BOOL, VARCHAR
<1>4. IsFile(file)
  <2>1. ValuesOf(INT64) = Int
    BY <1>3 DEF ValuesOf
  <2>2. Len(file.schema) = 1 /\ DOMAIN file.groups = {1} /\ file.groups[1] = group
    OBVIOUS
  <2>3. DOMAIN group = 1 .. 1 /\ group[1] = <<ExactMax>> /\ group[1][1] \in Int
    BY <1>1
  <2>4. file.schema[1].type = INT64
    BY <1>3
  <2>5. \A r \in 1 .. 1, f \in 1 .. 1 :
          group[r][f] \in ValuesOf(file.schema[f].type) \cup {NULL}
    <3> HIDE DEF file, group
    <3>1. \A r \in 1 .. 1 : r = 1
      OBVIOUS
    <3> QED BY <2>1, <2>3, <2>4, <3>1
  <2> HIDE DEF file, group
  <2>6. \A g \in DOMAIN file.groups : g = 1 /\ file.groups[g] = group
    BY <2>2
  <2>7. \E n \in Nat :
          /\ DOMAIN group = 1 .. n
          /\ \A r \in 1 .. n, f \in 1 .. Len(file.schema) :
               group[r][f] \in ValuesOf(file.schema[f].type) \cup {NULL}
    <3>1. Len(file.schema) = 1 /\ 1 \in Nat
      BY <2>2
    <3> QED BY <2>3, <2>5, <3>1, Zenon
  <2>8. \A g \in DOMAIN file.groups :
          \E n \in Nat :
            /\ DOMAIN file.groups[g] = 1 .. n
            /\ \A r \in 1 .. n, f \in 1 .. Len(file.schema) :
                 file.groups[g][r][f] \in ValuesOf(file.schema[f].type) \cup {NULL}
    BY <2>6, <2>7, Zenon
  <2> QED BY <2>2, <2>8 DEF IsFile
<1>5. IsPredicate(pred)
  BY <1>1, <1>3 DEF IsPredicate, ValuesOf, is_comparison
<1>6. Statistics(group, 1, INT64) = <<ExactMax, ExactMax>>
  <2>1. {group[i][1] : i \in DOMAIN group} \ {NULL} = {ExactMax}
    OBVIOUS
  <2>2. Order(INT64, ExactMax, ExactMax) = 0
    BY <1>1, <1>3 DEF Order, Sign
  <2> QED BY <2>1, <2>2 DEF Statistics, Holds
<1>7. compare_literals(INT64, ExactMax, lit) = <<0>>
  <2>1. ToDouble(ExactMax) = <<ExactMax, 1>>
    BY <1>1 DEF ToDouble, Abs
  <2>2. ToDouble(ExactMax + 1) = <<ExactMax, 1>>
    BY <1>1 DEF ToDouble, Abs
  <2>3. Order(FLOAT64, <<ExactMax, 1>>, <<ExactMax, 1>>) = 0
    BY <1>1, IntegersAsQuotients DEF Sign
  <2> QED BY <1>3, <2>1, <2>2, <2>3 DEF compare_literals, AsDouble
<1>8. 1 \in DOMAIN file.groups \ evaluate_pruning(file, <<pred>>)
  <2>1. predicate_proves_empty(pred, INT64, Statistics(group, 1, INT64))
    BY <1>6, <1>7 DEF predicate_proves_empty, BoundsProveEmpty
  <2>2. /\ file.groups[1] = group /\ file.schema = schema
        /\ DOMAIN <<pred>> = {1} /\ <<pred>>[1] = pred /\ pred.col = name
        /\ DOMAIN file.groups = {1}
    OBVIOUS
  <2> HIDE DEF file, pred, group, schema
  <2> QED BY <1>2, <1>3, <2>1, <2>2 DEF evaluate_pruning
<1>9. SatisfiesAll(file, file.groups[1][1], <<pred>>)
  <2>1. OrderMeant(INT64, ExactMax, lit) = -1
    <3>1. OrderMeant(INT64, ExactMax, lit)
            = Order(FLOAT64, <<ExactMax, 1>>, <<ExactMax + 1, 1>>)
      BY <1>1, <1>3, MeantAsQuotients DEF ValuesOf, AsQuotient
    <3>2. Order(FLOAT64, <<ExactMax, 1>>, <<ExactMax + 1, 1>>) = Sign(-1)
      BY <1>1, IntegersAsQuotients
    <3> QED BY <3>1, <3>2 DEF Sign
  <2> DEFINE a == OfKind(KindOf(INT64), ExactMax)
             b == OfKind(KindOf(lit.t), lit.x)
  <2>2. BinaryMeaning("<", a, b)[2] = TRUE
    <3>1. a # Null /\ b # Null
      BY <1>3 DEF OfKind, KindOf, Null
    <3>2. Holds("<", CompareValues(a, b))
      BY <2>1 DEF OrderMeant, Holds
    <3> HIDE DEF a, b
    <3>3. BinaryMeaning("<", a, b) = <<"b", Holds("<", CompareValues(a, b))>>
      BY <3>1 DEF BinaryMeaning, is_logical, is_comparison
    <3>4. Holds("<", CompareValues(a, b)) = TRUE
      BY <3>2 DEF Holds
    <3> QED BY <3>3, <3>4
  <2>3. /\ file.groups[1][1] = <<ExactMax>> /\ file.schema = schema
        /\ DOMAIN <<pred>> = {1} /\ <<pred>>[1] = pred
        /\ pred.col = name /\ pred.op = "<" /\ pred.lit = lit
    OBVIOUS
  <2>4. <<ExactMax>>[1] = ExactMax
    OBVIOUS
  <2> HIDE DEF file, pred, schema, lit
  <2>5. Satisfies(file, <<ExactMax>>, pred)
    BY <1>2, <1>3, <2>2, <2>3, <2>4 DEF Satisfies
  <2> QED BY <2>3, <2>5 DEF SatisfiesAll
<1> QED BY <1>4, <1>5, <1>8, <1>9

-----------------------------------------------------------------------------
(* Partitions *)

\* A file of a partition that holds one value of the column is dropped only
\* if that value does not satisfy the predicate.
THEOREM IdentityPartitionsSkippedSoundly ==
  ASSUME NEW t, NEW v \in ValuesOf(t), v # NULL, NEW lit,
         lit.x \in ValuesOf(lit.t), lit.x # NULL, NEW op, is_comparison(op),
         \/ op \in {"=", "<=", ">="} /\ Integral(t, lit)
         \/ Trusted(t, v, lit),
         ComparesEmpty(op, <<<<t, v>>>>, <<<<lit.t, lit.x>>>>, TRUE)
  PROVE  ~Holds(op, OrderMeant(t, v, lit))
<1> DEFINE cmp == compare_literals(t, v, lit)
           c == cmp[1]
           m == OrderMeant(t, v, lit)
<1>1. CompareStored(<<t, v>>, <<lit.t, lit.x>>) # <<>>
      /\ proves_empty(op, CompareStored(<<t, v>>, <<lit.t, lit.x>>)[1], TRUE)
  BY DEF ComparesEmpty, ProvesEmpty
<1>2. CompareStored(<<t, v>>, <<lit.t, lit.x>>) = cmp
  BY <1>1 DEF CompareStored, compare_literals
<1>3. cmp # <<>> /\ proves_empty(op, c, TRUE)
  BY <1>1, <1>2
<1>4. Order(t, v, v) = 0
  BY OrderTotal
<1>5. /\ m \in {-1, 0, 1} /\ c \in {-1, 0, 1}
      /\ Trusted(t, v, lit) => (c >= 0 => m >= 0) /\ (c <= 0 => m <= 0)
      /\ Trusted(t, v, lit) \/ Integral(t, lit) => (c > 0 => m > 0) /\ (c < 0 => m < 0)
  BY <1>3, <1>4, BoundDecides
<1>6. op \in {"=", "<>", "<", "<=", ">", ">="}
  BY DEF is_comparison
<1> HIDE DEF c, m
<1>7. ~Holds(op, m)
  BY <1>3, <1>5, <1>6 DEF proves_empty, Holds
<1> QED BY <1>7 DEF m

\* A file of a partition by a coarser, monotonic transform T of the column
\* (day, month, year) is dropped only if no value with that transform
\* satisfies the predicate: also where T[v] = T[l] although v # l, for every
\* operator, and whatever the comparison in doubles loses.
THEOREM CoarsePartitionsSkippedSoundly ==
  ASSUME NEW T \in [Int -> Int], \A a, b \in Int : a <= b => T[a] <= T[b],
         NEW v \in Int, NEW l \in Int, NEW op, is_comparison(op),
         NEW t, NEW u, {t, u} \cap {VARCHAR, BOOL} = {}, ~IsQuotient(t), ~IsQuotient(u),
         ComparesEmpty(op, <<<<t, T[v]>>>>, <<<<u, T[l]>>>>, FALSE)
  PROVE  ~Holds(op, Order(DATE32, v, l))
<1> DEFINE x == ToDouble(T[v])[1]
           y == ToDouble(T[l])[1]
           c == Order(FLOAT64, ToDouble(T[v]), ToDouble(T[l]))
<1>1. CompareStored(<<t, T[v]>>, <<u, T[l]>>) = <<c>>
  BY DEF CompareStored, AsDouble
<1>2. proves_empty(op, c, FALSE)
  <2>1. ProvesEmpty(op, CompareStored(<<t, T[v]>>, <<u, T[l]>>), FALSE)
    BY DEF ComparesEmpty
  <2> HIDE DEF c
  <2>2. <<c>>[1] = c
    OBVIOUS
  <2> QED BY <1>1, <2>1, <2>2 DEF ProvesEmpty
<1>3. /\ ToDouble(T[v]) = <<x, 1>> /\ ToDouble(T[l]) = <<y, 1>>
      /\ x \in Int /\ y \in Int
      /\ T[v] <= T[l] => x <= y
      /\ T[l] <= T[v] => y <= x
  BY RoundingMonotone
<1>4. c = Sign(x - y)
  <2> HIDE DEF x, y
  <2> QED BY <1>3, IntegersAsQuotients
<1>5. Order(DATE32, v, l) = Sign(v - l)
  BY DEF Order, IsQuotient, DATE32, BOOL
<1> HIDE DEF c, x, y
<1>6. /\ c > 0 => v > l
      /\ c < 0 => v < l
      /\ c \in {-1, 0, 1}
  BY <1>3, <1>4 DEF Sign
<1>7. op \in {"=", "<>", "<", "<=", ">", ">="}
  BY DEF is_comparison
<1> QED BY <1>2, <1>5, <1>6, <1>7 DEF proves_empty, Holds, Sign
=============================================================================
