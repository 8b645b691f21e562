--------------------------- MODULE HashJoinProofs ---------------------------
(***************************************************************************)
(* Safety of the joins for all inputs, hashes, budgets and failures: the   *)
(* number of buckets honours the budget, one bucket's build table is held  *)
(* at a time, the scratch directory is removed, HashJoinOperator loads     *)
(* each bucket once, and the result is the join.                           *)
(***************************************************************************)
EXTENDS HashJoinOperator, TLAPS

\* The facts about the plan that no step changes.
Budgeted ==
  /\ estimate \in Nat
  /\ partition_count \in Nat \ {0}
  /\ BucketsFitBudget

\* Before next() is first called no build table is held by a partitioned
\* join; this is what lets spilling change the build files.
NoTableYet ==
  partition_count > 1 /\ phase \in {"new", "spill_build", "spill_probe"}
    => right_table = {}

\* Buckets ahead have not been read, and the one under way has been read
\* only if it is marked as built.
ReadsMarked ==
  /\ current_partition \in Nat
  /\ reads \in [Partitions -> Nat]
  /\ join_type \in {"Inner", "LeftOuter"} =>
       \A i \in Partitions :
         /\ reads[i] <= 1
         /\ i > current_partition => reads[i] = 0
         /\ i = current_partition /\ reads[i] = 1 => current_partition_built

\* The inductive invariant.
IInv == Budgeted /\ NoTableYet /\ OneBucketResident /\ ScratchRemoved
          /\ ReadsMarked

\* Rounding 1.5 * bytes / budget up leaves no bucket over the budget.
LEMMA RoundedUp ==
  ASSUME NEW bytes \in Nat, NEW budget \in Nat \ {0}
  PROVE  LET raw == (3 * bytes + 2 * budget - 1) \div (2 * budget)
         IN  raw \in Nat /\ bytes <= budget * raw
<1> DEFINE n == 3 * bytes + 2 * budget - 1
           d == 2 * budget
           raw == n \div d
<1>1. n \in Nat /\ d \in Nat /\ d > 0
  OBVIOUS
<1>2. raw \in Nat /\ n = d * raw + (n % d) /\ n % d \in 0 .. d - 1
  <2> HIDE DEF n, d
  <2> QED BY <1>1
<1>3. d * raw = 2 * (budget * raw)
  <2> HIDE DEF raw
  <2> QED BY <1>2
<1>4. budget * raw \in Nat
  <2> HIDE DEF raw
  <2> QED BY <1>2
<1>5. 3 * bytes <= 2 * (budget * raw)
  <2> DEFINE product == budget * raw
             rest == n % d
  <2>1. 3 * bytes + 2 * budget - 1 = 2 * product + rest
    BY <1>2, <1>3
  <2>2. rest <= 2 * budget - 1 /\ rest \in Int /\ product \in Nat
    BY <1>2, <1>4
  <2> HIDE DEF product, rest
  <2>3. 3 * bytes <= 2 * product
    BY <2>1, <2>2
  <2> QED BY <2>3 DEF product
<1>6. bytes <= budget * raw
  <2> DEFINE product == budget * raw
  <2>1. product \in Nat /\ 3 * bytes <= 2 * product
    BY <1>4, <1>5
  <2> HIDE DEF product
  <2>2. bytes <= product
    BY <2>1
  <2> QED BY <2>2 DEF product
<1> QED BY <1>2, <1>6

\* choose_partition_count returns a positive number of buckets that honours
\* the budget or is the ceiling.
LEMMA ChosenCount ==
  ASSUME NEW rows \in EstimatedRows
  PROVE  LET count == choose_partition_count(rows)
         IN  /\ count \in 1 .. kMaxPartitions
             /\ \/ BudgetBytes = 0
                \/ count = kMaxPartitions
                \/ rows * RowWidth <= BudgetBytes * count
<1> DEFINE bytes == rows * RowWidth
           raw == (3 * bytes + 2 * BudgetBytes - 1) \div (2 * BudgetBytes)
<1>1. rows \in Nat /\ BudgetBytes \in Nat /\ RowWidth \in Nat
        /\ kMaxPartitions \in Nat /\ kMaxPartitions >= 2
  BY BudgetAssumption
<1>2. bytes \in Nat
  BY <1>1
<1>3. CASE rows = 0 \/ BudgetBytes = 0 \/ bytes <= BudgetBytes
  <2>1. choose_partition_count(rows) = 1
    BY <1>3 DEF choose_partition_count
  <2>2. BudgetBytes = 0 \/ bytes <= BudgetBytes * 1
    <3>1. rows = 0 => bytes = 0
      BY <1>1
    <3> HIDE DEF bytes
    <3> QED BY <1>1, <1>2, <1>3, <3>1
  <2> QED BY <2>1, <2>2, <1>1
<1>4. CASE ~(rows = 0 \/ BudgetBytes = 0 \/ bytes <= BudgetBytes)
  <2>1. raw \in Nat /\ bytes <= BudgetBytes * raw
    <3> HIDE DEF bytes
    <3> QED BY <1>1, <1>2, <1>4, RoundedUp
  <2> DEFINE two == IF raw < 2 THEN 2 ELSE raw
  <2>2. choose_partition_count(rows)
          = IF two < kMaxPartitions THEN two ELSE kMaxPartitions
    BY <1>4 DEF choose_partition_count
  <2>3. two \in Nat /\ two >= 2 /\ bytes <= BudgetBytes * two
    <3> HIDE DEF raw, bytes
    <3>1. CASE raw < 2
      <4>1. raw = 0 \/ raw = 1
        BY <2>1, <3>1
      <4>2. BudgetBytes * raw <= BudgetBytes * 2
        BY <4>1, <1>1
      <4> QED BY <2>1, <3>1, <4>2, <1>1, <1>2
    <3>2. CASE ~(raw < 2)
      BY <2>1, <3>2
    <3> QED BY <3>1, <3>2
  <2> HIDE DEF two, bytes
  <2>4. bytes = rows * RowWidth
    BY DEF bytes
  <2> QED BY <1>1, <2>2, <2>3, <2>4
<1> QED BY <1>3, <1>4

\* The inductive invariant holds of every new operator.
LEMMA InitInv == Init => IInv
<1> SUFFICES ASSUME Init PROVE IInv
  OBVIOUS
<1>1. Budgeted
  <2>1. estimate \in EstimatedRows
          /\ partition_count = choose_partition_count(estimate)
    BY DEF Init
  <2>2. partition_count \in 1 .. kMaxPartitions /\ BucketsFitBudget
    BY <2>1, ChosenCount DEF BucketsFitBudget
  <2> QED BY <2>1, <2>2, BudgetAssumption DEF Budgeted
<1>2. NoTableYet /\ OneBucketResident /\ ScratchRemoved
  BY DEF Init, NoTableYet, OneBucketResident, ScratchRemoved
<1>3. ReadsMarked
  BY DEF Init, ReadsMarked
<1> QED BY <1>1, <1>2, <1>3 DEF IInv

\* What no step does to the plan: the join's type, sizes and bucket count
\* are those it was built with.
LEMMA PlanFixed == [Next]_vars => UNCHANGED plan
BY DEF Next, Step, vars, Open_InMemory, Open_Partitioned, Next_Call,
       SpillBuild, SpillProbe, Probe_InMemory, EnsurePartitionBuilt,
       Probe_Spilled, Advance, Next_End, Throw, Close, Destroy

\* Steps that touch neither the build table, the bucket under way, the build
\* files nor the read counts, and do not return to the start.
LEMMA QuietStep ==
  ASSUME IInv, UNCHANGED plan,
         UNCHANGED <<right_table, build_files, current_partition,
                     current_partition_built, reads>>,
         NoTableYet', ScratchRemoved'
  PROVE  IInv'
<1>1. Budgeted' /\ OneBucketResident' /\ ReadsMarked'
  BY DEF IInv, plan, Budgeted, BucketsFitBudget, OneBucketResident,
         ReadsMarked, Partitions, Rows
<1> QED BY <1>1 DEF IInv

\* Every step keeps the inductive invariant.
LEMMA NextInv == IInv /\ [Next]_vars => IInv'
<1> SUFFICES ASSUME IInv, [Next]_vars PROVE IInv'
  OBVIOUS
<1> USE PlanFixed
<1>0. UNCHANGED plan
  OBVIOUS
<1>1. CASE UNCHANGED vars
  BY <1>1, QuietStep
     DEF vars, spilled, table, cursor, history, IInv, NoTableYet,
         ScratchRemoved, plan
<1>2. CASE Open_InMemory
  <2>1. Budgeted' /\ OneBucketResident' /\ NoTableYet'
    BY <1>0, <1>2 DEF Open_InMemory, IInv, plan, Budgeted, BucketsFitBudget,
                      OneBucketResident, NoTableYet
  <2>2. ScratchRemoved' /\ ReadsMarked'
    BY <1>0, <1>2 DEF Open_InMemory, IInv, plan, spilled, cursor, history,
                      ScratchRemoved, ReadsMarked, Partitions
  <2> QED BY <2>1, <2>2 DEF IInv
<1>3. CASE Open_Partitioned \/ Next_Call \/ Throw \/ Next_End
           \/ Probe_InMemory \/ SpillProbe
  BY <1>0, <1>3, QuietStep
     DEF Open_Partitioned, Next_Call, Throw, Next_End, Probe_InMemory,
         SpillProbe, Deliver, spilled, table, cursor, history, plan,
         IInv, NoTableYet, ScratchRemoved
<1>4. CASE SpillBuild
  <2>1. CASE right = <<>>
    BY <1>0, <1>4, <2>1, QuietStep
       DEF SpillBuild, table, cursor, history, plan, IInv, NoTableYet,
           ScratchRemoved
  <2>2. CASE right # <<>>
    <3>1. Budgeted' /\ ReadsMarked'
      BY <1>0, <1>4 DEF SpillBuild, IInv, plan, cursor, history, Budgeted,
                        BucketsFitBudget, ReadsMarked, Partitions
    <3>2. NoTableYet' /\ OneBucketResident' /\ ScratchRemoved'
      BY <1>0, <1>4, <2>2 DEF SpillBuild, IInv, plan, table, cursor,
                        NoTableYet, OneBucketResident, ScratchRemoved
    <3> QED BY <3>1, <3>2 DEF IInv
  <2> QED BY <2>1, <2>2
<1>5. CASE EnsurePartitionBuilt
  <2>1. Budgeted' /\ NoTableYet' /\ ScratchRemoved'
    BY <1>0, <1>5 DEF EnsurePartitionBuilt, IInv, plan, spilled, Budgeted,
                      BucketsFitBudget, NoTableYet, ScratchRemoved
  <2>2. CASE current_partition_built
    BY <1>0, <1>5, <2>1, <2>2, QuietStep
       DEF EnsurePartitionBuilt, plan, spilled, table
  <2>3. CASE ~current_partition_built
    <3>1. OneBucketResident'
      BY <1>0, <1>5, <2>3 DEF EnsurePartitionBuilt, plan, spilled,
                              OneBucketResident, Rows
    <3>2. ReadsMarked'
      <4> DEFINE p == current_partition
                 file == build_files[p]
      <4>1. /\ p \in Partitions /\ p' = p /\ partition_count' = partition_count
            /\ join_type' = join_type /\ Partitions' = Partitions
            /\ reads \in [Partitions -> Nat]
        BY <1>0, <1>5 DEF EnsurePartitionBuilt, IInv, plan, Budgeted,
                          ReadsMarked, Partitions
      <4>2. /\ reads' = IF file = <<>> THEN reads
                        ELSE [reads EXCEPT ![p] = @ + 1]
            /\ current_partition_built' = (file = <<>> \/ Remembers)
        BY <1>5, <2>3 DEF EnsurePartitionBuilt
      <4>3. reads' \in [Partitions' -> Nat] /\ p' \in Nat
        BY <4>1, <4>2 DEF IInv, ReadsMarked
      <4>4. ASSUME join_type \in {"Inner", "LeftOuter"},
                   NEW i \in Partitions
            PROVE  /\ reads'[i] <= 1
                   /\ i > p => reads'[i] = 0
                   /\ i = p /\ reads'[i] = 1 => current_partition_built'
        <5>1. reads[i] \in Nat /\ reads[i] <= 1 /\ (i > p => reads[i] = 0)
          BY <4>1, <4>4 DEF IInv, ReadsMarked
        <5>2. reads[p] # 1
          BY <4>1, <4>4, <2>3 DEF IInv, ReadsMarked
        <5>3. current_partition_built' = TRUE
          BY <4>2, <4>4 DEF Remembers
        <5>4. CASE i = p
          <6>1. reads[i] = 0
            BY <5>1, <5>2, <5>4
          <6> QED BY <4>1, <4>2, <5>3, <5>4, <6>1 DEF Partitions
        <5>5. CASE i # p
          <6>1. reads'[i] = reads[i]
            BY <4>1, <4>2, <5>5
          <6> QED BY <5>1, <5>5, <6>1
        <5> QED BY <5>4, <5>5
      <4> QED BY <4>1, <4>3, <4>4 DEF ReadsMarked
    <3> QED BY <2>1, <3>1, <3>2 DEF IInv
  <2> QED BY <2>2, <2>3
<1>6. CASE Probe_Spilled
  BY <1>0, <1>6, QuietStep
     DEF Probe_Spilled, Deliver, spilled, table, plan, IInv, NoTableYet,
         ScratchRemoved
<1>7. CASE Advance
  <2>1. Budgeted' /\ NoTableYet' /\ OneBucketResident' /\ ScratchRemoved'
    BY <1>0, <1>7 DEF Advance, ReleaseTable, IInv, plan, spilled, Budgeted,
                      BucketsFitBudget, NoTableYet, OneBucketResident,
                      ScratchRemoved
  <2>2. ReadsMarked'
    <3>1. /\ current_partition' = current_partition + 1
          /\ reads' = reads /\ join_type' = join_type
          /\ Partitions' = Partitions
      BY <1>0, <1>7 DEF Advance, plan, history, Partitions
    <3>2. current_partition \in Nat /\ Partitions \subseteq Int
      BY DEF IInv, ReadsMarked, Partitions, Budgeted
    <3>3. ASSUME join_type \in {"Inner", "LeftOuter"},
                 NEW i \in Partitions
          PROVE  /\ reads[i] <= 1
                 /\ i > current_partition => reads[i] = 0
      BY <3>3 DEF IInv, ReadsMarked
    <3>4. reads \in [Partitions -> Nat]
      BY DEF IInv, ReadsMarked
    <3>5. ASSUME join_type \in {"Inner", "LeftOuter"},
                 NEW i \in Partitions, i >= current_partition + 1
          PROVE  reads[i] = 0
      <4>1. i > current_partition
        BY <3>2, <3>5
      <4> QED BY <3>3, <3>5, <4>1
    <3>6. ASSUME join_type \in {"Inner", "LeftOuter"},
                 NEW i \in Partitions
          PROVE  /\ reads[i] <= 1
                 /\ i > current_partition + 1 => reads[i] = 0
                 /\ i = current_partition + 1 => reads[i] # 1
      <4>1. i \in Int /\ current_partition + 1 \in Int
        BY <3>2
      <4>2. i > current_partition + 1 \/ i = current_partition + 1
              => i >= current_partition + 1
        BY <4>1
      <4> QED BY <3>3, <3>5, <3>6, <4>2
    <3> QED BY <3>1, <3>2, <3>4, <3>6 DEF ReadsMarked
  <2> QED BY <2>1, <2>2 DEF IInv
<1>8. CASE Close
  BY <1>0, <1>8, QuietStep
     DEF Close, table, history, plan, IInv, NoTableYet, ScratchRemoved
<1>9. CASE Destroy
  <2>1. Budgeted' /\ NoTableYet' /\ OneBucketResident' /\ ScratchRemoved'
    BY <1>0, <1>9 DEF Destroy, DestroyScratch, IInv, plan, Budgeted,
                      BucketsFitBudget, NoTableYet, OneBucketResident,
                      ScratchRemoved
  <2>2. ReadsMarked'
    BY <1>0, <1>9 DEF Destroy, IInv, plan, history, ReadsMarked, Partitions
  <2> QED BY <2>1, <2>2 DEF IInv
<1> QED
  BY <1>1, <1>2, <1>3, <1>4, <1>5, <1>6, <1>7, <1>8, <1>9 DEF Next, Step

\* The invariant holds of every behaviour of the operator.
LEMMA Invariance == Spec => []IInv
BY InitInv, NextInv, PTL DEF Spec

\* A bucket of an evenly spread build side fits the memory budget unless the
\* ceiling on the number of buckets was hit, for every estimate and budget.
THEOREM PartitionsHonourBudget == Spec => []BucketsFitBudget
<1>1. IInv => BucketsFitBudget
  BY DEF IInv, Budgeted
<1> QED BY Invariance, <1>1, PTL

\* A partitioned join never holds more of the build side than the bucket
\* next() is working on.
THEOREM ResidentBound == Spec => []OneBucketResident
<1>1. IInv => OneBucketResident
  BY DEF IInv
<1> QED BY Invariance, <1>1, PTL

\* The scratch directory outlives neither the operator nor a close() that
\* returned, whatever was thrown before.
THEOREM ScratchSafety == Spec => []ScratchRemoved
<1>1. IInv => ScratchRemoved
  BY DEF IInv
<1> QED BY Invariance, <1>1, PTL

\* HashJoinOperator reads the build file of a bucket at most once, however
\* many calls of next() the bucket is spread over.
THEOREM BucketLoadedOnce == Spec => []BuiltOnce
<1>1. IInv => BuiltOnce
  BY DEF IInv, ReadsMarked, BuiltOnce
<1> QED BY Invariance, <1>1, PTL

-----------------------------------------------------------------------------
(* The join is exact *)

\* What the children still have to produce is part of what they had, and so
\* are the spill files, which hold the rows spilled so far, each in its
\* bucket's file.
Filed(files, rest, all) ==
  /\ rest \in Seq(SUBSET all) /\ RowsOnce(rest)
  /\ files \in [Partitions -> Seq(SUBSET all)]
  /\ \A i \in Partitions :
       /\ RowsOnce(files[i])
       /\ \A k \in DOMAIN files[i] : files[i][k] # {}
       /\ partition_count > 1 =>
            Rows(files[i]) = {row \in all \ Rows(rest) : Bucket(row) = i}

\* The build table is the one the next probe batch has to meet.
Loaded ==
  IF partition_count > 1
  THEN /\ right_table = Rows(build_files[current_partition])
       /\ right_is_empty = (build_files[current_partition] = <<>>)
  ELSE right_table = inputs.right /\ right_is_empty = (inputs.right = {})

\* Where next() stands among the buckets, the batches and the loads.
Cursor ==
  /\ current_partition \in 0 .. partition_count
  /\ probe_batch_index \in Nat
  /\ phase \in {"new", "spill_build", "spill_probe"} =>
       /\ current_partition = 0 /\ probe_batch_index = 0
       /\ ~current_partition_built /\ ~probe_reader
  /\ phase = "new" => Rows(right) = inputs.right
  /\ phase \in {"spill_build", "spill_probe"} => partition_count > 1
  /\ phase = "spill_probe" => right = <<>>
  /\ partition_count > 1 /\ phase \in {"idle", "next", "probe"} =>
       left = <<>> /\ right = <<>>
  /\ phase \in {"idle", "next"} =>
       /\ ~probe_reader => probe_batch_index = 0
       /\ partition_count <= 1 \/ current_partition_built => Loaded
  /\ phase = "probe" =>
       /\ partition_count > 1 /\ current_partition < partition_count
       /\ probe_reader /\ Loaded

\* The left rows that have been probed: those of the batches pulled, of the
\* buckets behind, and of the batches behind in the bucket under way.
Done ==
  {l \in inputs.left :
     IF partition_count <= 1 THEN l \notin Rows(left)
     ELSE \/ Bucket(l) < current_partition
          \/ /\ Bucket(l) = current_partition
             /\ \E k \in 1 .. probe_batch_index :
                  l \in probe_files[current_partition][k]}

\* What has been returned is exactly the join of the left rows probed.
Accounted ==
  /\ output = SetToBag(JoinOf(Done, inputs.right))
  /\ ended => Done = inputs.left

\* The join is of one of the four types, its inputs are rows with hashed
\* keys.
JoinTypes == {"Inner", "LeftOuter", "LeftSemi", "LeftAnti"}
Hashed ==
  /\ join_type \in JoinTypes
  /\ \A row \in inputs.left \cup inputs.right :
       row # NoRow /\ Hash[row.key] \in Nat

\* The inductive invariant behind JoinExact.
JInv ==
  /\ Hashed
  /\ Filed(probe_files, left, inputs.left)
  /\ Filed(build_files, right, inputs.right)
  /\ Cursor /\ Accounted

\* Bags of sets without a common element add up to the bag of their union.
LEMMA BagOfDisjoint ==
  ASSUME NEW A, NEW B, A \cap B = {}
  PROVE  SetToBag(A) (+) SetToBag(B) = SetToBag(A \cup B)
BY DEF SetToBag, (+)

\* The elements of a set's bag are the set.
LEMMA BagIsItsSet ==
  ASSUME NEW A
  PROVE  BagToSet(SetToBag(A)) = A
BY DEF SetToBag, BagToSet


\* cudf::inner_join pairs every row of the batch with each of its matches.
LEMMA PairsJoin ==
  ASSUME NEW batch
  PROVE  inner_join(batch)
           = SetToBag(UNION {{<<l, r>> : r \in Matches(l)} : l \in batch})
<1> DEFINE A == {p \in batch \X right_table : p[2] \in Matches(p[1])}
           B == UNION {{<<l, r>> : r \in Matches(l)} : l \in batch}
<1>0. \A l : Matches(l) \subseteq right_table
  BY DEF Matches
<1>1. A \subseteq B
  OBVIOUS
<1>2. B \subseteq A
  BY <1>0
<1>3. A = B
  BY <1>1, <1>2
<1> QED BY <1>3 DEF inner_join

\* cudf::left_join adds the rows without a match, paired with the sentinel;
\* the two parts have no row in common.
LEMMA LeftJoinOf ==
  ASSUME NEW batch, NoRow \notin right_table
  PROVE  left_join(batch)
           = SetToBag(UNION {IF Matches(l) = {} THEN {<<l, NoRow>>}
                             ELSE {<<l, r>> : r \in Matches(l)} : l \in batch})
<1> DEFINE A == UNION {{<<l, r>> : r \in Matches(l)} : l \in batch}
           B == {<<l, NoRow>> : l \in {x \in batch : Matches(x) = {}}}
           C == UNION {IF Matches(l) = {} THEN {<<l, NoRow>>}
                             ELSE {<<l, r>> : r \in Matches(l)} : l \in batch}
<1>0. \A l : Matches(l) \subseteq right_table
  BY DEF Matches
<1>1. A \cap B = {}
  BY <1>0
<1>2. A \cup B = C
  <2>1. ASSUME NEW q \in A PROVE q \in C
    <3>1. PICK l \in batch : q \in {<<l, r>> : r \in Matches(l)}
      BY <2>1
    <3>2. Matches(l) # {}
      BY <3>1
    <3> QED BY <3>1, <3>2
  <2>2. ASSUME NEW q \in B PROVE q \in C
    OBVIOUS
  <2>3. ASSUME NEW q \in C PROVE q \in A \cup B
    <3>1. PICK l \in batch : q \in IF Matches(l) = {} THEN {<<l, NoRow>>}
                             ELSE {<<l, r>> : r \in Matches(l)}
      BY <2>3
    <3> QED BY <3>1
  <2> QED BY <2>1, <2>2, <2>3
<1>3. left_join(batch) = SetToBag(A) (+) SetToBag(B)
  BY PairsJoin DEF left_join
<1>4. SetToBag(A) (+) SetToBag(B) = SetToBag(A \cup B)
  <2> HIDE DEF A, B
  <2> QED BY <1>1, BagOfDisjoint
<1> QED BY <1>2, <1>3, <1>4

\* What next() makes of one batch, shortcuts for an empty build side
\* included, is the join of the batch with the build table.
LEMMA JoinedExact ==
  ASSUME NEW batch, join_type \in JoinTypes, NoRow \notin right_table,
         right_is_empty = (right_table = {})
  PROVE  Joined(batch) = SetToBag(JoinOf(batch, right_table))
<1>0. \A l : Matches(l) = {r \in right_table :
                 l.key = r.key /\ (residual => l.val # r.val)}
  BY DEF Matches
<1>1. CASE ~right_is_empty /\ join_type = "Inner"
  <2>1. \A l : JoinOfRow(l, right_table) = {<<l, r>> : r \in Matches(l)}
    BY <1>1, <1>0 DEF JoinOfRow
  <2>2. JoinOf(batch, right_table)
          = UNION {{<<l, r>> : r \in Matches(l)} : l \in batch}
    BY <2>1 DEF JoinOf
  <2>3. Joined(batch) = inner_join(batch)
    BY <1>1 DEF Joined, probe_one_batch
  <2> QED BY <2>2, <2>3, PairsJoin
<1>2. CASE ~right_is_empty /\ join_type = "LeftOuter"
  <2>1. \A l : JoinOfRow(l, right_table)
          = IF Matches(l) = {} THEN {<<l, NoRow>>}
            ELSE {<<l, r>> : r \in Matches(l)}
    BY <1>2, <1>0 DEF JoinOfRow
  <2>2. JoinOf(batch, right_table)
          = UNION {IF Matches(l) = {} THEN {<<l, NoRow>>}
                   ELSE {<<l, r>> : r \in Matches(l)} : l \in batch}
    BY <2>1 DEF JoinOf
  <2>3. Joined(batch) = left_join(batch)
    BY <1>2 DEF Joined, probe_one_batch
  <2> QED BY <2>2, <2>3, LeftJoinOf
<1>3. CASE ~right_is_empty /\ join_type = "LeftSemi"
  <2> DEFINE P == UNION {{<<l, r>> : r \in Matches(l)} : l \in batch}
  <2>1. \A l : JoinOfRow(l, right_table)
          = IF Matches(l) = {} THEN {} ELSE {<<l>>}
    BY <1>3, <1>0 DEF JoinOfRow
  <2>2. BagToSet(inner_join(batch)) = P
    BY PairsJoin, BagIsItsSet
  <2>3. {p[1] : p \in P} = {l \in batch : Matches(l) # {}}
    <3>1. ASSUME NEW l \in batch, Matches(l) # {}
          PROVE  \E p \in P : p[1] = l
      <4>1. PICK r \in Matches(l) : TRUE
        BY <3>1
      <4>2. <<l, r>> \in P
        BY <4>1
      <4> QED BY <4>2
    <3>2. ASSUME NEW p \in P
          PROVE  p[1] \in batch /\ Matches(p[1]) # {}
      OBVIOUS
    <3> HIDE DEF P
    <3> QED BY <3>1, <3>2
  <2>4. Joined(batch) = LeftOnly({l \in batch : Matches(l) # {}})
    BY <1>3, <2>2, <2>3 DEF Joined, probe_one_batch
  <2>5. JoinOf(batch, right_table) = {<<l>> : l \in {x \in batch : Matches(x) # {}}}
    BY <2>1 DEF JoinOf
  <2> QED BY <2>4, <2>5 DEF LeftOnly
<1>4. CASE ~right_is_empty /\ join_type = "LeftAnti"
  <2> DEFINE P == UNION {IF Matches(l) = {} THEN {<<l, NoRow>>}
                             ELSE {<<l, r>> : r \in Matches(l)} : l \in batch}
  <2>1. \A l : JoinOfRow(l, right_table)
          = IF Matches(l) = {} THEN {<<l>>} ELSE {}
    BY <1>4, <1>0 DEF JoinOfRow
  <2>2. BagToSet(left_join(batch)) = P
    BY LeftJoinOf, BagIsItsSet
  <2>3. {p[1] : p \in {q \in P : q[2] = NoRow}}
          = {l \in batch : Matches(l) = {}}
    <3>1. ASSUME NEW l \in batch, Matches(l) = {}
          PROVE  \E p \in P : p[1] = l /\ p[2] = NoRow
      <4>1. <<l, NoRow>> \in P
        BY <3>1
      <4> QED BY <4>1
    <3>2. ASSUME NEW p \in P, p[2] = NoRow
          PROVE  p[1] \in batch /\ Matches(p[1]) = {}
      <4>1. PICK l \in batch : p \in IF Matches(l) = {} THEN {<<l, NoRow>>}
                             ELSE {<<l, r>> : r \in Matches(l)}
        BY <3>2
      <4>2. Matches(l) = {}
        BY <4>1, <3>2, <1>0
      <4> QED BY <4>1, <4>2
    <3> HIDE DEF P
    <3> QED BY <3>1, <3>2
  <2>4. Joined(batch) = LeftOnly({l \in batch : Matches(l) = {}})
    BY <1>4, <2>2, <2>3 DEF Joined, probe_one_batch
  <2>5. JoinOf(batch, right_table) = {<<l>> : l \in {x \in batch : Matches(x) = {}}}
    BY <2>1 DEF JoinOf
  <2> QED BY <2>4, <2>5 DEF LeftOnly
<1>5. CASE right_is_empty
  <2>0. right_table = {}
    BY <1>5
  <2>1. CASE join_type = "LeftOuter"
    <3>1. \A l : JoinOfRow(l, right_table) = {<<l, NoRow>>}
      BY <2>0, <2>1 DEF JoinOfRow
    <3>2. JoinOf(batch, right_table) = {<<l, NoRow>> : l \in batch}
      BY <3>1 DEF JoinOf
    <3> QED BY <1>5, <2>1, <3>2 DEF Joined, null_extend_batch
  <2>2. CASE join_type = "LeftAnti"
    <3>1. \A l : JoinOfRow(l, right_table) = {<<l>>}
      BY <2>0, <2>2 DEF JoinOfRow
    <3>2. JoinOf(batch, right_table) = {<<l>> : l \in batch}
      BY <3>1 DEF JoinOf
    <3> QED BY <1>5, <2>2, <3>2 DEF Joined, LeftOnly
  <2>3. CASE join_type \in {"Inner", "LeftSemi"}
    <3>1. \A l : JoinOfRow(l, right_table) = {}
      BY <2>0, <2>3 DEF JoinOfRow
    <3>2. JoinOf(batch, right_table) = {}
      BY <3>1 DEF JoinOf
    <3>3. Joined(batch) = EmptyBag
      BY <1>5, <2>3 DEF Joined
    <3> QED BY <3>2, <3>3 DEF EmptyBag
  <2> QED BY <2>1, <2>2, <2>3 DEF JoinTypes
<1> QED BY <1>1, <1>2, <1>3, <1>4, <1>5 DEF JoinTypes

\* Pulling a batch off a child takes its rows away from what is to come.
LEMMA TailRows ==
  ASSUME NEW X, NEW s \in Seq(SUBSET X), s # <<>>, RowsOnce(s)
  PROVE  /\ Head(s) \in SUBSET X
         /\ Tail(s) \in Seq(SUBSET X)
         /\ RowsOnce(Tail(s))
         /\ Rows(s) = Head(s) \cup Rows(Tail(s))
         /\ Head(s) \cap Rows(Tail(s)) = {}
<1>1. /\ Head(s) = s[1] /\ s[1] \in SUBSET X
      /\ Tail(s) \in Seq(SUBSET X)
      /\ Len(s) \in Nat /\ Len(s) >= 1 /\ DOMAIN s = 1 .. Len(s)
      /\ Len(Tail(s)) = Len(s) - 1
      /\ DOMAIN Tail(s) = 1 .. Len(s) - 1
  OBVIOUS
<1>2. \A i \in 1 .. Len(s) - 1 : Tail(s)[i] = s[i + 1]
  OBVIOUS
<1>3. RowsOnce(Tail(s))
  BY <1>1, <1>2 DEF RowsOnce
<1>4. \A i \in DOMAIN s : i = 1 \/ (i - 1 \in DOMAIN Tail(s)
                                     /\ Tail(s)[i - 1] = s[i])
  BY <1>1, <1>2
<1>5. Rows(s) \subseteq Head(s) \cup Rows(Tail(s))
  BY <1>1, <1>4 DEF Rows
<1>6. Head(s) \cup Rows(Tail(s)) \subseteq Rows(s)
  BY <1>1, <1>2 DEF Rows
<1>7. Head(s) \cap Rows(Tail(s)) = {}
  BY <1>1, <1>2 DEF Rows, RowsOnce
<1> QED BY <1>1, <1>3, <1>5, <1>6, <1>7

\* Appending a batch of new rows to a file adds them and repeats none.
LEMMA AppendRows ==
  ASSUME NEW X, NEW s \in Seq(SUBSET X), NEW b \in SUBSET X, RowsOnce(s),
         b \cap Rows(s) = {}
  PROVE  /\ Append(s, b) \in Seq(SUBSET X)
         /\ RowsOnce(Append(s, b))
         /\ Rows(Append(s, b)) = Rows(s) \cup b
<1> DEFINE t == Append(s, b)
<1>1. /\ t \in Seq(SUBSET X)
      /\ Len(s) \in Nat /\ DOMAIN s = 1 .. Len(s)
      /\ DOMAIN t = 1 .. Len(s) + 1
  OBVIOUS
<1>2. t[Len(s) + 1] = b /\ \A i \in DOMAIN s : t[i] = s[i]
  OBVIOUS
<1>3. DOMAIN t = DOMAIN s \cup {Len(s) + 1} /\ Len(s) + 1 \notin DOMAIN s
  BY <1>1
<1> HIDE DEF t
<1>4. RowsOnce(t)
  BY <1>2, <1>3 DEF RowsOnce, Rows
<1>5. Rows(t) = Rows(s) \cup b
  BY <1>2, <1>3 DEF Rows
<1> QED BY <1>1, <1>4, <1>5 DEF t

\* hash_partition sends every row to one of the buckets.
LEMMA Bucketed ==
  ASSUME NEW row, Hash[row.key] \in Nat, partition_count \in Nat \ {0}
  PROVE  Bucket(row) \in Partitions
<1> DEFINE h == Hash[row.key]
<1>1. h % partition_count \in 0 .. partition_count - 1
  <2> HIDE DEF h
  <2>1. h \in Nat
    BY DEF h
  <2> QED BY <2>1
<1> QED BY <1>1 DEF Bucket, Partitions

\* A cursor that is not past the last bucket is on a bucket.
LEMMA OnBucket ==
  ASSUME NEW c \in 0 .. partition_count, partition_count \in Nat,
         c < partition_count
  PROVE  c \in Partitions /\ c \in Nat
BY DEF Partitions

\* spill_partitioned_to_disk moves the rows of a batch to the files of their
\* buckets and writes no empty slice.
LEMMA SpillFiled ==
  ASSUME NEW files, NEW rest, NEW all, Filed(files, rest, all),
         rest # <<>>, partition_count > 1
  PROVE  Filed(Spill(files, Head(rest)), Tail(rest), all)
<1> DEFINE batch == Head(rest)
           slice(i) == {row \in batch : Bucket(row) = i}
           new == Spill(files, batch)
<1>1. /\ batch \in SUBSET all /\ Tail(rest) \in Seq(SUBSET all)
      /\ RowsOnce(Tail(rest)) /\ Rows(rest) = batch \cup Rows(Tail(rest))
      /\ batch \cap Rows(Tail(rest)) = {}
  BY TailRows DEF Filed
<1>2. \A i \in Partitions :
        new[i] = IF slice(i) = {} THEN files[i] ELSE Append(files[i], slice(i))
  BY DEF Spill
<1>3. ASSUME NEW i \in Partitions
      PROVE  /\ new[i] \in Seq(SUBSET all)
             /\ RowsOnce(new[i])
             /\ \A k \in DOMAIN new[i] : new[i][k] # {}
             /\ Rows(new[i]) = {row \in all \ Rows(Tail(rest)) : Bucket(row) = i}
  <2>1. /\ files[i] \in Seq(SUBSET all) /\ RowsOnce(files[i])
        /\ \A k \in DOMAIN files[i] : files[i][k] # {}
        /\ Rows(files[i]) = {row \in all \ Rows(rest) : Bucket(row) = i}
    BY DEF Filed
  <2>2. /\ slice(i) \in SUBSET all /\ slice(i) \cap Rows(files[i]) = {}
        /\ {row \in all \ Rows(Tail(rest)) : Bucket(row) = i}
             = Rows(files[i]) \cup slice(i)
    BY <1>1, <2>1
  <2>3. CASE slice(i) = {}
    <3>1. new[i] = files[i]
      BY <1>2, <2>3
    <3> QED BY <2>1, <2>2, <2>3, <3>1
  <2>4. CASE slice(i) # {}
    <3>1. new[i] = Append(files[i], slice(i))
      BY <1>2, <2>4
    <3> DEFINE f == files[i]
               s == slice(i)
    <3>0. /\ f \in Seq(SUBSET all) /\ RowsOnce(f)
          /\ s \in SUBSET all /\ s \cap Rows(f) = {} /\ s # {}
          /\ new[i] = Append(f, s)
      BY <2>1, <2>2, <2>4, <3>1
    <3>4. \A k \in DOMAIN f : f[k] # {}
      BY <2>1
    <3>5. {row \in all \ Rows(Tail(rest)) : Bucket(row) = i} = Rows(f) \cup s
      BY <2>2
    <3> HIDE DEF slice, new, f, s
    <3>2. /\ new[i] \in Seq(SUBSET all) /\ RowsOnce(new[i])
          /\ Rows(new[i]) = Rows(f) \cup s
      <4>1. /\ Append(f, s) \in Seq(SUBSET all) /\ RowsOnce(Append(f, s))
            /\ Rows(Append(f, s)) = Rows(f) \cup s
        BY <3>0, AppendRows, SMTT(30)
      <4> QED BY <3>0, <4>1, Zenon
    <3>3. \A k \in DOMAIN new[i] : new[i][k] # {}
      BY <3>0, <3>4
    <3> QED BY <3>2, <3>3, <3>5
  <2> QED BY <2>3, <2>4
<1>4. new \in [Partitions -> Seq(SUBSET all)]
  <2>1. new = [i \in Partitions |-> new[i]]
    BY DEF Spill
  <2> HIDE DEF new
  <2> QED BY <1>3, <2>1
<1> HIDE DEF new
<1>5. Filed(new, Tail(rest), all)
  BY <1>1, <1>3, <1>4 DEF Filed
<1> QED BY <1>5 DEF new

\* A row of the result starts with the left row it comes from.
LEMMA JoinRowLeft ==
  ASSUME NEW l, NEW R, join_type \in JoinTypes, NEW q \in JoinOfRow(l, R)
  PROVE  q[1] = l
<1> DEFINE on == {r \in R : l.key = r.key /\ (residual => l.val # r.val)}
<1>1. \/ q \in {<<l, r>> : r \in on} \/ q = <<l, NoRow>> \/ q = <<l>>
  <2>1. CASE join_type = "Inner"
    BY <2>1 DEF JoinOfRow
  <2>2. CASE join_type = "LeftOuter"
    BY <2>2 DEF JoinOfRow
  <2>3. CASE join_type = "LeftSemi"
    BY <2>3 DEF JoinOfRow
  <2>4. CASE join_type = "LeftAnti"
    BY <2>4 DEF JoinOfRow
  <2> QED BY <2>1, <2>2, <2>3, <2>4 DEF JoinTypes
<1> QED BY <1>1

\* The join of two sets of left rows is the union of their joins, and
\* different left rows have no result in common.
LEMMA JoinSplits ==
  ASSUME NEW A, NEW B, NEW R, join_type \in JoinTypes
  PROVE  /\ JoinOf(A \cup B, R) = JoinOf(A, R) \cup JoinOf(B, R)
         /\ A \cap B = {} => JoinOf(A, R) \cap JoinOf(B, R) = {}
<1>1. JoinOf(A \cup B, R) = JoinOf(A, R) \cup JoinOf(B, R)
  BY DEF JoinOf
<1>2. ASSUME A \cap B = {}, NEW q \in JoinOf(A, R), q \in JoinOf(B, R)
      PROVE  FALSE
  <2>1. PICK a \in A : q \in JoinOfRow(a, R)
    BY DEF JoinOf
  <2>2. PICK b \in B : q \in JoinOfRow(b, R)
    BY <1>2 DEF JoinOf
  <2>3. q[1] = a /\ q[1] = b
    BY <2>1, <2>2, JoinRowLeft
  <2> QED BY <1>2, <2>3
<1> QED BY <1>1, <1>2

\* Right rows with other keys make no difference.
LEMMA SameMatches ==
  ASSUME NEW L, NEW R, NEW S,
         \A l \in L : {r \in R : l.key = r.key} = {r \in S : l.key = r.key}
  PROVE  JoinOf(L, R) = JoinOf(L, S)
<1>1. ASSUME NEW l \in L
      PROVE  {r \in R : l.key = r.key /\ (residual => l.val # r.val)}
               = {r \in S : l.key = r.key /\ (residual => l.val # r.val)}
  OBVIOUS
<1>2. \A l \in L : JoinOfRow(l, R) = JoinOfRow(l, S)
  BY <1>1 DEF JoinOfRow
<1> QED BY <1>2 DEF JoinOf

\* After the rest of next(), the result returned so far is the join of the
\* rows probed so far, whether or not the batch joined to something.
LEMMA Delivered ==
  ASSUME NEW batch, NEW done, join_type \in JoinTypes,
         NoRow \notin right_table, right_is_empty = (right_table = {}),
         JoinOf(batch, right_table) = JoinOf(batch, inputs.right),
         done \cap batch = {},
         output = SetToBag(JoinOf(done, inputs.right)),
         Deliver(batch)
  PROVE  output' = SetToBag(JoinOf(done \cup batch, inputs.right))
<1> DEFINE A == JoinOf(done, inputs.right)
           B == JoinOf(batch, inputs.right)
<1>1. Joined(batch) = SetToBag(B)
  BY JoinedExact
<1>2. JoinOf(done \cup batch, inputs.right) = A \cup B /\ A \cap B = {}
  BY JoinSplits
<1>3. CASE Returns(batch)
  <2>1. output' = SetToBag(A) (+) SetToBag(B)
    BY <1>1, <1>3 DEF Deliver
  <2> HIDE DEF A, B
  <2> QED BY <1>2, <2>1, BagOfDisjoint
<1>4. CASE ~Returns(batch)
  <2>1. output' = SetToBag(A) /\ SetToBag(B) = EmptyBag
    BY <1>1, <1>4 DEF Deliver, Returns
  <2> HIDE DEF A, B
  <2>2. B = {}
    <3>1. DOMAIN SetToBag(B) = B /\ DOMAIN EmptyBag = {}
      BY DEF SetToBag, EmptyBag
    <3> QED BY <2>1, <3>1
  <2>3. A \cup B = A
    BY <2>2
  <2> QED BY <1>2, <2>1, <2>3
<1> QED BY <1>3, <1>4

\* The invariant behind JoinExact holds of every new operator.
LEMMA JInit == Init => JInv
<1> SUFFICES ASSUME Init PROVE JInv
  OBVIOUS
<1>1. /\ inputs.left = Rows(left) /\ inputs.right = Rows(right)
      /\ left \in LeftInputs /\ right \in RightInputs
      /\ join_type \in JoinTypes
      /\ partition_count \in Nat \ {0}
  <2>1. partition_count \in Nat \ {0}
    BY InitInv DEF IInv, Budgeted
  <2> QED BY <2>1 DEF Init, JoinTypes
<1>2. Hashed
  BY <1>1, InputAssumption DEF Hashed
<1>3. left \in Seq(SUBSET inputs.left) /\ right \in Seq(SUBSET inputs.right)
        /\ RowsOnce(left) /\ RowsOnce(right)
  BY <1>1, InputAssumption
<1>4. \A i \in Partitions : probe_files[i] = <<>> /\ build_files[i] = <<>>
  BY DEF Init
<1>5. Rows(<<>>) = {} /\ RowsOnce(<<>>)
  BY DEF Rows, RowsOnce
<1>6. /\ probe_files \in [Partitions -> Seq(SUBSET inputs.left)]
      /\ build_files \in [Partitions -> Seq(SUBSET inputs.right)]
  BY DEF Init
<1>7. Filed(probe_files, left, inputs.left)
  BY <1>1, <1>3, <1>4, <1>5, <1>6 DEF Filed
<1>8. Filed(build_files, right, inputs.right)
  BY <1>1, <1>3, <1>4, <1>5, <1>6 DEF Filed
<1>9. Cursor
  BY <1>1 DEF Init, Cursor
<1>10. Done = {}
  <2>1. ASSUME NEW l \in inputs.left, partition_count > 1
        PROVE  ~(Bucket(l) < 0)
    <3>1. Bucket(l) \in Partitions
      BY <1>1, <1>2, Bucketed DEF Hashed
    <3> QED BY <3>1, <1>1 DEF Partitions
  <2>2. current_partition = 0 /\ probe_batch_index = 0
    BY DEF Init
  <2> QED BY <1>1, <2>1, <2>2 DEF Done
<1>11. Accounted
  <2>1. output = EmptyBag /\ ended = FALSE
    BY DEF Init
  <2>2. JoinOf({}, inputs.right) = {}
    BY DEF JoinOf
  <2> QED BY <1>10, <2>1, <2>2 DEF Accounted, EmptyBag
<1> QED BY <1>2, <1>7, <1>8, <1>9, <1>11 DEF JInv

\* Inputs and join type never change.
LEMMA HashedKept == Hashed /\ UNCHANGED plan => Hashed'
BY DEF Hashed, plan

\* The probe side is as it was if nothing was pulled or spilled.
LEMMA ProbeFilesKept ==
  ASSUME Filed(probe_files, left, inputs.left), UNCHANGED plan,
         UNCHANGED <<probe_files, left>>
  PROVE  Filed(probe_files, left, inputs.left)'
BY DEF Filed, plan, Partitions, Bucket, Rows, RowsOnce

\* The same of the build side.
LEMMA BuildFilesKept ==
  ASSUME Filed(build_files, right, inputs.right), UNCHANGED plan,
         UNCHANGED <<build_files, right>>
  PROVE  Filed(build_files, right, inputs.right)'
BY DEF Filed, plan, Partitions, Bucket, Rows, RowsOnce

\* The rows probed so far are the same if the position is.
LEMMA DoneKept ==
  ASSUME UNCHANGED plan, UNCHANGED <<left, probe_files, current_partition,
                                     probe_batch_index>>
  PROVE  Done' = Done
BY DEF Done, plan, Bucket, Rows

\* A step that returns nothing may pass over rows that join to nothing.
LEMMA AccountKept ==
  ASSUME Accounted, UNCHANGED plan, output' = output,
         JoinOf(Done', inputs.right) = JoinOf(Done, inputs.right),
         ended' => Done' = inputs.left
  PROVE  Accounted'
<1>1. join_type' = join_type /\ residual' = residual /\ inputs' = inputs
  BY DEF plan
<1>2. JoinOf(Done, inputs.right)' = JoinOf(Done', inputs.right)
  BY <1>1 DEF JoinOf, JoinOfRow
<1>3. output' = SetToBag(JoinOf(Done', inputs.right))
  BY DEF Accounted
<1>4. output' = SetToBag(JoinOf(Done, inputs.right)')
  BY <1>2, <1>3
<1> QED BY <1>1, <1>4 DEF Accounted

\* Steps that move neither data nor the position.
LEMMA JQuiet ==
  ASSUME JInv, UNCHANGED plan,
         UNCHANGED <<left, right, build_files, probe_files,
                     current_partition, probe_batch_index, output>>,
         ended' => ended \/ Done = inputs.left,
         Cursor'
  PROVE  JInv'
<1>1. Hashed'
  BY HashedKept DEF JInv
<1>2. Filed(probe_files, left, inputs.left)'
  BY ProbeFilesKept DEF JInv
<1>3. Filed(build_files, right, inputs.right)'
  BY BuildFilesKept DEF JInv
<1>4. Done' = Done
  BY DoneKept
<1>5. Accounted'
  BY <1>4, AccountKept DEF JInv, Accounted
<1> QED BY <1>1, <1>2, <1>3, <1>5 DEF JInv

\* open() up to the spilling: the build table is the whole build side, or
\* nothing has moved yet.
LEMMA OpenStep ==
  ASSUME IInv, JInv, Open_InMemory \/ Open_Partitioned
  PROVE  JInv'
<1>0. UNCHANGED plan /\ phase = "new" /\ partition_count \in Nat \ {0}
  BY DEF Open_InMemory, Open_Partitioned, IInv, Budgeted
<1>1. CASE Open_InMemory
  <2>1. Hashed' /\ Filed(probe_files, left, inputs.left)'
    BY <1>0, <1>1, HashedKept, ProbeFilesKept DEF JInv, Open_InMemory, spilled
  <2>2. /\ right' = <<>> /\ build_files' = build_files
        /\ inputs' = inputs /\ partition_count' = partition_count
        /\ partition_count <= 1
    BY <1>0, <1>1 DEF Open_InMemory, spilled, plan
  <2>3. RowsOnce(<<>>)
    BY DEF RowsOnce
  <2>4. Filed(build_files, right, inputs.right)'
    <3>1. /\ <<>> \in Seq(SUBSET inputs.right) /\ RowsOnce(<<>>)
          /\ Partitions' = Partitions /\ ~(partition_count' > 1)
      BY <1>0, <2>2, <2>3 DEF Partitions
    <3>2. /\ build_files \in [Partitions -> Seq(SUBSET inputs.right)]
          /\ \A i \in Partitions :
               /\ RowsOnce(build_files[i])
               /\ \A k \in DOMAIN build_files[i] : build_files[i][k] # {}
      BY DEF JInv, Filed
    <3> QED BY <2>2, <3>1, <3>2 DEF Filed, RowsOnce
  <2>5. Cursor'
    <3>1. /\ phase' = "idle" /\ right_table' = Rows(right)
          /\ right_is_empty' = (right_table' = {})
          /\ UNCHANGED cursor
      BY <1>1 DEF Open_InMemory
    <3>2. /\ current_partition \in 0 .. partition_count
          /\ current_partition = 0 /\ probe_batch_index = 0
          /\ ~current_partition_built /\ ~probe_reader
          /\ Rows(right) = inputs.right
      BY <1>0 DEF JInv, Cursor
    <3>3. ~(partition_count' > 1)
      BY <1>0, <2>2
    <3>4. Loaded'
      BY <2>2, <3>1, <3>2, <3>3 DEF Loaded
    <3> QED BY <2>2, <3>1, <3>2, <3>3, <3>4 DEF Cursor, cursor
  <2>6. Done' = Done
    BY <1>0, <1>1, DoneKept DEF Open_InMemory, spilled, cursor
  <2>7. Accounted'
    BY <1>0, <1>1, <2>6, AccountKept
       DEF JInv, Open_InMemory, history, Accounted
  <2> QED BY <2>1, <2>4, <2>5, <2>7 DEF JInv
<1>2. CASE Open_Partitioned
  <2>1. Cursor'
    BY <1>0, <1>2 DEF JInv, Cursor, Open_Partitioned, cursor, plan
  <2> QED BY <1>0, <1>2, <2>1, JQuiet DEF Open_Partitioned, cursor, history
<1> QED BY <1>1, <1>2

\* open() moves one batch to the spill files, or is done with a side.
LEMMA SpillStep ==
  ASSUME IInv, JInv, SpillBuild \/ SpillProbe
  PROVE  JInv'
<1>0. /\ UNCHANGED plan /\ UNCHANGED <<cursor, history, table>>
      /\ partition_count \in Nat \ {0} /\ partition_count > 1
      /\ phase \in {"spill_build", "spill_probe"}
      /\ current_partition = 0 /\ probe_batch_index = 0
  BY DEF SpillBuild, SpillProbe, IInv, Budgeted, JInv, Cursor
<1>8. /\ ~current_partition_built /\ ~probe_reader
      /\ UNCHANGED <<partition_count, inputs, current_partition,
                     probe_batch_index, current_partition_built, probe_reader>>
  BY <1>0 DEF JInv, Cursor, plan, cursor
<1>1. Done = {} /\ Done' = {}
  <2>1. ASSUME NEW l \in inputs.left
        PROVE  Bucket(l) \in Int /\ Bucket(l) >= 0
    <3>1. Bucket(l) \in Partitions
      BY <1>0, Bucketed DEF JInv, Hashed
    <3> QED BY <3>1, <1>0 DEF Partitions
  <2>2. /\ inputs' = inputs /\ partition_count' = partition_count
        /\ current_partition' = 0 /\ probe_batch_index' = 0
        /\ \A l \in inputs.left : Bucket(l)' = Bucket(l)
    BY <1>0 DEF plan, cursor, Bucket
  <2>3. Done = {}
    BY <1>0, <2>1 DEF Done
  <2>4. Done' = {}
    BY <1>0, <2>1, <2>2 DEF Done
  <2> QED BY <2>3, <2>4
<1>2. Accounted'
  BY <1>0, <1>1, AccountKept DEF JInv, Accounted, history, plan
<1>3. Hashed'
  BY <1>0, HashedKept DEF JInv
<1>4. CASE SpillBuild /\ right # <<>>
  <2>1. Filed(probe_files, left, inputs.left)'
    BY <1>0, <1>4, ProbeFilesKept DEF JInv, SpillBuild
  <2>2. Filed(build_files', right', inputs.right)
    BY <1>0, <1>4, SpillFiled DEF JInv, SpillBuild
  <2>3. Filed(build_files, right, inputs.right)'
    BY <1>0, <2>2 DEF Filed, plan, Partitions, Bucket, Rows, RowsOnce
  <2>4. Cursor'
    <3>1. phase' = "spill_build"
      BY <1>4 DEF SpillBuild
    <3> QED BY <1>0, <1>8, <3>1 DEF Cursor
  <2> QED BY <1>2, <1>3, <2>1, <2>3, <2>4 DEF JInv
<1>5. CASE SpillProbe /\ left # <<>>
  <2>1. Filed(build_files, right, inputs.right)'
    BY <1>0, <1>5, BuildFilesKept DEF JInv, SpillProbe
  <2>2. Filed(probe_files', left', inputs.left)
    BY <1>0, <1>5, SpillFiled DEF JInv, SpillProbe
  <2>3. Filed(probe_files, left, inputs.left)'
    BY <1>0, <2>2 DEF Filed, plan, Partitions, Bucket, Rows, RowsOnce
  <2>4. Cursor'
    <3>1. phase' = "spill_probe" /\ right' = <<>>
      BY <1>5 DEF SpillProbe, JInv, Cursor
    <3> QED BY <1>0, <1>8, <3>1 DEF Cursor
  <2> QED BY <1>2, <1>3, <2>1, <2>3, <2>4 DEF JInv
<1>6. CASE SpillBuild /\ right = <<>>
  <2>1. Cursor'
    <3>1. phase' = "spill_probe" /\ right' = <<>>
      BY <1>6 DEF SpillBuild
    <3> QED BY <1>0, <1>8, <3>1 DEF Cursor
  <2> QED BY <1>0, <1>6, <2>1, JQuiet DEF SpillBuild, cursor, history
<1>7. CASE SpillProbe /\ left = <<>>
  <2>1. Cursor'
    <3>1. phase' = "idle" /\ left' = <<>> /\ right' = <<>>
      BY <1>7 DEF SpillProbe, JInv, Cursor
    <3> QED BY <1>0, <1>8, <3>1 DEF Cursor
  <2> QED BY <1>0, <1>7, <2>1, JQuiet DEF SpillProbe, cursor, history
<1> QED BY <1>4, <1>5, <1>6, <1>7

\* next() in memory: one batch of left rows more is accounted for.
LEMMA ProbeInMemoryStep ==
  ASSUME IInv, JInv, Probe_InMemory
  PROVE  JInv'
<1> DEFINE batch == Head(left)
<1>0. /\ UNCHANGED plan /\ UNCHANGED <<right, spilled, table, cursor, ended>>
      /\ partition_count <= 1 /\ partition_count \in Nat \ {0}
      /\ phase = "next" /\ left # <<>>
      /\ left' = Tail(left) /\ Deliver(batch)
      /\ join_type \in JoinTypes
  BY DEF Probe_InMemory, IInv, Budgeted, JInv, Hashed
<1>1. /\ right_table = inputs.right /\ right_is_empty = (inputs.right = {})
      /\ NoRow \notin right_table
  BY <1>0 DEF JInv, Cursor, Loaded, Hashed
<1>2. /\ batch \in SUBSET inputs.left /\ Tail(left) \in Seq(SUBSET inputs.left)
      /\ RowsOnce(Tail(left)) /\ Rows(left) = batch \cup Rows(Tail(left))
      /\ batch \cap Rows(Tail(left)) = {}
  BY <1>0, TailRows DEF JInv, Filed
<1>3. Done \cap batch = {}
  BY <1>0, <1>2 DEF Done
<1>4. Done' = Done \cup batch
  <2>1. Done' = {l \in inputs.left : l \notin Rows(Tail(left))}
    BY <1>0 DEF Done, plan, Rows
  <2>2. Done = {l \in inputs.left : l \notin Rows(left)}
    BY <1>0 DEF Done
  <2> QED BY <1>2, <2>1, <2>2
<1>5. output' = SetToBag(JoinOf(Done \cup batch, inputs.right))
  <2> HIDE DEF batch
  <2>1. output = SetToBag(JoinOf(Done, inputs.right))
    BY DEF JInv, Accounted
  <2>2. right_is_empty = (right_table = {})
          /\ JoinOf(batch, right_table) = JoinOf(batch, inputs.right)
    BY <1>1
  <2> QED BY <1>0, <1>1, <1>3, <2>1, <2>2, Delivered
<1>6. Accounted'
  <2>1. join_type' = join_type /\ residual' = residual /\ inputs' = inputs
          /\ ended' = ended
    BY <1>0 DEF plan
  <2>2. JoinOf(Done, inputs.right)' = JoinOf(Done', inputs.right)
    BY <2>1 DEF JoinOf, JoinOfRow
  <2>3. ended' => Done' = inputs'.left
    BY <1>2, <1>4, <2>1 DEF JInv, Accounted
  <2>4. output' = SetToBag(JoinOf(Done, inputs.right)')
    BY <1>4, <1>5, <2>2
  <2> QED BY <2>3, <2>4 DEF Accounted
<1>7. Hashed' /\ Filed(build_files, right, inputs.right)'
  BY <1>0, HashedKept, BuildFilesKept DEF JInv, spilled
<1>8. Filed(probe_files, left, inputs.left)'
  <2>1. /\ UNCHANGED <<partition_count, inputs, probe_files>>
        /\ left' = Tail(left) /\ ~(partition_count > 1)
    BY <1>0 DEF plan, spilled
  <2>2. /\ RowsOnce(left)' /\ left' \in Seq(SUBSET inputs.left)
        /\ Partitions' = Partitions
    BY <1>2, <2>1 DEF RowsOnce, Partitions
  <2>3. \A i \in Partitions : RowsOnce(probe_files[i])'
    BY <2>1 DEF JInv, Filed, RowsOnce
  <2> QED BY <2>1, <2>2, <2>3 DEF JInv, Filed
<1>9. Cursor'
  <2>1. phase' \in {"idle", "next"}
    BY <1>0 DEF Deliver
  <2> QED BY <1>0, <1>1, <2>1 DEF JInv, Cursor, Loaded, plan, cursor, table
<1> QED BY <1>6, <1>7, <1>8, <1>9 DEF JInv

\* A bucket holds the whole of the rows with a key, on both sides.
LEMMA BucketMatches ==
  ASSUME Hashed, NEW p \in Partitions, partition_count > 1,
         Filed(build_files, right, inputs.right), right = <<>>,
         NEW L \in SUBSET inputs.left, \A l \in L : Bucket(l) = p
  PROVE  JoinOf(L, Rows(build_files[p])) = JoinOf(L, inputs.right)
<1>1. Rows(build_files[p]) = {r \in inputs.right : Bucket(r) = p}
  <2>1. Rows(right) = {}
    BY DEF Rows
  <2>2. Rows(build_files[p])
          = {r \in inputs.right \ Rows(right) : Bucket(r) = p}
    BY DEF Filed
  <2> QED BY <2>1, <2>2, Zenon
<1>2. \A l \in L : {r \in Rows(build_files[p]) : l.key = r.key}
                     = {r \in inputs.right : l.key = r.key}
  <2>1. ASSUME NEW l \in L, NEW r \in inputs.right, l.key = r.key
        PROVE  Bucket(r) = p
    BY <2>1 DEF Bucket
  <2> QED BY <1>1, <2>1
<1> QED BY <1>2, SameMatches

\* The probe file of a bucket holds the left rows of the bucket.
LEMMA BucketOf ==
  ASSUME Filed(probe_files, left, inputs.left), left = <<>>,
         NEW p \in Partitions, partition_count > 1
  PROVE  /\ Rows(probe_files[p]) = {l \in inputs.left : Bucket(l) = p}
         /\ probe_files[p] \in Seq(SUBSET inputs.left)
         /\ RowsOnce(probe_files[p])
<1>1. Rows(left) = {}
  BY DEF Rows
<1> QED BY <1>1 DEF Filed

\* Before a batch is probed the table of its bucket is loaded, and the
\* position in the probe file is where the last call of next() left it.
LEMMA EnsureStep ==
  ASSUME IInv, JInv, EnsurePartitionBuilt
  PROVE  JInv'
<1>0. /\ UNCHANGED plan
      /\ UNCHANGED <<left, right, spilled, current_partition, output, ended>>
      /\ phase = "next" /\ phase' = "probe"
      /\ partition_count > 1 /\ current_partition < partition_count
      /\ probe_reader' = TRUE
      /\ probe_batch_index' = probe_batch_index
  <2>1. ~probe_reader => probe_batch_index = 0
    BY DEF EnsurePartitionBuilt, JInv, Cursor
  <2> QED BY <2>1 DEF EnsurePartitionBuilt
<1>1. Loaded'
  <2>1. CASE current_partition_built
    <3>1. Loaded
      BY <1>0, <2>1 DEF JInv, Cursor
    <3>2. UNCHANGED table
      BY <2>1 DEF EnsurePartitionBuilt
    <3> QED BY <1>0, <3>1, <3>2 DEF Loaded, plan, spilled, table, Rows
  <2>2. CASE ~current_partition_built
    <3>1. /\ right_table' = Rows(build_files[current_partition])
          /\ right_is_empty' = (build_files[current_partition] = <<>>)
      BY <2>2 DEF EnsurePartitionBuilt
    <3> QED BY <1>0, <3>1 DEF Loaded, plan, spilled, Rows
  <2> QED BY <2>1, <2>2
<1>2. Cursor'
  BY <1>0, <1>1 DEF JInv, Cursor, plan
<1> QED BY <1>0, <1>2, JQuiet DEF spilled

\* next() on a bucket: one batch of the probe file more is accounted for.
LEMMA ProbeSpilledStep ==
  ASSUME IInv, JInv, Probe_Spilled
  PROVE  JInv'
<1> DEFINE p == current_partition
           n == probe_batch_index
           file == probe_files[p]
           batch == file[n + 1]
<1>0. /\ UNCHANGED plan
      /\ UNCHANGED <<left, right, spilled, table, current_partition,
                     current_partition_built, probe_reader, ended>>
      /\ phase = "probe" /\ n < Len(file)
      /\ probe_batch_index' = n + 1 /\ Deliver(batch)
      /\ join_type \in JoinTypes
  BY DEF Probe_Spilled, NextIndex, JInv, Hashed
<1>1. /\ partition_count > 1 /\ partition_count \in Nat /\ p \in Partitions
      /\ n \in Nat /\ probe_reader /\ left = <<>> /\ right = <<>> /\ Loaded
  <2>1. /\ partition_count > 1 /\ p \in 0 .. partition_count
        /\ p < partition_count /\ n \in Nat /\ probe_reader
        /\ left = <<>> /\ right = <<>> /\ Loaded
    BY <1>0 DEF JInv, Cursor
  <2>2. partition_count \in Nat
    BY DEF IInv, Budgeted
  <2> QED BY <2>1, <2>2, OnBucket
<1>2. /\ Rows(file) = {l \in inputs.left : Bucket(l) = p}
      /\ file \in Seq(SUBSET inputs.left) /\ RowsOnce(file)
  BY <1>1, BucketOf DEF JInv
<1>3. n + 1 \in DOMAIN file /\ 1 .. n \subseteq DOMAIN file
        /\ n + 1 \notin 1 .. n /\ 1 .. n + 1 = 1 .. n \cup {n + 1}
  <2>1. n \in Nat /\ n < Len(file)
    BY <1>0, <1>1
  <2>2. DOMAIN file = 1 .. Len(file) /\ Len(file) \in Nat
    BY <1>2
  <2> HIDE DEF n, file
  <2> QED BY <2>1, <2>2
<1>4. batch \in SUBSET inputs.left /\ \A l \in batch : Bucket(l) = p
  <2>1. batch \subseteq Rows(file)
    BY <1>3 DEF Rows
  <2> QED BY <1>2, <2>1
<1>5. Done \cap batch = {}
  <2>1. ASSUME NEW l \in batch, l \in Done PROVE FALSE
    <3>1. ~(Bucket(l) < p)
      BY <1>1, <1>4 DEF Partitions
    <3>2. PICK k \in 1 .. n : l \in file[k]
      BY <1>1, <2>1, <3>1 DEF Done
    <3> QED BY <1>2, <1>3, <3>2 DEF RowsOnce
  <2> QED BY <2>1
<1>6. Done' = Done \cup batch
  <2>1. Done = {l \in inputs.left :
                  \/ Bucket(l) < p
                  \/ Bucket(l) = p /\ \E k \in 1 .. n : l \in file[k]}
    BY <1>1 DEF Done
  <2>2. Done' = {l \in inputs.left :
                  \/ Bucket(l) < p
                  \/ Bucket(l) = p /\ \E k \in 1 .. n + 1 : l \in file[k]}
    <3>1. /\ inputs' = inputs /\ partition_count' = partition_count
          /\ current_partition' = p /\ probe_files' = probe_files
          /\ probe_batch_index' = n + 1
      BY <1>0 DEF plan, spilled
    <3>2. \A l : Bucket(l)' = Bucket(l)
      BY <3>1 DEF Bucket
    <3>3. ~(partition_count <= 1)
      BY <1>1
    <3> QED BY <3>1, <3>2, <3>3 DEF Done
  <2> HIDE DEF file, p, n
  <2> QED BY <1>3, <1>4, <2>1, <2>2
<1>7. /\ right_table = Rows(build_files[p])
      /\ right_is_empty = (right_table = {})
      /\ NoRow \notin right_table
  <2>1. /\ right_table = Rows(build_files[p])
        /\ right_is_empty = (build_files[p] = <<>>)
    BY <1>1 DEF Loaded
  <2>2. /\ build_files[p] \in Seq(SUBSET inputs.right)
        /\ \A k \in DOMAIN build_files[p] : build_files[p][k] # {}
    BY <1>1 DEF JInv, Filed
  <2>3. Rows(build_files[p]) \subseteq inputs.right
    BY <2>2 DEF Rows
  <2>4. build_files[p] = <<>> => Rows(build_files[p]) = {}
    BY DEF Rows
  <2>5. build_files[p] # <<>> => Rows(build_files[p]) # {}
    <3>1. build_files[p] # <<>> => 1 \in DOMAIN build_files[p]
      BY <2>2
    <3> QED BY <2>2, <3>1 DEF Rows
  <2>6. NoRow \notin inputs.right
    BY DEF JInv, Hashed
  <2>7. right_is_empty = (right_table = {})
    BY <2>1, <2>4, <2>5
  <2> QED BY <2>1, <2>3, <2>6, <2>7
<1>8. JoinOf(batch, right_table) = JoinOf(batch, inputs.right)
  <2> HIDE DEF batch, p
  <2> QED BY <1>1, <1>4, <1>7, BucketMatches DEF JInv
<1>9. output' = SetToBag(JoinOf(Done \cup batch, inputs.right))
  <2>1. output = SetToBag(JoinOf(Done, inputs.right))
    BY DEF JInv, Accounted
  <2> HIDE DEF batch, p
  <2> QED BY <1>0, <1>5, <1>7, <1>8, <2>1, Delivered
<1>10. Accounted'
  <2>1. join_type' = join_type /\ residual' = residual /\ inputs' = inputs
          /\ ended' = ended
    BY <1>0 DEF plan
  <2>2. JoinOf(Done, inputs.right)' = JoinOf(Done', inputs.right)
    BY <2>1 DEF JoinOf, JoinOfRow
  <2>3. ended' => Done' = inputs'.left
    BY <1>4, <1>6, <2>1 DEF JInv, Accounted
  <2>4. output' = SetToBag(JoinOf(Done, inputs.right)')
    BY <1>6, <1>9, <2>2
  <2> QED BY <2>3, <2>4 DEF Accounted
<1>11. /\ Hashed' /\ Filed(build_files, right, inputs.right)'
       /\ Filed(probe_files, left, inputs.left)'
  BY <1>0, HashedKept, BuildFilesKept, ProbeFilesKept DEF JInv, spilled
<1>12. Loaded'
  BY <1>0, <1>1 DEF Loaded, plan, spilled, table, Rows
<1>13. Cursor'
  <2>1. phase' \in {"idle", "probe"}
    BY <1>0 DEF Deliver
  <2>2. p \in 0 .. partition_count /\ n + 1 \in Nat /\ p < partition_count
    BY <1>1 DEF Partitions
  <2> QED BY <1>0, <1>1, <1>12, <2>1, <2>2 DEF Cursor, plan
<1> QED BY <1>10, <1>11, <1>13 DEF JInv

\* A bucket is left when all its rows are probed, or when those that are not
\* would join to nothing.
LEMMA AdvanceStep ==
  ASSUME IInv, JInv, Advance
  PROVE  JInv'
<1> DEFINE p == current_partition
           file == probe_files[p]
           more == {l \in inputs.left : Bucket(l) = p}
<1>0. /\ UNCHANGED plan
      /\ UNCHANGED <<left, right, spilled, right_is_empty, history>>
      /\ phase \in {"next", "probe"} /\ phase' = "next"
      /\ probe_reader' = FALSE /\ probe_batch_index' = 0
      /\ current_partition' = p + 1 /\ current_partition_built' = FALSE
      /\ join_type \in JoinTypes
  BY DEF Advance, JInv, Hashed
<1>1. /\ partition_count > 1 /\ partition_count \in Nat /\ p \in Partitions
      /\ p \in Nat /\ p < partition_count
      /\ probe_batch_index \in Nat /\ left = <<>> /\ right = <<>>
  <2>1. partition_count > 1 /\ p < partition_count
    BY <1>0 DEF Advance, JInv, Cursor
  <2>2. /\ p \in 0 .. partition_count /\ probe_batch_index \in Nat
        /\ left = <<>> /\ right = <<>>
    BY <1>0, <2>1 DEF JInv, Cursor
  <2>3. partition_count \in Nat
    BY DEF IInv, Budgeted
  <2> QED BY <2>1, <2>2, <2>3, OnBucket
<1>2. /\ Rows(file) = more
      /\ file \in Seq(SUBSET inputs.left)
  BY <1>1, BucketOf DEF JInv
<1>3. \A l \in inputs.left : Bucket(l) \in Int /\ Bucket(l)' = Bucket(l)
  <2>1. \A l \in inputs.left : Bucket(l) \in Partitions
    BY <1>1, Bucketed DEF JInv, Hashed
  <2> QED BY <1>0, <1>1, <2>1 DEF Partitions, Bucket, plan
<1>4. Done' = Done \cup more
  <2>1. Done' = {l \in inputs.left : Bucket(l) < p + 1}
    <3>1. /\ inputs' = inputs /\ partition_count' = partition_count
          /\ ~(partition_count <= 1) /\ 1 .. probe_batch_index' = {}
      BY <1>0, <1>1 DEF plan
    <3> QED BY <1>0, <1>3, <3>1 DEF Done
  <2>2. /\ {l \in inputs.left : Bucket(l) < p} \subseteq Done
        /\ Done \subseteq {l \in inputs.left : Bucket(l) < p} \cup more
    BY <1>1 DEF Done
  <2>3. {l \in inputs.left : Bucket(l) < p + 1}
          = {l \in inputs.left : Bucket(l) < p} \cup more
    BY <1>1, <1>3
  <2> QED BY <2>1, <2>2, <2>3
<1>5. JoinOf(Done', inputs.right) = JoinOf(Done, inputs.right)
  <2>1. CASE more \subseteq Done
    BY <1>4, <2>1
  <2>2. CASE ~(more \subseteq Done)
    <3>1. phase # "probe"
      <4>1. SUFFICES ASSUME phase = "probe" PROVE more \subseteq Done
        BY <2>2
      <4>2. probe_batch_index = Len(file)
        BY <4>1 DEF Advance
      <4>3. \A l \in more : \E k \in 1 .. probe_batch_index : l \in file[k]
        BY <1>2, <4>2 DEF Rows
      <4> QED BY <1>1, <4>3 DEF Done
    <3>2. ~HasWork(p)
      BY <1>0, <3>1 DEF Advance
    <3>3. file # <<>>
      BY <1>2, <2>2 DEF Rows
    <3>4. build_files[p] = <<>> /\ join_type \in {"Inner", "LeftSemi"}
      BY <1>0, <3>2, <3>3 DEF HasWork, JoinTypes
    <3>5. Rows(build_files[p]) = {}
      BY <3>4 DEF Rows
    <3>6. JoinOf(more, {}) = JoinOf(more, inputs.right)
      <4>1. more \in SUBSET inputs.left /\ \A l \in more : Bucket(l) = p
        OBVIOUS
      <4> HIDE DEF more, p
      <4> QED BY <1>1, <3>5, <4>1, BucketMatches DEF JInv
    <3>7. \A l : JoinOfRow(l, {}) = {}
      <4>1. CASE join_type = "Inner"
        BY <4>1 DEF JoinOfRow
      <4>2. CASE join_type = "LeftSemi"
        BY <4>2 DEF JoinOfRow
      <4> QED BY <3>4, <4>1, <4>2
    <3>8. JoinOf(more, {}) = {}
      BY <3>7 DEF JoinOf
    <3>9. JoinOf(Done \cup more, inputs.right)
            = JoinOf(Done, inputs.right) \cup JoinOf(more, inputs.right)
      <4> HIDE DEF more
      <4> QED BY <1>0, JoinSplits
    <3> QED BY <1>4, <3>6, <3>8, <3>9
  <2> QED BY <2>1, <2>2
<1>6. Accounted'
  <2>1. output' = output /\ ended' = ended
    BY <1>0 DEF history
  <2>2. ended' => Done' = inputs.left
    BY <1>4, <2>1 DEF JInv, Accounted
  <2> QED BY <1>0, <1>5, <2>1, <2>2, AccountKept DEF JInv
<1>7. /\ Hashed' /\ Filed(build_files, right, inputs.right)'
      /\ Filed(probe_files, left, inputs.left)'
  BY <1>0, HashedKept, BuildFilesKept, ProbeFilesKept DEF JInv, spilled
<1>8. Cursor'
  <2>1. p + 1 \in 0 .. partition_count
    BY <1>1
  <2> QED BY <1>0, <1>1, <2>1 DEF Cursor, plan
<1> QED BY <1>6, <1>7, <1>8 DEF JInv

\* Every step keeps the invariant.
LEMMA JNext == IInv /\ JInv /\ [Next]_vars => JInv'
<1> SUFFICES ASSUME IInv, JInv, [Next]_vars PROVE JInv'
  OBVIOUS
<1>0. UNCHANGED plan
  BY PlanFixed
<1>1. CASE UNCHANGED vars
  <2>1. Cursor'
    BY <1>0, <1>1 DEF vars, spilled, table, cursor, JInv, Cursor, Loaded,
                      plan, Rows
  <2> QED BY <1>0, <1>1, <2>1, JQuiet DEF vars, spilled, cursor, history
<1>2. CASE Open_InMemory \/ Open_Partitioned
  BY <1>2, OpenStep
<1>3. CASE SpillBuild \/ SpillProbe
  BY <1>3, SpillStep
<1>4. CASE Probe_InMemory
  BY <1>4, ProbeInMemoryStep
<1>5. CASE EnsurePartitionBuilt
  BY <1>5, EnsureStep
<1>6. CASE Probe_Spilled
  BY <1>6, ProbeSpilledStep
<1>7. CASE Advance
  BY <1>7, AdvanceStep
<1>8. CASE Next_Call
  <2>1. Cursor'
    BY <1>0, <1>8 DEF Next_Call, spilled, table, cursor, JInv, Cursor,
                      Loaded, plan, Rows
  <2> QED BY <1>0, <1>8, <2>1, JQuiet DEF Next_Call, spilled, cursor, history
<1>9. CASE Next_End
  <2>1. Cursor'
    BY <1>0, <1>9 DEF Next_End, spilled, table, cursor, JInv, Cursor,
                      Loaded, plan, Rows
  <2>2. Done = inputs.left
    <3>1. CASE partition_count <= 1
      <4>1. left = <<>>
        BY <1>9, <3>1 DEF Next_End
      <4>2. Rows(left) = {}
        BY <4>1 DEF Rows
      <4> QED BY <3>1, <4>2 DEF Done
    <3>2. CASE ~(partition_count <= 1)
      <4>1. current_partition = partition_count
        BY <1>9, <3>2 DEF Next_End
      <4>2. partition_count \in Nat \ {0}
        BY DEF IInv, Budgeted
      <4>3. ASSUME NEW l \in inputs.left
            PROVE  Bucket(l) < current_partition
        <5>1. Bucket(l) \in Partitions
          BY <4>2, Bucketed DEF JInv, Hashed
        <5> QED BY <4>1, <4>2, <5>1 DEF Partitions
      <4> QED BY <3>2, <4>3 DEF Done
    <3> QED BY <3>1, <3>2
  <2> QED BY <1>0, <1>9, <2>1, <2>2, JQuiet DEF Next_End, spilled, cursor
<1>10. CASE Throw
  <2>1. Cursor'
    BY <1>0, <1>10 DEF Throw, cursor, JInv, Cursor, plan
  <2> QED BY <1>0, <1>10, <2>1, JQuiet DEF Throw, spilled, cursor, history
<1>11. CASE Close
  <2>1. Cursor'
    BY <1>0, <1>11 DEF Close, JInv, Cursor, plan
  <2> QED BY <1>0, <1>11, <2>1, JQuiet DEF Close, history
<1>12. CASE Destroy
  <2>1. Cursor'
    BY <1>0, <1>12 DEF Destroy, JInv, Cursor, plan
  <2> QED BY <1>0, <1>12, <2>1, JQuiet DEF Destroy, history
<1> QED
  BY <1>1, <1>2, <1>3, <1>4, <1>5, <1>6, <1>7, <1>8, <1>9, <1>10, <1>11,
     <1>12 DEF Next, Step

\* The invariant holds of every behaviour of the operator.
LEMMA JoinInvariance == Spec => []JInv
BY JInit, JNext, Invariance, PTL DEF Spec

\* Part of a join is the join of part of the left rows.
LEMMA PartOfJoin ==
  ASSUME NEW A, NEW B, NEW R, A \subseteq B
  PROVE  SetToBag(JoinOf(A, R)) \sqsubseteq SetToBag(JoinOf(B, R))
<1>1. JoinOf(A, R) \subseteq JoinOf(B, R)
  BY DEF JoinOf
<1> QED BY <1>1 DEF SetToBag, \sqsubseteq

\* For every pair of inputs, however they are cut into batches, every hash,
\* budget, number of buckets and failure: next() returns no row twice and
\* none that is not of the join, and at the end it has returned the join.
THEOREM JoinIsExact == Spec => []JoinExact
<1>1. JInv => JoinExact
  <2> SUFFICES ASSUME JInv PROVE JoinExact
    OBVIOUS
  <2>1. output = SetToBag(JoinOf(Done, inputs.right))
          /\ (ended => Done = inputs.left) /\ Done \subseteq inputs.left
    BY DEF JInv, Accounted, Done
  <2>2. output \sqsubseteq SetToBag(JoinOf(inputs.left, inputs.right))
    BY <2>1, PartOfJoin
  <2> QED BY <2>1, <2>2 DEF JoinExact
<1> QED BY <1>1, JoinInvariance, PTL

\* A new operator's state has its types.
LEMMA TypeInit == Init => TypeOK
<1> SUFFICES ASSUME Init PROVE TypeOK
  OBVIOUS
<1>1. estimate \in EstimatedRows
        /\ partition_count = choose_partition_count(estimate)
  BY DEF Init
<1>2. partition_count \in 1 .. kMaxPartitions
  BY <1>1, ChosenCount
<1>3. current_partition \in 0 .. partition_count
  BY <1>2, BudgetAssumption DEF Init
<1>4. IsABag(output)
  BY DEF Init, IsABag, EmptyBag, SetToBag
<1> QED BY <1>2, <1>3, <1>4 DEF Init, TypeOK

\* Every step keeps the types; that the build table is of the right input
\* needs what the files hold.
LEMMA TypeNext == TypeOK /\ IInv /\ JInv /\ [Next]_vars => TypeOK'
<1> SUFFICES ASSUME TypeOK, IInv, JInv, [Next]_vars PROVE TypeOK'
  OBVIOUS
<1> USE PlanFixed
<1>0. /\ partition_count' = partition_count /\ inputs' = inputs
      /\ Partitions' = Partitions
  BY DEF plan, Partitions
<1>1. JInv' /\ IInv'
  BY JNext, NextInv
<1>2. /\ current_partition' \in 0 .. partition_count'
      /\ probe_batch_index' \in Nat
      /\ reads' \in [Partitions' -> Nat]
      /\ partition_count' \in 1 .. kMaxPartitions
  BY <1>0, <1>1 DEF JInv, Cursor, IInv, ReadsMarked, TypeOK
<1>3. IsABag(output')
  <2>1. output' = SetToBag(JoinOf(Done, inputs.right)')
    BY <1>1 DEF JInv, Accounted
  <2> QED BY <2>1 DEF SetToBag, IsABag
<1>4. right_table' \subseteq inputs.right
  <2>1. right_table \subseteq inputs.right
    BY DEF TypeOK
  <2>2. CASE Open_InMemory
    <3>1. phase = "new" => Rows(right) = inputs.right
      BY DEF JInv, Cursor
    <3> QED BY <2>2, <3>1 DEF Open_InMemory
  <2>3. CASE EnsurePartitionBuilt
    <3>1. current_partition \in Partitions
      <4>1. current_partition < partition_count
        BY <2>3 DEF EnsurePartitionBuilt
      <4>2. current_partition \in 0 .. partition_count
        BY DEF JInv, Cursor
      <4>3. partition_count \in Nat
        BY DEF IInv, Budgeted
      <4> QED BY <4>1, <4>2, <4>3, OnBucket
    <3>2. build_files[current_partition] \in Seq(SUBSET inputs.right)
      BY <3>1 DEF JInv, Filed
    <3>3. Rows(build_files[current_partition]) \subseteq inputs.right
      BY <3>2 DEF Rows
    <3> QED BY <2>1, <2>3, <3>3 DEF EnsurePartitionBuilt, table
  <2>4. CASE ~Open_InMemory /\ ~EnsurePartitionBuilt
    BY <2>1, <2>4 DEF Next, Step, vars, table, Open_Partitioned, Next_Call,
       SpillBuild, SpillProbe, Probe_InMemory, Probe_Spilled, Advance,
       ReleaseTable, Next_End, Throw, Close, Destroy
  <2> QED BY <2>2, <2>3, <2>4
<1>5. phase' \in {"new", "spill_build", "spill_probe", "idle", "next",
                  "probe", "failed", "closed", "destroyed"}
  BY DEF TypeOK, Next, Step, vars, Open_InMemory, Open_Partitioned,
         Next_Call, SpillBuild, SpillProbe, Probe_InMemory,
         EnsurePartitionBuilt, Probe_Spilled, Deliver, Advance, Next_End,
         Throw, Close, Destroy
<1>6. scratch' \in BOOLEAN /\ probe_reader' \in BOOLEAN
        /\ ended' \in BOOLEAN
  BY DEF TypeOK, Next, Step, vars, spilled, cursor, history, Open_InMemory,
         Open_Partitioned, Next_Call, SpillBuild, SpillProbe,
         Probe_InMemory, EnsurePartitionBuilt, Probe_Spilled, Advance,
         Next_End, Throw, Close, Destroy, DestroyScratch
<1>7. right_is_empty' \in BOOLEAN /\ current_partition_built' \in BOOLEAN
  BY DEF TypeOK, Next, Step, vars, table, cursor, Open_InMemory,
         Open_Partitioned, Next_Call, SpillBuild, SpillProbe,
         Probe_InMemory, EnsurePartitionBuilt, Probe_Spilled, Advance,
         Next_End, Throw, Close, Destroy
<1> QED BY <1>0, <1>2, <1>3, <1>4, <1>5, <1>6, <1>7 DEF TypeOK

\* The state of both operators has its types throughout.
THEOREM TypeCorrect == Spec => []TypeOK
BY TypeInit, TypeNext, Invariance, JoinInvariance, PTL DEF Spec
=============================================================================
