-------------------------- MODULE HashJoinOperator --------------------------
(***************************************************************************)
(* The equi-joins: HashJoinOperator (INNER, LEFT OUTER) and                *)
(* SemiAntiJoinOperator (LEFT SEMI, LEFT ANTI), which share their shape.   *)
(* A build side that fits its budget is loaded by open() and probed batch  *)
(* by batch.  Otherwise open() spills both sides, hash-partitioned by key, *)
(* to files of a scratch directory, and next() works through the buckets,  *)
(* resuming in the middle of one across calls.                             *)
(*                                                                         *)
(* A row is its key, a value only a residual predicate looks at, and an    *)
(* identity, its place in the input; so a batch is a set of rows, since    *)
(* the joins look at no order inside one.  A result is a bag: returning a  *)
(* row twice is an error this must show.  The caller may close or destroy  *)
(* the operator between any two calls, and any call may throw.             *)
(***************************************************************************)
EXTENDS Integers, Sequences, Bags, FiniteSets

CONSTANTS
  LeftInputs, RightInputs,  \* the batch sequences a child may produce
  Hash,                     \* cudf::hash_partition's hash of a key
  EstimatedRows,            \* values of estimated_build_rows(); 0 is nullopt
  RowWidth,                 \* estimate_row_width_bytes of the build side
  BudgetBytes,              \* build_side_budget_bytes
  kMaxPartitions,
  Faults,                   \* which of "call", "close" may throw
  NoRow                     \* the right half of a null-extended row

ASSUME BudgetAssumption ==
  /\ BudgetBytes \in Nat /\ RowWidth \in Nat \ {0}
  /\ kMaxPartitions \in Nat \ {0, 1}
  /\ EstimatedRows \subseteq Nat

Rows(batches) == UNION {batches[i] : i \in DOMAIN batches}

\* A child produces each of its rows once.
RowsOnce(batches) ==
  \A i, j \in DOMAIN batches : i # j => batches[i] \cap batches[j] = {}

\* Every key has a hash, and the null half of a row is not a row.
ASSUME InputAssumption ==
  \A batches \in LeftInputs \cup RightInputs :
    /\ batches \in Seq(SUBSET Rows(batches))
    /\ RowsOnce(batches)
    /\ \A row \in Rows(batches) : row # NoRow /\ Hash[row.key] \in Nat

VARIABLES
  join_type,                \* "Inner", "LeftOuter", "LeftSemi", "LeftAnti"
  residual,                 \* residual_predicate_ is set
  estimate,                 \* estimated_build_rows of the plan node
  partition_count,
  left, right,              \* batches the children have still to produce
  phase,                    \* where the operator is between and inside calls
  scratch,                  \* scratch_dir_ exists on disk
  build_files, probe_files, \* the batches of each bucket's spill file
  right_table, right_is_empty,
  current_partition, current_partition_built,
  probe_reader, probe_batch_index,
  inputs,                   \* history: all the children produce
  output, ended,            \* history: what next() returned
  reads                     \* history: times a bucket's build file was read

plan == <<join_type, residual, estimate, partition_count, inputs>>
spilled == <<scratch, build_files, probe_files>>
table == <<right_table, right_is_empty>>
cursor == <<current_partition, current_partition_built, probe_reader,
            probe_batch_index>>
history == <<output, ended, reads>>
vars == <<plan, left, right, phase, spilled, table, cursor, history>>

Partitions == 0 .. partition_count - 1

-----------------------------------------------------------------------------
\* Mutant: no safety factor, rounded down.
choose_partition_count_Floor(rows) ==
  IF rows * RowWidth <= BudgetBytes \/ BudgetBytes = 0 THEN 1
  ELSE (rows * RowWidth) \div BudgetBytes

\* Mutant: no ceiling on the number of buckets.
choose_partition_count_Unbounded(rows) ==
  LET bytes == rows * RowWidth
      raw == (3 * bytes + 2 * BudgetBytes - 1) \div (2 * BudgetBytes)
  IN  IF rows = 0 \/ BudgetBytes = 0 \/ bytes <= BudgetBytes THEN 1
      ELSE IF raw < 2 THEN 2 ELSE raw

\* ceil(1.5 * bytes / budget), between 2 and the ceiling; 1 if it fits.
choose_partition_count(rows) ==
  LET bytes == rows * RowWidth
      raw == (3 * bytes + 2 * BudgetBytes - 1) \div (2 * BudgetBytes)
      atLeastTwo == IF raw < 2 THEN 2 ELSE raw
  IN  IF rows = 0 \/ BudgetBytes = 0 \/ bytes <= BudgetBytes THEN 1
      ELSE IF atLeastTwo < kMaxPartitions THEN atLeastTwo ELSE kMaxPartitions

Init ==
  /\ join_type \in {"Inner", "LeftOuter", "LeftSemi", "LeftAnti"}
  /\ residual \in BOOLEAN
  /\ residual => join_type \in {"LeftSemi", "LeftAnti"}
  /\ estimate \in EstimatedRows
  /\ partition_count = choose_partition_count(estimate)
  /\ left \in LeftInputs /\ right \in RightInputs
  /\ inputs = [left |-> Rows(left), right |-> Rows(right)]
  /\ phase = "new"
  /\ scratch = FALSE
  /\ build_files = [i \in Partitions |-> <<>>]
  /\ probe_files = [i \in Partitions |-> <<>>]
  /\ right_table = {} /\ right_is_empty = FALSE
  /\ current_partition = 0 /\ current_partition_built = FALSE
  /\ probe_reader = FALSE /\ probe_batch_index = 0
  /\ output = EmptyBag /\ ended = FALSE
  /\ reads = [i \in Partitions |-> 0]

-----------------------------------------------------------------------------
(* What cuDF computes for one probe batch *)

\* Null keys are one key like any other (null_equality::EQUAL).
Matches(l) == {r \in right_table :
                 l.key = r.key /\ (residual => l.val # r.val)}

inner_join(batch) ==
  SetToBag({p \in batch \X right_table : p[2] \in Matches(p[1])})

\* Every left row appears; without a match, paired with NoRow (JoinNoMatch).
left_join(batch) ==
  inner_join(batch) (+)
    SetToBag({<<l, NoRow>> : l \in {x \in batch : Matches(x) = {}}})

LeftOnly(rows) == SetToBag({<<l>> : l \in rows})

\* LEFT SEMI keeps the distinct left rows of the inner join; LEFT ANTI those
\* the left join pairs with the sentinel.
probe_one_batch(batch) ==
  CASE join_type = "LeftSemi" ->
         LeftOnly({p[1] : p \in BagToSet(inner_join(batch))})
    [] join_type = "LeftAnti" ->
         LeftOnly({p[1] : p \in {q \in BagToSet(left_join(batch)) :
                                   q[2] = NoRow}})
    [] join_type = "LeftOuter" -> left_join(batch)
    [] OTHER -> inner_join(batch)

null_extend_batch(batch) == SetToBag({<<l, NoRow>> : l \in batch})

\* Against an empty build side nothing is probed.
Joined(batch) ==
  CASE ~right_is_empty -> probe_one_batch(batch)
    [] right_is_empty /\ join_type = "LeftOuter" -> null_extend_batch(batch)
    [] right_is_empty /\ join_type = "LeftAnti" -> LeftOnly(batch)
    [] OTHER -> EmptyBag

\* next() skips a batch that joins to nothing, except where LEFT ANTI passes
\* the batch through unseen.
Returns(batch) == \/ Joined(batch) # EmptyBag
                  \/ right_is_empty /\ join_type = "LeftAnti"

\* The rest of next() after one probe batch: return its rows, or go on.
Deliver(batch) ==
  IF Returns(batch)
  THEN output' = output (+) Joined(batch) /\ phase' = "idle"
  ELSE UNCHANGED <<output, phase>>

-----------------------------------------------------------------------------
(* open() *)

\* open(), build side within budget: drain it and build the hash table.
Open_InMemory ==
  /\ phase = "new" /\ partition_count <= 1
  /\ phase' = "idle"
  /\ right' = <<>>
  /\ right_table' = Rows(right)
  /\ right_is_empty' = (right_table' = {})
  /\ UNCHANGED <<plan, left, spilled, cursor, history>>

\* open(), partitioned: the scratch directory is created.
Open_Partitioned ==
  /\ phase = "new" /\ partition_count > 1
  /\ phase' = "spill_build"
  /\ scratch' = TRUE
  /\ UNCHANGED <<plan, left, right, build_files, probe_files, table, cursor,
                 history>>

Bucket(row) == Hash[row.key] % partition_count

\* spill_partitioned_to_disk: the non-empty slices of one batch are appended
\* to their buckets' files, which are created on first use.
Spill(files, batch) ==
  [i \in Partitions |->
     LET slice == {row \in batch : Bucket(row) = i}
     IN  IF slice = {} THEN files[i] ELSE Append(files[i], slice)]

\* open(): the build side is drained first, then the probe side.
SpillBuild ==
  /\ phase = "spill_build"
  /\ IF right = <<>>
     THEN phase' = "spill_probe" /\ UNCHANGED <<right, build_files>>
     ELSE /\ build_files' = Spill(build_files, Head(right))
          /\ right' = Tail(right)
          /\ UNCHANGED phase
  /\ UNCHANGED <<plan, left, scratch, probe_files, table, cursor, history>>

SpillProbe ==
  /\ phase = "spill_probe"
  /\ IF left = <<>>
     THEN phase' = "idle" /\ UNCHANGED <<left, probe_files>>
     ELSE /\ probe_files' = Spill(probe_files, Head(left))
          /\ left' = Tail(left)
          /\ UNCHANGED phase
  /\ UNCHANGED <<plan, right, scratch, build_files, table, cursor, history>>

-----------------------------------------------------------------------------
(* next() *)

Next_Call ==
  /\ phase = "idle"
  /\ phase' = "next"
  /\ UNCHANGED <<plan, left, right, spilled, table, cursor, history>>

\* next(), in memory: pull one probe batch.
Probe_InMemory ==
  /\ phase = "next" /\ partition_count <= 1 /\ left # <<>>
  /\ left' = Tail(left)
  /\ Deliver(Head(left))
  /\ UNCHANGED <<plan, right, spilled, table, cursor, ended, reads>>

\* Mutant: a bucket without build rows is skipped for every join type.
HasWork_Inner(i) == probe_files[i] # <<>> /\ build_files[i] # <<>>

\* A bucket can produce rows: probe rows, and build rows or a join type that
\* keeps unmatched probe rows.
HasWork(i) ==
  /\ probe_files[i] # <<>>
  /\ build_files[i] # <<>> \/ join_type \in {"LeftOuter", "LeftAnti"}

\* Mutant: HashJoinOperator does not remember that the bucket is built.
Remembers_Never == FALSE

\* HashJoinOperator's ensure_partition_built sets current_partition_built_
\* after a load; SemiAntiJoinOperator's returns without setting it.
Remembers == join_type \in {"Inner", "LeftOuter"}

\* next(), partitioned, at the head of its loop: ensure_partition_built()
\* and the opening of the probe file.
EnsurePartitionBuilt ==
  /\ phase = "next"
  /\ partition_count > 1 /\ current_partition < partition_count
  /\ HasWork(current_partition)
  /\ phase' = "probe"
  /\ LET file == build_files[current_partition]
     IN  IF current_partition_built
         THEN UNCHANGED <<table, current_partition_built, reads>>
         ELSE /\ right_table' = Rows(file)
              /\ right_is_empty' = (file = <<>>)
              /\ current_partition_built' = (file = <<>> \/ Remembers)
              /\ reads' = IF file = <<>> THEN reads
                          ELSE [reads EXCEPT ![current_partition] = @ + 1]
  /\ probe_reader' = TRUE
  /\ probe_batch_index' = IF probe_reader THEN probe_batch_index ELSE 0
  /\ UNCHANGED <<plan, left, right, spilled, current_partition, output,
                 ended>>

\* Mutant: the index moves only when the batch has joined to something.
NextIndex_OnReturn(batch) ==
  probe_batch_index + (IF Returns(batch) THEN 1 ELSE 0)

\* ++probe_batch_index_, before the batch is looked at.
NextIndex(batch) == probe_batch_index + 1

\* next(), partitioned: one batch of the bucket's probe file.
Probe_Spilled ==
  /\ phase = "probe"
  /\ probe_batch_index < Len(probe_files[current_partition])
  /\ LET batch == probe_files[current_partition][probe_batch_index + 1]
     IN  probe_batch_index' = NextIndex(batch) /\ Deliver(batch)
  /\ UNCHANGED <<plan, left, right, spilled, table, current_partition,
                 current_partition_built, probe_reader, ended, reads>>

\* Mutant: the build table stays when its bucket is exhausted.
ReleaseTable_Kept == UNCHANGED right_table

\* right_table_.reset(), hash_join_.reset().
ReleaseTable == right_table' = {}

\* next(), partitioned: the bucket is exhausted or has nothing to produce.
Advance ==
  /\ partition_count > 1 /\ current_partition < partition_count
  /\ \/ phase = "next" /\ ~HasWork(current_partition)
     \/ /\ phase = "probe"
        /\ probe_batch_index = Len(probe_files[current_partition])
  /\ phase' = "next"
  /\ ReleaseTable
  /\ probe_reader' = FALSE /\ probe_batch_index' = 0
  /\ current_partition' = current_partition + 1
  /\ current_partition_built' = FALSE
  /\ UNCHANGED <<plan, left, right, spilled, right_is_empty, history>>

\* next() returns nullopt.
Next_End ==
  /\ phase = "next"
  /\ IF partition_count <= 1 THEN left = <<>>
                             ELSE current_partition = partition_count
  /\ phase' = "idle" /\ ended' = TRUE
  /\ UNCHANGED <<plan, left, right, spilled, table, cursor, output, reads>>

-----------------------------------------------------------------------------
(* Failure, close() and destruction *)

\* A child, cuDF or the file system throws inside open() or next().
Throw ==
  /\ "call" \in Faults
  /\ phase \in {"new", "spill_build", "spill_probe", "next", "probe"}
  /\ phase' = "failed"
  /\ UNCHANGED <<plan, left, right, spilled, table, cursor, history>>

\* close(): a child's close() may throw before the scratch directory goes.
Close ==
  /\ phase = "idle"
  /\ \/ /\ phase' = "closed"
        /\ scratch' = FALSE
        /\ probe_reader' = FALSE
     \/ /\ "close" \in Faults
        /\ phase' = "failed"
        /\ UNCHANGED <<scratch, probe_reader>>
  /\ UNCHANGED <<plan, left, right, build_files, probe_files, table,
                 current_partition, current_partition_built,
                 probe_batch_index, history>>

\* Mutant: the destructor relies on close().
DestroyScratch_Kept == UNCHANGED scratch

\* remove_scratch_dir() in the destructor.
DestroyScratch == scratch' = FALSE

\* The operator tree is destroyed, after a close() or while unwinding.
Destroy ==
  /\ phase \in {"new", "idle", "failed", "closed"}
  /\ phase' = "destroyed"
  /\ DestroyScratch
  /\ right_table' = {} /\ probe_reader' = FALSE
  /\ UNCHANGED <<plan, left, right, build_files, probe_files,
                 right_is_empty, current_partition, current_partition_built,
                 probe_batch_index, history>>

Step == \/ SpillBuild \/ SpillProbe
        \/ Probe_InMemory \/ EnsurePartitionBuilt \/ Probe_Spilled
        \/ Advance \/ Next_End

Next == \/ Open_InMemory \/ Open_Partitioned \/ Next_Call \/ Step
        \/ Throw \/ Close \/ Destroy

Spec == Init /\ [][Next]_vars

\* A call that has begun runs on; the caller owes no call.
FairSpec == Spec /\ WF_vars(Step)

-----------------------------------------------------------------------------
(* Properties *)

\* The types of the operator's state.
TypeOK ==
  /\ partition_count \in 1 .. kMaxPartitions
  /\ phase \in {"new", "spill_build", "spill_probe", "idle", "next", "probe",
                "failed", "closed", "destroyed"}
  /\ right_table \subseteq inputs.right
  /\ current_partition \in 0 .. partition_count
  /\ {scratch, right_is_empty, current_partition_built, probe_reader, ended}
       \subseteq BOOLEAN
  /\ probe_batch_index \in Nat
  /\ IsABag(output)
  /\ reads \in [Partitions -> Nat]

\* What a left row contributes to its join with the rows R, by definition.
JoinOfRow(l, R) ==
  LET on == {r \in R : l.key = r.key /\ (residual => l.val # r.val)}
      pairs == {<<l, r>> : r \in on}
  IN  CASE join_type = "Inner" -> pairs
        [] join_type = "LeftOuter" ->
             IF on = {} THEN {<<l, NoRow>>} ELSE pairs
        [] join_type = "LeftSemi" -> IF on = {} THEN {} ELSE {<<l>>}
        [] join_type = "LeftAnti" -> IF on = {} THEN {<<l>>} ELSE {}

JoinOf(L, R) == UNION {JoinOfRow(l, R) : l \in L}

\* However the inputs are cut into batches and buckets, next() never returns
\* a row that is not of the join or returns one twice, and when it reports
\* the end it has returned the whole join.
JoinExact ==
  LET join == SetToBag(JoinOf(inputs.left, inputs.right))
  IN  output \sqsubseteq join /\ (ended => output = join)

\* The build table held by a partitioned join is of the bucket under way;
\* between buckets and after the last one none is held.
OneBucketResident ==
  partition_count > 1 =>
    right_table \subseteq
      IF current_partition < partition_count
      THEN Rows(build_files[current_partition]) ELSE {}

\* Whatever was thrown where, the scratch directory does not outlive the
\* operator, nor a close() that returned.
ScratchRemoved == phase \in {"closed", "destroyed"} => ~scratch

\* choose_partition_count: a bucket of an evenly spread build side fits the
\* budget, unless the ceiling on the number of buckets was hit.
BucketsFitBudget ==
  \/ BudgetBytes = 0
  \/ partition_count = kMaxPartitions
  \/ estimate * RowWidth <= BudgetBytes * partition_count

\* HashJoinOperator loads the build file of a bucket at most once, however
\* many calls of next() the bucket takes.
BuiltOnce ==
  join_type \in {"Inner", "LeftOuter"} => \A i \in Partitions : reads[i] <= 1

\* The same of SemiAntiJoinOperator, whose header says that
\* ensure_partition_built() is idempotent after the first visit of a bucket.
SemiAntiBuiltOnce ==
  join_type \in {"LeftSemi", "LeftAnti"} =>
    \A i \in Partitions : reads[i] <= 1

\* A call of open() or next() that has begun comes back: the walk over
\* batches and buckets ends.
CallsReturn ==
  phase \in {"spill_build", "spill_probe", "next", "probe"}
    ~> phase \in {"idle", "failed"}
=============================================================================
