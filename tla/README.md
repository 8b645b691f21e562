# KernelLake in TLA+

KernelLake is a GPU query engine over Parquet, Iceberg and Delta tables, with a
command line and an Arrow Flight SQL server. This directory specifies it in two
halves. The concurrent half (the server, the cache, the scan, the joins) is a
set of state machines whose steps interleave, fail and restart. The sequential
half (a query on its way from text to rows) is a pipeline of operators, one per
stage of the code, compared with an independent meaning of SQL. TLC checks both
on small instances; TLAPS proves, for every instance, the safety properties of the
concurrent half and that scans leave out no row they should return.

Paths such as `src/src/server/...` are relative to the directory above this one;
below, `server/...` stands for `src/src/server/...`.

## The system and its parts

| Part | Sources | Model |
|---|---|---|
| Flight SQL server | `server/flight_sql_server.cpp` | `FlightSqlServer`, promises in `ResultRegistry` |
| GPU execution coordinator | `server/gpu_execution_coordinator_gpu.cpp` | `GpuExecutionCoordinator`, composed into `FlightSqlServer` |
| NVMe object cache | `storage/nvme_object_cache.cpp` | `NvmeObjectCache` |
| Parquet scan | `execution_gpu/parquet_scan_operator.cpp` | `ParquetScanOperator` |
| Hash, semi and anti joins, spilling | `execution_gpu/*join*.cpp` | `HashJoinOperator` |
| SQL front end | `sql/`, `planner/`, `expression/` | `SqlText`, `Parser`, `Ast`, `SubqueryResolver`, `Binder`, `LogicalPlanner`, `Plans`, `Expressions` over `Values` |
| Optimizer | `optimizer/` | `Optimizer` |
| Tables: Hive, Iceberg, Delta, Unity Catalog | `io/table_resolution.cpp`, `iceberg/`, `delta/`, `unitycatalog/` | `TableResolution` |
| Physical planner | `io/physical_planner.cpp`, `planner/` | `PhysicalPlanner`, the scans in `ScanPlanning` |
| Pruning of row groups and of partitions | `io/parquet_pruning.cpp`, `iceberg/partition_pruning.cpp` | `Pruning`, dates in `Calendar` |
| CPU backend | `execution_cpu/` | `CpuExecution` over `Execution` |
| GPU operators other than scan and join | `execution_gpu/` | `GpuExecution` over `Execution` |
| Query engine | `api/` | `QueryEngine`, meaning of SQL in `SqlSemantics` over `SqlValues` |
| Memory accounting, object stores, configuration, server process, CLI, observability | `memory/`, `storage/`, `common/`, `cli/`, ... | see "Not modelled" |

A client sends SQL to the server. A handler plans it (`engine_.explain`),
reserves a slot, executes it (on the CPU, or on the device the coordinator
picks), buffers the whole result under a handle and answers with a ticket; a
second RPC redeems the ticket. Planning reads a table's metadata once for the
logical plan and again for the physical one, and runs the subqueries it cannot
rewrite into joins. On the GPU a query is a tree of operators pulled by one
thread; a scan at its leaves decodes on a thread of its own. Remote objects are
read through the NVMe cache, which concurrent queries share.

## The state machines

### `FlightSqlServer`

One element of `Calls` is one RPC. `pc` is where its handler is. Each critical
section of `results_mutex_` is one action: `Admit` (cap check and reservation),
`Release` (the catch blocks), `Publish` (reservation becomes a buffered
result), `Prepare`, `ClosePreparedStatement`, `GetFlightInfoPreparedStatement`,
`DoGetStatement`. Between them lie planning (`Explain`), execution (`Dispatch`,
`Acquire`, `Executed`) and the building of tickets and streams (`BuildTicket`,
`BuildStream`), each of which may fail. `Restart` kills the process and starts
another: registries and counters are new, clients keep their handles.

A result is its SQL and the call that executed it; a handle is its kind and its
number. Clients only pass handles they were given (`Issuers`, external).
`results_`, `prepared_`, `pending_count_` and `next_handle_` keep their names.

`ResultRegistry` is what the server promises about slots. `SlotOf` is the
refinement mapping; `ImplementsRegistry` says every behaviour of the server is
one of the registry.

### `GpuExecutionCoordinator`

`next_device`, and per device the permits left. `Dispatch` is the `fetch_add`,
`Acquire` and `Leave` the two ends of `SemaphoreGuard`. `FlightSqlServer`
instantiates the module over its own variables, and `DevicesShared` states its
two promises there. The counter is a natural number: wrapping it takes 2^64
queries, and after a wrap the order of devices shifts once when their number is
not a power of two.

### `NvmeObjectCache`

Threads call `get_or_populate` on keys (a key is a cache file name). The action
boundaries are the file-system calls and the lock operations, since other
threads see the directory between them. `recency` is the order of the files'
mtimes as pairs (older, newer), a write or a hit makes its key the newest of
all, and a sweep's list is any listing sorted by it. `SizeOf` adds up file sizes
by counting the bytes of the files, which keeps the sum within the prover's
reach. `written` is what was copied, which a short read makes smaller than the
claimed size. `reads` says which keys each
thread's queries read. `Restart` kills the process at any point; the
constructor of the next one counts the `.cache` files. The cumulative hit, miss
and eviction counters, which nothing in the cache reads, are left out.

### `ParquetScanOperator`

A chunk is its position in the source; the source says which chunks have rows
and which file each is from, in the order of the files. `InOrderOnce` compares
what `next()` has returned with that: every chunk returned has rows and its own
file's partition values, is later than those before it, and no chunk with rows
is skipped; at the end of stream all have been returned. Without partition columns the decode thread and
`next()` share a one-slot queue. Both sides of `queue_cv_` are modelled with
explicit sleeping: a thread whose predicate is false sleeps until the other one
notifies (or wakes it spuriously), so a missing `notify_all` shows. With
partition columns `next()` reads one file after the other itself
(`OpenFragment`, `ReadFragment`, `NextFragment`) and attaches the current
file's partition values. The driver may close or destroy the operator at any
time between calls. CUDA events are counted, those orphaned by a failed CUDA
call apart.

### `HashJoinOperator`

Both join operators, which differ in the join types they serve and in one
assignment (`Remembers`). `phase` is where the operator is between and inside
calls. `open()` loads the build side at once (`Open_InMemory`) or spills both
sides batch by batch (`SpillBuild`, `SpillProbe`); `next()` pulls probe batches
(`Probe_InMemory`), or walks the buckets (`EnsurePartitionBuilt`,
`Probe_Spilled`, `Advance`) and returns in the middle of one. `Throw` is an
exception in any of these, `Close` may throw too, and `Destroy` may come at any
time between calls.

A row is its key, a value for residual predicates and its place in the input, so
rows differ from one another and a batch is a set of them: the joins look at no
order inside a batch, and `Append`ing batches to files keeps the order between
them. `InputAssumption` says so of the children (no row is produced twice) and
that every key has a hash. What cuDF computes for one batch (`inner_join`, `left_join`) is external, and
results are bags because cuDF leaves the order of matches open. Null keys equal
each other, as the code asks of cuDF (`null_equality::EQUAL`); `JoinExact`
compares with the join under that equality, which is not SQL's. The vector of
non-empty flags is read off the files: a flag is set exactly when a slice was
written. `remove_all` is assumed to succeed.

## A query from text to rows

`QueryEngine` has one query and the tables. Its actions are `plan_logical`,
`explain` (the physical plan, with the files read again), `execute_cpu`,
`execute_gpu` and `Commit`, another writer's change to a table between the two
readings. What each action computes is the pipeline below, in which definitions
keep the names of the functions they translate.

* `SqlText` (external) is the text as the hsql library parses it: the calls
  `read_parquet(..)`, `read_iceberg(..)` in textual order and a tree in which
  tables are numbered placeholders.
* `Parser` converts that tree and gives each FROM clause the call it claims; the
  claims follow the order of conversion, which must be the order of the text.
* `Ast` has the nodes of `sql/ast.hpp`.
* `SubqueryResolver` turns EXISTS conjuncts into semi and anti join steps and
  correlated scalar subqueries into joins with grouped derived tables.
  Subqueries left over are run on the CPU while planning (`run_subquery` in
  `QueryEngine`).
* `Binder` resolves names, types every expression, inserts casts and enforces
  the rules of aggregation. `LogicalPlanner` builds the logical plan. `Plans` has
  the nodes of logical and physical plans.
* `Optimizer` folds constants, merges and pushes filters and limits, and
  annotates scans with the columns and predicates they need.
* `TableResolution` finds the files of a table: Hive directories with inferred
  types, Iceberg manifests with specs, statuses, position deletes and partition
  pruning, the files of a Delta snapshot, and Unity Catalog, which leads to one
  of the others through a store of its own.
* `Pruning` decides by the statistics of a row group, or by the partition value
  of a file, that no row of it can satisfy a predicate. `Calendar` has the year
  and the month of a day, for partitions by them: the turns that the loops of
  `civil_from_days` take are the first at which a running sum of days passes the
  day.
* `ScanPlanning` resolves a scan's table again, with the predicates, prunes row
  groups by statistics and narrows columns. `PhysicalPlanner` converts the other
  nodes, remaps references and swaps join sides by estimated size.
* `CpuExecution` is the translation into Acero declarations, `GpuExecution` the
  translation into operators and what each does with batches: partial
  aggregates and when they are folded, limits that cut a batch, batches that a
  filter empties. `Execution` says what the engine relies on Arrow and cuDF for
  (external), `Expressions` has the typed expressions, `Values` the types and
  values.
* `SqlSemantics` is the reference: what a SELECT means, evaluated row by row
  from its syntax tree with nested loops, without binder, plans or operators.
  `SqlValues` is the part of it about single values.

Values are small: integers wrap at `IntMax`, doubles and decimals are exact
quotients, a double holds every integer only up to `ExactMax`, strings are their
ranks, dates are day numbers with the real calendar. An exception is an error
value that every later stage passes on.

## Runs

| Run | Instance | Shows |
|---|---|---|
| `flight_safety` | 4 RPCs, 2 statements, cap 2, 2 devices | reservation count exact, cap respected, tickets and prepared handles lead to their own result and plan, one delivery per result, devices shared evenly within their permits |
| `flight_live` | 3 RPCs, 1 device, 1 permit, 1 restart | the server implements `ResultRegistry`; every RPC is answered |
| `nvme_safety` | 2 threads, 3 keys, every failure, restarts | no entry vanishes under a call, one population of a key at a time, both gauges exact |
| `nvme_live` | 2 threads on 2 keys, or 1 thread on 3, failed populations | every call returns; of one thread alone, budget and LRU order |
| `scan` | all scans of up to 4 chunks over up to 3 files, with and without partition columns, every failure | order, partition values, events, lifetime of the reader, bounded read-ahead, no lost wakeup |
| `join` | all inputs of up to 2 batches a side, every join type, 1 to 3 buckets, exceptions anywhere | the rows returned are the join; one bucket held, loaded once; scratch directory removed; calls come back |
| `plan` | 347 statements, 3 databases, 5 commits, 2 GPU configurations | see below |

`plan` checks six properties of every statement, database and sequence of
commits:

* `CpuCorrect`: what the CPU backend returns is what `SqlSemantics` says, over
  the tables as they were when the files were listed; a table that cannot be
  read correctly is an error and never a result;
* `GpuCorrect`: the same of the GPU backend, however rows are cut into batches,
  where it runs the plan, no NULL is a key and every scan reads a column;
* `Planned`: supported statements are planned, whatever is in the tables;
* `PruningSound`: what partition values and statistics leave out has no row that
  satisfies the pushed predicates;
* `ColumnsAgree`: every column reference of a physical plan names the column it
  finds at its index;
* `OptimizerPreserves`: the plan as built and as optimized return the same bag.

Runs that are expected to find a violation, each against a sentence of the
repository:

| Run | Sentence | What happens |
|---|---|---|
| `flight_stale_ticket` | a ticket of an earlier process is refused: "(already consumed, or the server restarted)" | handle numbers start again at 0, so the ticket redeems another query's result |
| `scan_device` | operators do not touch "an implicit current-device resource" | the decode thread's event is created on device 0; on another device the scan fails |
| `join_rebuild` | a bucket is loaded once, "idempotent afterward via current_partition_built_" | the semi/anti join never sets the flag after a load, so each later call in the bucket loads it again |
| `plan_derived` | a derived table is planned "exactly as if it were a real source" | a projection over a WHERE over a derived table is remapped by the scan's column map and returns another column |
| `backends` | both backends "produce identical results" | a query of partition columns alone returns nothing on the GPU and all rows on the CPU |

The properties of `plan` leave these cases out, and say so: `GpuCorrect` NULL keys
and scans without columns (`backends`), all of them the shapes of
`plan_derived`, and a table whose schema changed between the two readings.

Smaller disagreements and limits, read off the source and not given a run of
their own:

* past the cap statements are rejected "with ExecutionError"
  (`config.hpp:327`); the status sent is OutOfMemory;
* cache entries "are evicted until it's back under budget" in LRU order
  (`config.hpp:198`); with concurrent calls busy entries are skipped, and an
  entry hit after the sweep listed the directory still goes by its old mtime.
  `nvme_live` shows both sentences true of one thread;
* the decode thread waits "for next() to have drained the previous chunk before
  decoding another" (`parquet_scan_operator.cpp:185`); the wait comes after the
  decode, so two chunks are held, which is what `BoundedReadAhead` states;
* "this join() can block for up to one chunk's decode time"
  (`parquet_scan_operator.cpp:313`); empty chunks are decoded one after another
  without a look at the stop flag;
* "75%" of free device memory (`config.hpp:35`) is 9/10 in
  `resolve_query_memory_limit` (`rmm_environment.cpp:55`);
* a file counts as deleted when as many rows of position deletes name it as it
  has records; the comment speaks of distinct positions
  (`position_delete_reader.cpp:90`);
* cuDF drops NULL group keys, Acero keeps them
  (`hash_aggregate_operator.cpp:348`);
* "a row group is only ever skipped when a predicate can be *proven* impossible"
  (`parquet_pruning.hpp:25`); statistics are compared as doubles
  (`parquet_pruning.cpp:36`), so among integers above 2^53 a row group may be
  left out wrongly for `<`, `>` and `<>`, and only for these (see Proofs);
* scan annotations and pushed predicates go by index and by name through derived
  tables (`optimizer.cpp:688`), where both may mean another column;
* the type of a Hive partition column is inferred anew at each reading
  (`table_resolution.cpp:126`), and nothing compares it with the earlier one;
* a subquery as the operand of a simple CASE is converted once per WHEN and
  claims a source each time; a decorrelated COUNT gives NULL, not 0, without a
  match; `SELECT * ... GROUP BY` is not checked against the group keys;
* a slot stays taken when building its ticket fails, and results that nobody
  redeems never expire (`flight_sql_server.cpp:105`, `:147`).

### Bounds

A call happens once, so the number of calls bounds handles and devices without
further caps. Two callers past the cap, a reader and a redeemer of one ticket,
and a close during an execution need at most four calls. A cap of 2 lets one
buffered result and one query under way compete with a third. `MaxRestarts`
bounds restarts; one is enough for a handle to survive one. In the cache the
keys have sizes 1, 2 and 4 under a budget of 3: two entries fit together, and
one alone exceeds the budget. Two threads are the least for a sweep to meet a
hit, a population and another sweep. Four chunks let the slot fill, one chunk
wait behind it, and empty chunks come between; three files let one without
chunks lie between two others. In the joins two keys over three buckets leave a
bucket empty on either or both sides, two batches of a key make a bucket span
two calls, and 20 estimated rows over a budget of 4 hit the ceiling of 3 (64 in
the code). `MCSymmetry` permutes calls, statements or threads in runs that check
only invariants.

In `plan` the tables are: `t`, a Parquet directory of one or two files with
several row groups and NULLs; `h`, a Hive directory
partitioned by numbers, days or words; `u`, an Iceberg table with an identity
and a month spec, entries of all three statuses, and position deletes of a whole
file and of part of one; `p`, a Delta table; and `w` and `v` of Unity Catalog,
over Delta and Parquet files that only vended credentials open, and over an
Iceberg table. A commit changes `t`, `h` or `u`. The
statements come in families: scans with filters, orders and limits; aggregates;
joins of up to three tables; EXISTS, IN and scalar subqueries; derived tables.
The larger families are products of small sets of clauses. One GPU configuration
cuts input into batches of one row and results into batches of two and splits
every join in two, the other keeps everything whole but takes a small number of
distinct keys. Integers wrap at 100 and doubles are exact up to 50; the values
of the tables stay below both, so overflow is modelled and not exercised.

### Fairness

Handlers run on threads of their own that keep running: weak fairness of each
handler's steps, none of arrivals, restarts or failures. In the cache a mutex
that keeps being released is eventually granted to each waiter (strong fairness
of the two lock steps). In the scan both threads keep running once inside the
operator; the driver owes no call, and spurious wakeups are never counted on.
The joins are single-threaded: weak fairness of the steps inside a call.

Three passing runs do not check deadlock, since their systems may stop: a destroyed
join does nothing more, a query ends with its result (`plan`), and in
`flight_live` the finitely many calls are all answered, which `CallsAnswered`
states more sharply.

## Proofs

| Module | Theorem | Property, for every instance |
|---|---|---|
| `FlightSqlServerProofs` | `TypeCorrect`, `ReservationsExact`, `CapSafety` | `TypeOK`, `PendingExact`, `CapRespected` |
| | `FairDevices` | `DevicesShared` |
| `RegistryProofs` | `OneDelivery`, `Refinement` | `DeliveredOnce`, `ImplementsRegistry` |
| | `FaithfulTickets`, `FaithfulPlans` | `TicketFidelity`, `PreparedFidelity`, within one process |
| `NvmeObjectCacheProofs` | `EntryKept`, `PopulatedOnce`, `TypeCorrect` | `OpenFindsEntry`, `SinglePopulation`, `TypeOK` |
| | `GaugeExact`, `BytesGaugeExact` | `EntriesExact`, `BytesExact` |
| | `EvictsOldestFirst` | `LruEviction`, where no unlink fails |
| | `WithinBudgetWhenIdle` | `QuiescentBudget`, where nothing fails but populations |
| `ParquetScanProofs` | `InOrderAndComplete`, `TypeCorrect` | `InOrderOnce`, `TypeOK` |
| | `EventsBounded`, `ReaderSafety`, `ReadAheadBound` | `EventsAccounted`, `ReaderOutlivesDecoding`, `BoundedReadAhead` |
| `HashJoinProofs` | `JoinIsExact`, `TypeCorrect` | `JoinExact`, `TypeOK` |
| | `PartitionsHonourBudget`, `ResidentBound`, `ScratchSafety`, `BucketLoadedOnce` | `BucketsFitBudget`, `OneBucketResident`, `ScratchRemoved`, `BuiltOnce` |
| `PruningProofs` | `RowGroupsSkippedSoundly` | no row of a row group that `evaluate_pruning` drops satisfies the predicates |
| | `LossyComparisonSkipsARow` | its hypothesis on doubles cannot be dropped |
| | `IdentityPartitionsSkippedSoundly`, `CoarsePartitionsSkippedSoundly` | no value of a partition that `ComparesEmpty` rules out satisfies the predicate |
| `CalendarProofs` | `CalendarMonotonic` | every day has a year and a month, and a later day no earlier ones |
| `ScanPlanningProofs` | `ScansPrunedSoundly` | `PrunesSoundly`, of every scan of every table: what `PruningSound` says of the scans of a planned query |

With these every safety property that the passing runs check of the five state
machines is a theorem, and so is what `PruningSound` says of one scan.

**Server.** Assumed: the cap and the numbers of devices and permits are positive,
the calls are finitely many, the sentinels are not values. `IInv` adds
`SqlKnown` (a call that has reached a point where its statement is used has one;
`Publish` needs it for the type of a result) to the three properties. The cap
needs the exact count: `Publish` turns one reservation into one entry, so the
sum does not grow, but only because `pending_count` was at least one, which
`PendingExact` gives since the publishing call is itself reserved. There is one
lemma per action; `QuietStep` covers the actions that neither cross the border
of the reserved points nor touch the registries.

One delivery per result is not inductive: `RInv` adds `Owned` (a buffered result
lies under a handle numbered below the counter that its publisher was given)
and `Spent` (a delivered result is no longer buffered). With them each call
occupies at most one slot of `ResultRegistry`, `SlotsCounted` bounds the
occupied slots by the cap, and every step of the server maps to a step of the
registry or leaves the slots alone. `HInv` adds that no two calls are given the
same handle, that a handle passed to a call comes from one that has arrived, and
that a prepared plan is that of the call its handle was given to. It assumes
`MaxRestarts = 0`, without which `flight_stale_ticket` refutes the conclusion.

**Coordinator.** Round robin is fair because at any time, for some `q`, the
devices before the next turn have been given `q + 1` queries and the others `q`;
permits are those held by the calls inside `SemaphoreGuard`.

**Cache.** Assumed: threads and keys are finitely many, sizes are natural
numbers. The invariant says per thread what it owns at each step: the lock of
the key it populates or opens, the lock of the key it is about to remove, the
sweep mutex while it sweeps, whose list has distinct entries that are still on
disk. An entry found present stays since only the owner of its lock removes it.

`BInv` adds what the byte gauge needs: an entry not counted yet has the size its
writer is about to add (`Sized`). Adding and removing an entry then changes
`SizeOf` by the size of that entry (`SizeSplit`, from the library's facts on
cardinality).

Budget and order hold of one thread alone. `SInv` says that every lock belongs
to a call or to the removal under way (`Owned`), so a lone sweep meets no lock
but its own; that no file is both older and newer than another (`Ordered`); and
that the sweep's list is what is left of the directory, oldest first, and its
running total the size of the directory (`SoloSweep`). Then the head of the list
is the oldest entry, and a sweep ends within budget or with the protected key
alone, which `QInv` carries to the end of the call. The hypotheses on failures
are needed: a removal that fails leaves an older entry behind while the sweep
goes on, and a listing that fails, or a crash before the sweep, leaves the
directory over its budget until the next population.

**Scan.** `Stages` ties the phases of both threads to the reader's life. `Events`
counts the live events: those in the queue, the one in the decode thread's hands
and the orphaned ones, of which each thread leaves at most one. The queue never
holds two chunks. The sources are arbitrary.

That nothing is lost or swapped on the way is `OInv`. Chunks pass in order from
the reader through the decode thread's hands and the queue to the consumer
(`InLine`). As long as `next()` may still be called, every chunk with rows up to
the reader's position is in one of these places, unless the decode thread has
failed and `next()` is still to say so (`NoneMissing`). The thread reports the
end, and a file is left, only when no chunk is ahead (`Exhausted`). A return of
`next()` then hands out the smallest chunk not yet returned, or finds there is
none.

**Joins.** Assumed: sizes are natural numbers, the row width is positive, the ceiling
at least 2. The first theorem rests on `RoundedUp`, a lemma about rounding a
quotient up. The inductive invariant adds `NoTableYet` (while the build files
still grow no table is held, so growing them breaks nothing) and `ReadsMarked`
(buckets ahead are unread, and the one under way is read only if marked built).

`JoinIsExact` rests on `JInv`. Each file of a bucket holds the rows of that
bucket that are no longer with the child, once each and in no empty batch
(`Filed`); the table held is the one the next probe batch has to meet
(`Cursor`); and what has been returned is the bag of the join of the rows probed
(`Done`, `Accounted`). A step that probes a batch adds rows to `Done` and their
join to the output, and the two bags are disjoint because the rows are. That a
bucket is enough is `BucketMatches`: equal keys have equal hashes, whatever the
hash. A bucket passed over without a read has no left rows, or its left rows join
to nothing: an inner or semi join with an empty build bucket.

**Pruning.** Assumed: NULL is not TRUE, files and literals are typed, and
nothing of how many files, row groups, rows or values there are. A row satisfies
a predicate (`Satisfies`, from the meaning of SQL) only if neither its value nor
the literal is NULL. The statistics of a column with a value exist and lie on
either side of all its values (`StatisticsBound`): finitely many values in a
total order have a first one (`FirstOfMany`, by the least number of values that
have none), and `Order` is total and transitive on every type, on quotients by
their cross products. `BoundDecides` then says what comparing a bound with the
literal in doubles tells about a value inside the bound. Strings, booleans and
numbers that a double holds compare as they are. Rounding an integer to a double
may make two integers equal and never swaps two (`RoundingMonotone`), so a strict
outcome is always right: `=`, `<=` and `>=` prune integers of any size soundly.
`<`, `>` and `<>` also use the outcome "equal", and need every value of the
column and the literal to be held by a double (`DoublesSuffice`);
`LossyComparisonSkipsARow` shows that they do, with the value 2^53 and the
predicate `< 2^53 + 1`. Of a partition by a transform only monotonicity is used,
and `proves_empty` asks for strict outcomes there, so the size of the values does
not matter.

**Calendar.** Nothing is assumed. A recursive function on the naturals is a
function because running sums of every length exist and agree (`SumExists`,
`SumUnique`, both by a least counterexample, since the prover has no induction).
A year has at least 365 days, so within `d / 365` turns the sum passes `d` and the
loops over the years end; the twelve months of a year add up to its days, so the
loop over the months ends in it (`YearOfDay`, `MonthOfDay`). The first turn at
which a sum passes a day is no later for an earlier day; before 1970 the loop
runs backwards and the order of turns is the reverse of the order of years.

**Scans.** The theorem takes a table as it is resolved without predicates and the
node `convert_scan` makes of a scan with them. It says that the scan is planned
whenever that table is resolved, and that every row group it does not read, be it
one dropped by its statistics or one of an Iceberg file that was never opened,
has only rows that do not satisfy the predicates. Three hypotheses are needed.
`Comparisons`: rows and literals are typed, and doubles can compare them, as
above. `IcebergWritten`: the writer of an Iceberg table stored partition values
that the transforms make of the rows of the file; the reader cannot see this, and
a writer that breaks it loses rows. It does not ask for the values themselves to
be understood: bucket, truncate and every unknown transform or Avro type may be
present and rule out nothing (`TransformsUnderstood`), a column dropped since
names no predicate. And the files are a sequence. The tables of `plan` satisfy all
three, and Iceberg files are pruned there.

The argument follows the code. `RuledOutSoundly` joins the position of a
partition field, the column its source id names in the current schema and the
column of that name in the file, which have to be the same one (`SourceColumn`,
`SchemaNames`, `NameFound`). For an identity field it is
`IdentityPartitionsSkippedSoundly`, for `day`, `month` and `year`
`CoarsePartitionsSkippedSoundly` with `CalendarMonotonic`. `EntriesUnpruned` and
`FilesAfterDeletes` say which entries of the manifests become files: pruning
comes before deletes and schemas are looked at, so a table that resolves without
predicates also does with them, and of a file that is gone either all rows are
deleted or its partition values ruled it out (`IcebergPrunedSoundly`). The other
kinds of table are resolved without the predicates (`ResolvedAlike`). `FilesRead`
then says that a fragment reads the row groups `evaluate_pruning` leaves.

Only model-checked: liveness (`CallsAnswered`, `CallsReturn` of the cache, the
scan and the joins), which needs fairness and ENABLED and is out of the prover's
reach; and the six properties of the query pipeline. Expressions, plans and syntax
trees are recursive, and what a recursive operator computes takes an induction
that the prover does not have. So `CpuCorrect`, `GpuCorrect`, `Planned`,
`ColumnsAgree` and `OptimizerPreserves` stay with TLC. Of `PruningSound` this
leaves that the scans of a plan, found by recursion over it, carry typed
predicates. The runs that find a violation are
counterexamples, not statements to prove.

## Not modelled

* GPU memory accounting: counters around RMM allocations; nothing in the engine
  decides by them, and the limit is enforced inside RMM.
* Object stores, HTTP, REST and gRPC clients, Avro decoding, OAuth tokens and
  their cache: I/O. `TableResolution` and the cache take what they return as
  given.
* Configuration, start-up, signals, CLI, generator, logging, observability,
  export of metrics: sequential code whose effect on the modelled parts is the
  value of a constant or the arrival of a call.
* In the query pipeline: the text itself (names and URIs are model values, text
  is what hsql makes of it), timestamps and the hour transform, DECIMAL
  partition columns, nullability in the comparison of schemas, several paths in
  one call, the concurrent reading of footers, conversion of results to Arrow,
  printing of plans.
* Where NULLs sort is taken from a comment of the code, since Arrow and cuDF
  decide it. Rows that a limit may cut anywhere, being tied or unordered, are
  compared by `AllowedResult`, which accepts any choice among them.
