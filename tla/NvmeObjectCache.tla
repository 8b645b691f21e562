------------------------- MODULE NvmeObjectCache -------------------------
(***************************************************************************)
(* The read-through NVMe object cache (src/src/storage/nvme_object_cache). *)
(* Reader threads call get_or_populate on cache keys; each call holds the  *)
(* key's lock from the existence test to the final open, and a call that   *)
(* populated an entry runs the eviction sweep before it returns.  A crash  *)
(* wipes the process, keeps the directory, and the constructor of the next *)
(* process seeds the gauges from what it finds there.                      *)
(*                                                                         *)
(* A key stands for a cache file name (the hash of one URI).  Of the       *)
(* files' mtimes only the order they make is kept.  The cumulative hit,    *)
(* miss and eviction counters are left out: nothing in the cache reads     *)
(* them.                                                                   *)
(***************************************************************************)
EXTENDS Integers, FiniteSets, Sequences

CONSTANTS
  Threads,        \* reader threads
  Keys,           \* cache keys
  Workloads,      \* the functions [Threads -> SUBSET Keys] to consider: the
                  \* keys each thread's queries read
  ClaimedSize,    \* [Keys -> Nat]: remote->size(), the size the backend claims
  MaxSizeBytes,   \* config_.max_size_bytes; 0 is unbounded
  Faults,         \* which of "populate", "scan", "unlink", "crash"
                  \* may happen
  NoThread, NoKey \* sentinels

ASSUME SentinelAssumption == NoThread \notin Threads /\ NoKey \notin Keys
ASSUME SizeAssumption == ClaimedSize \in [Keys -> Nat] /\ MaxSizeBytes \in Nat
ASSUME WorkloadAssumption == Workloads \subseteq [Threads -> SUBSET Keys]
ASSUME FiniteAssumption == IsFiniteSet(Threads) /\ IsFiniteSet(Keys)

VARIABLES
  reads,           \* the workload
  pc,              \* [Threads -> control point of the thread's call]
  key,             \* [Threads -> key the call serves, NoKey when idle]
  written,         \* [Threads -> bytes written to the call's temp file]
  lock,            \* key_locks_: [Keys -> owner or NoThread]
  evictionMutex,   \* eviction_mutex_: owner or NoThread
  entries,         \* the sweep's sorted list of entries still to visit
  total,           \* the sweep's running total
  present,         \* keys whose .cache file is in the directory
  fileSize,        \* [Keys -> size of the file, when present]
  recency,         \* the pairs <<j, k>> such that j's mtime is before k's
  current_bytes,   \* current_bytes_
  current_entries  \* current_entries_

process == <<pc, key, written>>
sweep == <<evictionMutex, entries, total>>
directory == <<present, fileSize, recency>>
gauges == <<current_bytes, current_entries>>
vars == <<reads, process, lock, sweep, directory, gauges>>

Populating == {"fetch", "write", "rename"}
Evicting == {"scan", "sweep", "remove"}
Holding == {"check", "account", "evict", "touch", "open"}
             \cup Populating \cup Evicting

\* The bytes on disk under the keys of S, by key and place in the file, and
\* how many they are.
Bytes(S) == UNION {{k} \X (1 .. fileSize[k]) : k \in S}
SizeOf(S) == Cardinality(Bytes(S))

\* k becomes the most recently written file.
Bump(k) ==
  recency' = {p \in recency : k \notin {p[1], p[2]}} \cup ((Keys \ {k}) \X {k})

-----------------------------------------------------------------------------
Init ==
  /\ reads \in Workloads
  /\ pc = [t \in Threads |-> "idle"]
  /\ key = [t \in Threads |-> NoKey]
  /\ written = [t \in Threads |-> 0]
  /\ lock = [k \in Keys |-> NoThread]
  /\ evictionMutex = NoThread
  /\ entries = <<>>
  /\ total = 0
  /\ present = {}
  /\ fileSize = [k \in Keys |-> 0]
  /\ recency = {}
  /\ current_bytes = 0
  /\ current_entries = 0

Goto(t, point) == pc' = [pc EXCEPT ![t] = point]

\* The lock_guard of get_or_populate goes out of scope, by return or throw.
Return(t) ==
  /\ Goto(t, "idle")
  /\ key' = [key EXCEPT ![t] = NoKey]
  /\ written' = [written EXCEPT ![t] = 0]
  /\ lock' = [lock EXCEPT ![key[t]] = NoThread]

\* A query asks for the object behind k.
Call(t, k) ==
  /\ pc[t] = "idle"
  /\ k \in reads[t]
  /\ Goto(t, "lock")
  /\ key' = [key EXCEPT ![t] = k]
  /\ UNCHANGED <<written, lock, sweep, directory, gauges>>

\* Mutant: no per-key lock.
Lock_Shared(t) ==
  /\ pc[t] = "lock"
  /\ lock' = [lock EXCEPT ![key[t]] = t]
  /\ Goto(t, "check")
  /\ UNCHANGED <<key, written, sweep, directory, gauges>>

\* The recursive mutex of the key; a thread never waits for one it holds.
Lock(t) ==
  /\ pc[t] = "lock"
  /\ lock[key[t]] = NoThread
  /\ lock' = [lock EXCEPT ![key[t]] = t]
  /\ Goto(t, "check")
  /\ UNCHANGED <<key, written, sweep, directory, gauges>>

\* fs::exists: a hit goes straight to the touch, a miss to the backend.
Check(t) ==
  /\ pc[t] = "check"
  /\ Goto(t, IF key[t] \in present THEN "touch" ELSE "fetch")
  /\ UNCHANGED <<key, written, lock, sweep, directory, gauges>>

FetchOk(t) ==
  /\ pc[t] = "fetch"
  /\ Goto(t, "write")
  /\ UNCHANGED <<key, written, lock, sweep, directory, gauges>>

\* backend.open, the temp file, a read, a write, the close or the rename
\* fails: the temp file is removed and the call throws StorageError.
PopulateFails(t) ==
  /\ "populate" \in Faults
  /\ pc[t] \in Populating
  /\ Return(t)
  /\ UNCHANGED <<sweep, directory, gauges>>

\* The chunk loop: n is short of the claimed size when ReadAt returned no
\* bytes early.  The temp file's mtime is the one the entry will start with.
WriteTemp(t) ==
  /\ pc[t] = "write"
  /\ \E n \in 0..ClaimedSize[key[t]] : written' = [written EXCEPT ![t] = n]
  /\ Bump(key[t])
  /\ Goto(t, "rename")
  /\ UNCHANGED <<key, lock, sweep, present, fileSize, gauges>>

Rename(t) ==
  /\ pc[t] = "rename"
  /\ present' = present \cup {key[t]}
  /\ fileSize' = [fileSize EXCEPT ![key[t]] = written[t]]
  /\ Goto(t, "account")
  /\ UNCHANGED <<key, written, lock, sweep, recency, gauges>>

\* Mutant: the size the backend claimed is counted.
Account_Claimed(t) ==
  /\ pc[t] = "account"
  /\ current_bytes' = current_bytes + ClaimedSize[key[t]]
  /\ current_entries' = current_entries + 1
  /\ Goto(t, IF MaxSizeBytes = 0 THEN "touch" ELSE "evict")
  /\ UNCHANGED <<key, written, lock, sweep, directory>>

\* The two fetch_adds, and the call of evict_if_over_budget.
Account(t) ==
  /\ pc[t] = "account"
  /\ current_bytes' = current_bytes + written[t]
  /\ current_entries' = current_entries + 1
  /\ Goto(t, IF MaxSizeBytes = 0 THEN "touch" ELSE "evict")
  /\ UNCHANGED <<key, written, lock, sweep, directory>>

-----------------------------------------------------------------------------
(* evict_if_over_budget *)

\* Mutant: the budget is compared before the new entry's bytes are in.
EvictBegin_Early(t) ==
  /\ pc[t] = "evict"
  /\ evictionMutex = NoThread
  /\ IF current_bytes - written[t] <= MaxSizeBytes
     THEN Goto(t, "touch") /\ UNCHANGED evictionMutex
     ELSE Goto(t, "scan") /\ evictionMutex' = t
  /\ UNCHANGED <<key, written, lock, entries, total, directory, gauges>>

\* eviction_mutex_ and the early return on the gauge.
EvictBegin(t) ==
  /\ pc[t] = "evict"
  /\ evictionMutex = NoThread
  /\ IF current_bytes <= MaxSizeBytes
     THEN Goto(t, "touch") /\ UNCHANGED evictionMutex
     ELSE Goto(t, "scan") /\ evictionMutex' = t
  /\ UNCHANGED <<key, written, lock, entries, total, directory, gauges>>

\* The eviction_guard goes out of scope.
EvictEnd(t) ==
  /\ Goto(t, "touch")
  /\ evictionMutex' = NoThread
  /\ entries' = <<>>
  /\ total' = 0

\* The directory cannot be listed to its end: the call throws.
ScanFails(t) ==
  /\ "scan" \in Faults
  /\ pc[t] = "scan"
  /\ Return(t)
  /\ evictionMutex' = NoThread
  /\ UNCHANGED <<entries, total, directory, gauges>>

\* The file of j was written or touched before the file of k.
Older(j, k) == <<j, k>> \in recency

\* Mutant: the comparison is the wrong way round.
ByMtime_NewestFirst(S) ==
  {s \in [1 .. Cardinality(S) -> S] :
     \A i, n \in DOMAIN s : i < n => s[i] # s[n] /\ Older(s[n], s[i])}

\* The files of S sorted by mtime, oldest first.
ByMtime(S) ==
  {s \in [1 .. Cardinality(S) -> S] :
     \A i, n \in DOMAIN s : i < n => s[i] # s[n] /\ Older(s[i], s[n])}

\* The directory listing and the sort.
Scan(t) ==
  /\ pc[t] = "scan"
  /\ IF SizeOf(present) <= MaxSizeBytes
     THEN EvictEnd(t)
     ELSE /\ entries' \in ByMtime(present)
          /\ total' = SizeOf(present)
          /\ Goto(t, "sweep")
          /\ UNCHANGED evictionMutex
  /\ UNCHANGED <<key, written, lock, directory, gauges>>

SweepDone(t) ==
  /\ pc[t] = "sweep"
  /\ entries = <<>> \/ total <= MaxSizeBytes
  /\ EvictEnd(t)
  /\ UNCHANGED <<key, written, lock, directory, gauges>>

\* Mutant: the sweep comes back to a busy entry until its try_lock succeeds.
SweepSkip_Retries(t) ==
  /\ pc[t] = "sweep"
  /\ entries # <<>> /\ total > MaxSizeBytes
  /\ Head(entries) = key[t] \/ lock[Head(entries)] # NoThread
  /\ entries' = IF Head(entries) = key[t] THEN Tail(entries)
                ELSE Append(Tail(entries), Head(entries))
  /\ UNCHANGED <<process, lock, evictionMutex, total, directory, gauges>>

\* The protected key, and an entry whose try_lock fails, are left alone.
SweepSkip(t) ==
  /\ pc[t] = "sweep"
  /\ entries # <<>> /\ total > MaxSizeBytes
  /\ Head(entries) = key[t] \/ lock[Head(entries)] # NoThread
  /\ entries' = Tail(entries)
  /\ UNCHANGED <<process, lock, evictionMutex, total, directory, gauges>>

\* Mutant: the result of try_lock is ignored.
SweepTryLock_Ignored(t) ==
  /\ pc[t] = "sweep"
  /\ entries # <<>> /\ total > MaxSizeBytes
  /\ Head(entries) # key[t]
  /\ lock' = [lock EXCEPT ![Head(entries)] = t]
  /\ Goto(t, "remove")
  /\ UNCHANGED <<key, written, sweep, directory, gauges>>

\* The victim's lock is free and taken.
SweepTryLock(t) ==
  /\ pc[t] = "sweep"
  /\ entries # <<>> /\ total > MaxSizeBytes
  /\ Head(entries) # key[t] /\ lock[Head(entries)] = NoThread
  /\ lock' = [lock EXCEPT ![Head(entries)] = t]
  /\ Goto(t, "remove")
  /\ UNCHANGED <<key, written, sweep, directory, gauges>>

\* Mutant: only the bytes are subtracted.
Removed_BytesOnly(victim) ==
  /\ present' = present \ {victim}
  /\ total' = total - fileSize[victim]
  /\ current_bytes' = current_bytes - fileSize[victim]
  /\ UNCHANGED current_entries

\* The victim's file is gone and no longer counted.
Removed(victim) ==
  /\ present' = present \ {victim}
  /\ total' = total - fileSize[victim]
  /\ current_bytes' = current_bytes - fileSize[victim]
  /\ current_entries' = current_entries - 1

\* fs::remove under the victim's lock; when it reports an error the entry
\* stays and nothing is subtracted.
SweepRemove(t) ==
  /\ pc[t] = "remove"
  /\ LET victim == Head(entries) IN
     /\ \/ Removed(victim)
        \/ "unlink" \in Faults /\ UNCHANGED <<present, total, gauges>>
     /\ lock' = [lock EXCEPT ![victim] = NoThread]
  /\ entries' = Tail(entries)
  /\ Goto(t, "sweep")
  /\ UNCHANGED <<key, written, evictionMutex, fileSize, recency>>

-----------------------------------------------------------------------------
\* fs::last_write_time(now), its error ignored.
Touch(t) ==
  /\ pc[t] = "touch"
  /\ IF key[t] \in present THEN Bump(key[t]) ELSE UNCHANGED recency
  /\ Goto(t, "open")
  /\ UNCHANGED <<key, written, lock, sweep, present, fileSize, gauges>>

\* cache_store_.open, after which the key lock is released.
Open(t) ==
  /\ pc[t] = "open"
  /\ Return(t)
  /\ UNCHANGED <<sweep, directory, gauges>>

\* Mutant: the gauges of a new process start at zero.
SeedMetrics_Zero == current_bytes' = 0 /\ current_entries' = 0

\* seed_metrics_from_existing_directory counts the .cache files it finds.
SeedMetrics ==
  /\ current_bytes' = SizeOf(present)
  /\ current_entries' = Cardinality(present)

\* The process dies and a new one is constructed over the same directory.
Restart ==
  /\ "crash" \in Faults
  /\ pc' = [t \in Threads |-> "idle"]
  /\ key' = [t \in Threads |-> NoKey]
  /\ written' = [t \in Threads |-> 0]
  /\ lock' = [k \in Keys |-> NoThread]
  /\ evictionMutex' = NoThread
  /\ entries' = <<>>
  /\ total' = 0
  /\ SeedMetrics
  /\ UNCHANGED directory

Step(t) ==
  \/ Lock(t) \/ Check(t) \/ FetchOk(t) \/ WriteTemp(t) \/ Rename(t)
  \/ Account(t) \/ EvictBegin(t) \/ Scan(t) \/ SweepDone(t) \/ SweepSkip(t)
  \/ SweepTryLock(t) \/ SweepRemove(t) \/ Touch(t) \/ Open(t)

Next ==
  /\ \/ \E t \in Threads :
          Step(t) \/ PopulateFails(t) \/ ScanFails(t) \/ \E k \in Keys : Call(t, k)
     \/ Restart
  /\ UNCHANGED reads

Spec == Init /\ [][Next]_vars

\* Every thread keeps running, and a mutex that is released again and again
\* is eventually granted to each thread that waits for it.  New calls, crashes
\* and failures are never owed.
FairSpec ==
  /\ Spec
  /\ \A t \in Threads :
       /\ WF_vars(Step(t) /\ UNCHANGED reads)
       /\ SF_vars(Lock(t) /\ UNCHANGED reads)
       /\ SF_vars(EvictBegin(t) /\ UNCHANGED reads)

-----------------------------------------------------------------------------
TypeOK ==
  /\ reads \in Workloads
  /\ pc \in [Threads -> {"idle", "lock"} \cup Holding]
  /\ key \in [Threads -> Keys \cup {NoKey}]
  /\ written \in [Threads -> Nat]
  /\ lock \in [Keys -> Threads \cup {NoThread}]
  /\ evictionMutex \in Threads \cup {NoThread}
  /\ entries \in Seq(Keys)
  /\ total \in Int
  /\ present \subseteq Keys
  /\ fileSize \in [Keys -> Nat]
  /\ recency \subseteq Keys \X Keys
  /\ current_bytes \in Int
  /\ current_entries \in Nat

\* An entry found or written by a call is still there when the call opens it:
\* no sweep deletes a file between fs::exists (or populate) and
\* cache_store_.open, the window the per-key lock and protected_key close.
OpenFindsEntry ==
  \A t \in Threads : pc[t] \in {"touch", "open"} => key[t] \in present

\* The backend object of a key is fetched by one call at a time and never
\* while its entry is on disk: population of the same key is serialized, so a
\* rename never replaces an entry that is already counted.
SinglePopulation ==
  \A t \in Threads : pc[t] \in Populating =>
    /\ key[t] \notin present
    /\ \A u \in Threads \ {t} : ~(pc[u] \in Populating /\ key[u] = key[t])

\* Entries renamed into place and not added to the gauges yet.
Uncounted == {key[t] : t \in {u \in Threads : pc[u] = "account"}}

\* current_entries_ is the number of entries on disk, less those between their
\* rename and their fetch_add; in particular no fetch_sub ever wraps it.
EntriesExact == current_entries = Cardinality(present \ Uncounted)

\* current_bytes_ is what those entries hold on disk (the bytes really written,
\* not the size the backend claimed), across sweeps, failures and restarts;
\* the early return of evict_if_over_budget relies on it.
BytesExact == current_bytes = SizeOf(present \ Uncounted)

\* One thread alone calls the cache: sweeps meet no locked entry.
Alone == Cardinality({t \in Threads : reads[t] # {}}) = 1

\* Of one thread: once every call has returned the directory is within budget,
\* unless all it holds is one entry that alone exceeds the budget (the
\* protected key).
QuiescentBudget ==
  (Alone /\ MaxSizeBytes # 0 /\ \A t \in Threads : pc[t] = "idle") =>
    SizeOf(present) <= MaxSizeBytes \/ Cardinality(present) = 1

\* Of one thread: a sweep removes least recently used entries, and no entry
\* older than the one removed, and free to be removed, stays behind.
LruEviction ==
  [][Alone => \A v \in present \ present', j \in present' :
       lock[j] = NoThread => ~Older(j, v)]_vars

\* Every get_or_populate call returns (or throws): sweeps that meet each
\* other's keys never wait for one another.
CallsReturn == \A t \in Threads : pc[t] = "lock" ~> pc[t] = "idle"

=============================================================================
