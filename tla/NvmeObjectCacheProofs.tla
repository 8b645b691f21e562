---------------------- MODULE NvmeObjectCacheProofs ----------------------
(***************************************************************************)
(* Safety of the cache for any number of threads and keys, any sizes and   *)
(* budget, and every failure: a call finds the entry it opens, a key is    *)
(* populated by one call at a time, and both gauges are exact; and of one  *)
(* reader alone, that it evicts in order and stays within the budget.  The *)
(* argument is the ownership of locks: a call holds its key's lock from    *)
(* the existence test to the open, and a sweep removes an entry only under *)
(* that entry's lock.                                                      *)
(***************************************************************************)
EXTENDS NvmeObjectCache, FiniteSetTheorems, SequenceTheorems, TLAPS

\* The part of TypeOK that the argument needs.
Typed ==
  /\ pc \in [Threads -> {"idle", "lock"} \cup Holding]
  /\ key \in [Threads -> Keys \cup {NoKey}]
  /\ lock \in [Keys -> Threads \cup {NoThread}]
  /\ present \subseteq Keys
  /\ current_entries \in Int

\* The points from the rename, or a hit, to the end of the call.
Stored == {"account", "evict", "touch", "open"} \cup Evicting

\* What a call holds at each point.
CallOK(t) ==
  /\ pc[t] # "idle" => key[t] \in Keys
  /\ pc[t] \in Holding => lock[key[t]] = t
  /\ pc[t] \in Evicting => evictionMutex = t
  /\ pc[t] \in Populating => key[t] \notin present
  /\ pc[t] \in Stored => key[t] \in present

\* The sweep under way lists entries that are on disk, each once, and holds
\* the lock of the one it is about to remove.
SweepOK(t) ==
  pc[t] \in {"sweep", "remove"} =>
    /\ entries \in Seq(Keys)
    /\ \A i \in 1 .. Len(entries) : entries[i] \in present
    /\ \A i, n \in 1 .. Len(entries) : i < n => entries[i] # entries[n]
    /\ pc[t] = "remove" =>
         /\ entries # <<>>
         /\ Head(entries) # key[t]
         /\ lock[Head(entries)] = t

\* The inductive invariant.
IInv ==
  /\ Typed
  /\ \A t \in Threads : CallOK(t) /\ SweepOK(t)
  /\ EntriesExact

-----------------------------------------------------------------------------
(* Counting *)

\* The entries that the gauges count.
Counted == present \ Uncounted

\* Any set of keys has a cardinality.
LEMMA KeySetsFinite ==
  ASSUME NEW S \in SUBSET Keys
  PROVE  IsFiniteSet(S) /\ Cardinality(S) \in Nat
BY FiniteAssumption, FS_Subset, FS_CardinalityType

\* A step that changes neither the entries counted nor the gauge keeps it exact.
LEMMA SameCount ==
  ASSUME EntriesExact, Counted' = Counted, UNCHANGED current_entries
  PROVE  EntriesExact'
BY DEF EntriesExact, Counted

\* Uncounted changes only with the calls that are at the account point.
LEMMA SameUncounted ==
  ASSUME NEW t \in Threads,
         pc[t] # "account", pc'[t] # "account",
         \A u \in Threads \ {t} : pc'[u] = pc[u] /\ key'[u] = key[u]
  PROVE  Uncounted' = Uncounted
<1>1. {u \in Threads : pc'[u] = "account"} = {u \in Threads : pc[u] = "account"}
  OBVIOUS
<1>2. \A u \in Threads : pc[u] = "account" => key'[u] = key[u]
  OBVIOUS
<1> QED BY <1>1, <1>2 DEF Uncounted

\* What remains of a list of distinct keys when its head is taken off.
LEMMA TailKept ==
  ASSUME NEW s \in Seq(Keys), s # <<>>
  PROVE  /\ Head(s) = s[1] /\ Tail(s) \in Seq(Keys)
         /\ Len(Tail(s)) = Len(s) - 1 /\ Len(s) \in Nat \ {0}
         /\ \A i \in 1 .. Len(Tail(s)) : Tail(s)[i] = s[i + 1] /\ i + 1 \in 1 .. Len(s)
OBVIOUS

\* A rename puts on disk an entry that is not counted yet.
LEMMA RenameCounted ==
  ASSUME IInv, NEW t \in Threads, Rename(t)
  PROVE  /\ key[t] \in Keys /\ key[t] \notin present
         /\ Counted' = Counted
<1>0. /\ key[t] \in Keys /\ key[t] \notin present /\ pc[t] = "rename"
  BY DEF IInv, CallOK, Rename, Populating
<1>1. /\ pc' = [pc EXCEPT ![t] = "account"]
      /\ present' = present \cup {key[t]} /\ UNCHANGED key
  BY DEF Rename, Goto
<1>2. {u \in Threads : pc'[u] = "account"} = {u \in Threads : pc[u] = "account"} \cup {t}
  BY <1>1 DEF IInv, Typed
<1>3. Uncounted' = Uncounted \cup {key[t]}
  BY <1>1, <1>2 DEF Uncounted
<1> QED BY <1>0, <1>1, <1>3 DEF Counted

\* The entry that a call counts was not counted, and is from now on.
LEMMA AccountCounted ==
  ASSUME IInv, NEW t \in Threads, Account(t)
  PROVE  /\ key[t] \in Keys /\ key[t] \notin Counted
         /\ Counted' = Counted \cup {key[t]}
<1>0. /\ key[t] \in Keys /\ key[t] \in present /\ pc[t] = "account"
      /\ lock[key[t]] = t
  BY DEF IInv, CallOK, Account, Stored, Holding
<1>1. PICK p \in {"touch", "evict"} : pc' = [pc EXCEPT ![t] = p]
  BY DEF Account, Goto
<1>2. UNCHANGED <<key, present>>
  BY DEF Account, directory
<1>3. \A u \in Threads : pc[u] = "account" /\ key[u] = key[t] => u = t
  BY <1>0 DEF IInv, CallOK, Holding
<1>4. {u \in Threads : pc'[u] = "account"} = {u \in Threads : pc[u] = "account"} \ {t}
  BY <1>1 DEF IInv, Typed
<1>5. Uncounted' = Uncounted \ {key[t]}
  BY <1>0, <1>2, <1>3, <1>4 DEF Uncounted
<1>6. key[t] \in Uncounted
  BY <1>0 DEF Uncounted
<1> QED BY <1>0, <1>2, <1>5, <1>6 DEF Counted

\* The entry that a sweep removes was counted, and no longer is.
LEMMA RemoveCounted ==
  ASSUME IInv, NEW t \in Threads, SweepRemove(t), present' = present \ {Head(entries)}
  PROVE  /\ Head(entries) \in Counted
         /\ Counted' = Counted \ {Head(entries)}
<1> DEFINE victim == Head(entries)
<1>0. /\ pc[t] = "remove" /\ victim # key[t] /\ lock[victim] = t
      /\ victim \in present
  BY TailKept DEF IInv, SweepRemove, SweepOK
<1>1. pc' = [pc EXCEPT ![t] = "sweep"] /\ UNCHANGED key
  BY DEF SweepRemove, Goto
<1>2. \A u \in Threads : pc[u] = "account" => key[u] # victim
  BY <1>0 DEF IInv, CallOK, Holding
<1>3. Uncounted' = Uncounted
  <2>1. /\ pc[t] # "account" /\ pc'[t] # "account"
        /\ \A u \in Threads \ {t} : pc'[u] = pc[u] /\ key'[u] = key[u]
    BY <1>0, <1>1 DEF IInv, Typed
  <2> QED BY <2>1, SameUncounted
<1>4. victim \notin Uncounted
  BY <1>2 DEF Uncounted
<1> QED BY <1>0, <1>3, <1>4 DEF Counted

-----------------------------------------------------------------------------
(* Steps *)

\* The invariant holds of a cache just constructed.
LEMMA Initially == Init => IInv
<1> SUFFICES ASSUME Init PROVE IInv
  OBVIOUS
<1>1. Typed /\ \A t \in Threads : CallOK(t) /\ SweepOK(t)
  BY DEF Init, Typed, CallOK, SweepOK, Holding, Evicting, Populating, Stored
<1>2. EntriesExact
  <2>1. present \ Uncounted = {}
    BY DEF Init
  <2> QED BY <2>1, FS_EmptySet DEF Init, EntriesExact
<1> QED BY <1>1, <1>2 DEF IInv

\* The steps of a call before it has the lock, and those that only move it on.
LEMMA QuietStep ==
  ASSUME IInv, NEW t \in Threads,
         \/ \E k \in Keys : Call(t, k)
         \/ Check(t) \/ FetchOk(t) \/ WriteTemp(t) \/ Touch(t)
  PROVE  IInv'
<1> USE DEF Typed, Goto, sweep, directory, gauges, process
<1>1. Typed'
  BY DEF IInv, Call, Check, FetchOk, WriteTemp, Touch, Holding, Populating, Evicting
<1>2. \A u \in Threads : CallOK(u)'
  BY DEF IInv, Call, Check, FetchOk, WriteTemp, Touch, CallOK, Holding, Populating, Evicting, Stored
<1>3. \A u \in Threads : SweepOK(u)'
  BY DEF IInv, Call, Check, FetchOk, WriteTemp, Touch, SweepOK
<1>4. Uncounted' = Uncounted
  <2>1. /\ pc[t] # "account" /\ pc'[t] # "account"
        /\ \A u \in Threads \ {t} : pc'[u] = pc[u] /\ key'[u] = key[u]
    BY DEF IInv, Call, Check, FetchOk, WriteTemp, Touch
  <2> QED BY <2>1, SameUncounted
<1>5. EntriesExact'
  BY <1>4, SameCount DEF IInv, Call, Check, FetchOk, WriteTemp, Touch, Counted
<1> QED BY <1>1, <1>2, <1>3, <1>5 DEF IInv

\* A thread gets its key's lock when nobody holds it.
LEMMA LockStep ==
  ASSUME IInv, NEW t \in Threads, Lock(t)
  PROVE  IInv'
<1> USE DEF Typed, Goto, sweep, directory, gauges
<1>0. key[t] \in Keys /\ lock[key[t]] = NoThread /\ NoThread \notin Threads
  BY SentinelAssumption DEF IInv, Lock, CallOK
<1>1. Typed'
  BY <1>0 DEF IInv, Lock, Holding
<1>2. \A u \in Threads : CallOK(u)'
  BY <1>0 DEF IInv, Lock, CallOK, Holding, Populating, Evicting, Stored
<1>3. \A u \in Threads : SweepOK(u)'
  <2> SUFFICES ASSUME NEW u \in Threads, pc'[u] \in {"sweep", "remove"}
               PROVE  SweepOK(u)'
    BY DEF SweepOK
  <2>1. u # t /\ pc'[u] = pc[u] /\ UNCHANGED <<entries, present, key>>
    BY DEF IInv, Lock
  <2>2. SweepOK(u)
    BY DEF IInv
  <2>3. pc[u] = "remove" => lock'[Head(entries)] = u
    BY <1>0, <2>1, <2>2 DEF SweepOK, Lock, IInv
  <2> QED BY <2>1, <2>2, <2>3 DEF SweepOK
<1>4. Uncounted' = Uncounted
  <2>1. /\ pc[t] # "account" /\ pc'[t] # "account"
        /\ \A u \in Threads \ {t} : pc'[u] = pc[u] /\ key'[u] = key[u]
    BY DEF IInv, Lock
  <2> QED BY <2>1, SameUncounted
<1>5. EntriesExact'
  BY <1>4, SameCount DEF IInv, Lock, Counted
<1> QED BY <1>1, <1>2, <1>3, <1>5 DEF IInv

\* A call ends and gives its key's lock back.
LEMMA ReturnStep ==
  ASSUME IInv, NEW t \in Threads,
         PopulateFails(t) \/ ScanFails(t) \/ Open(t)
  PROVE  IInv'
<1> USE DEF Typed, Goto, Return, sweep, directory, gauges
<1>0. /\ key[t] \in Keys /\ lock[key[t]] = t
      /\ pc[t] # "account"
      /\ NoThread \notin Threads
  BY SentinelAssumption
  DEF IInv, CallOK, PopulateFails, ScanFails, Open, Holding, Populating, Evicting
<1>1. /\ pc' = [pc EXCEPT ![t] = "idle"]
      /\ key' = [key EXCEPT ![t] = NoKey]
      /\ lock' = [lock EXCEPT ![key[t]] = NoThread]
      /\ UNCHANGED <<present, entries, current_entries>>
  BY DEF PopulateFails, ScanFails, Open
<1>2. Typed'
  BY <1>1 DEF IInv
<1>3. \A u \in Threads : CallOK(u)'
  <2> SUFFICES ASSUME NEW u \in Threads, u # t
               PROVE  CallOK(u)'
    BY <1>1 DEF CallOK, Typed, IInv, Holding, Populating, Evicting, Stored
  <2>1. CallOK(u) /\ pc'[u] = pc[u] /\ key'[u] = key[u]
    BY <1>1 DEF IInv
  <2>2. pc[u] \in Holding => lock'[key[u]] = u
    BY <1>0, <1>1, <2>1 DEF CallOK, IInv, Holding, Populating, Evicting
  <2>3. pc[u] \in Evicting => evictionMutex' = u
    BY <1>0, <2>1 DEF CallOK, IInv, PopulateFails, ScanFails, Open, Evicting, Populating
  <2> QED BY <1>1, <2>1, <2>2, <2>3 DEF CallOK
<1>4. \A u \in Threads : SweepOK(u)'
  <2> SUFFICES ASSUME NEW u \in Threads, pc'[u] \in {"sweep", "remove"}
               PROVE  SweepOK(u)'
    BY DEF SweepOK
  <2>1. u # t /\ pc'[u] = pc[u] /\ key'[u] = key[u] /\ SweepOK(u)
    BY <1>1 DEF IInv
  <2>2. pc[u] = "remove" => lock'[Head(entries)] = u
    BY <1>0, <1>1, <2>1 DEF SweepOK, IInv
  <2> QED BY <1>1, <2>1, <2>2 DEF SweepOK
<1>5. Uncounted' = Uncounted
  <2>1. pc'[t] # "account" /\ \A u \in Threads \ {t} : pc'[u] = pc[u] /\ key'[u] = key[u]
    BY <1>1 DEF IInv
  <2> QED BY <1>0, <2>1, SameUncounted
<1>6. EntriesExact'
  BY <1>1, <1>5, SameCount DEF IInv, Counted
<1> QED BY <1>2, <1>3, <1>4, <1>6 DEF IInv

\* The new entry is on disk and not counted yet.
LEMMA RenameStep ==
  ASSUME IInv, NEW t \in Threads, Rename(t)
  PROVE  IInv'
<1> USE DEF Typed, Goto, sweep, gauges
<1>0. /\ key[t] \in Keys /\ lock[key[t]] = t /\ key[t] \notin present
      /\ pc[t] = "rename"
  BY DEF IInv, CallOK, Rename, Holding, Populating
<1>1. /\ pc' = [pc EXCEPT ![t] = "account"]
      /\ present' = present \cup {key[t]}
      /\ UNCHANGED <<key, lock, entries, evictionMutex, current_entries>>
  BY DEF Rename
<1>2. Typed'
  BY <1>0, <1>1 DEF IInv, Holding
<1>3. \A u \in Threads : CallOK(u)'
  BY <1>0, <1>1 DEF IInv, CallOK, Holding, Populating, Evicting, Stored
<1>4. \A u \in Threads : SweepOK(u)'
  BY <1>0, <1>1 DEF IInv, SweepOK
<1>5. Counted' = Counted
  BY RenameCounted
<1>6. EntriesExact'
  BY <1>1, <1>5, SameCount DEF IInv
<1> QED BY <1>2, <1>3, <1>4, <1>6 DEF IInv

\* The entry is counted, and no other call is about to count it.
LEMMA AccountStep ==
  ASSUME IInv, NEW t \in Threads, Account(t)
  PROVE  IInv'
<1> USE DEF Typed, Goto, sweep, directory
<1>0. /\ key[t] \in Keys /\ lock[key[t]] = t /\ key[t] \in present
      /\ pc[t] = "account"
  BY DEF IInv, CallOK, Account, Holding, Stored
<1>1. PICK p \in {"touch", "evict"} : pc' = [pc EXCEPT ![t] = p]
  BY DEF Account
<1>2. /\ UNCHANGED <<key, lock, entries, evictionMutex, present>>
      /\ current_entries' = current_entries + 1
  BY DEF Account
<1>3. Typed'
  BY <1>1, <1>2 DEF IInv, Holding
<1>4. \A u \in Threads : CallOK(u)'
  BY <1>0, <1>1, <1>2 DEF IInv, CallOK, Holding, Populating, Evicting, Stored
<1>5. \A u \in Threads : SweepOK(u)'
  BY <1>1, <1>2 DEF IInv, SweepOK
<1>6. Counted' = Counted \cup {key[t]} /\ key[t] \notin Counted
  BY AccountCounted
<1>7. Cardinality(Counted') = Cardinality(Counted) + 1
  <2>1. Counted \in SUBSET Keys
    BY DEF IInv, Counted
  <2> QED BY <1>6, <2>1, KeySetsFinite, FS_AddElement
<1>8. EntriesExact'
  BY <1>2, <1>7 DEF IInv, EntriesExact, Counted
<1> QED BY <1>3, <1>4, <1>5, <1>8 DEF IInv

\* A call takes eviction_mutex_ and goes on to scan, or skips the sweep.
LEMMA EvictBeginStep ==
  ASSUME IInv, NEW t \in Threads, EvictBegin(t)
  PROVE  IInv'
<1> USE DEF Typed, Goto, directory, gauges
<1>0. pc[t] = "evict" /\ evictionMutex = NoThread /\ NoThread \notin Threads
  BY SentinelAssumption DEF EvictBegin
<1>1. /\ UNCHANGED <<key, lock, entries, present, current_entries>>
      /\ \/ pc' = [pc EXCEPT ![t] = "touch"] /\ UNCHANGED evictionMutex
         \/ pc' = [pc EXCEPT ![t] = "scan"] /\ evictionMutex' = t
  BY DEF EvictBegin
<1>2. Typed'
  BY <1>1 DEF IInv, Holding, Evicting
<1>3. \A u \in Threads : CallOK(u)'
  BY <1>0, <1>1 DEF IInv, CallOK, Holding, Populating, Evicting, Stored
<1>4. \A u \in Threads : SweepOK(u)'
  BY <1>1 DEF IInv, SweepOK
<1>5. Uncounted' = Uncounted
  <2>1. /\ pc'[t] # "account"
        /\ \A u \in Threads \ {t} : pc'[u] = pc[u] /\ key'[u] = key[u]
    BY <1>0, <1>1 DEF IInv
  <2> QED BY <1>0, <2>1, SameUncounted
<1>6. EntriesExact'
  BY <1>1, <1>5, SameCount DEF IInv, Counted
<1> QED BY <1>2, <1>3, <1>4, <1>6 DEF IInv

\* While a call sweeps, no other one does.
LEMMA OneSweep ==
  ASSUME IInv, NEW t \in Threads, pc[t] \in Evicting,
         NEW u \in Threads, u # t
  PROVE  pc[u] \notin Evicting
BY DEF IInv, CallOK

\* The steps of a sweep that remove nothing: it lists the directory, passes an
\* entry over, or ends.
LEMMA SweepStep ==
  ASSUME IInv, NEW t \in Threads,
         Scan(t) \/ SweepDone(t) \/ SweepSkip(t)
  PROVE  IInv'
<1> USE DEF Typed, Goto, directory, gauges, process
<1>0. pc[t] \in {"scan", "sweep"} /\ pc[t] \in Evicting
  BY DEF Scan, SweepDone, SweepSkip, Evicting
<1>1. /\ UNCHANGED <<key, lock, present, current_entries>>
      /\ \/ pc' = [pc EXCEPT ![t] = "touch"]
         \/ pc' = [pc EXCEPT ![t] = "sweep"] /\ UNCHANGED evictionMutex
  BY DEF IInv, Scan, SweepDone, SweepSkip, EvictEnd
<1>2. Typed'
  BY <1>1 DEF IInv, Holding, Evicting
<1>3. \A u \in Threads : CallOK(u)'
  BY <1>0, <1>1, OneSweep DEF IInv, CallOK, Holding, Populating, Evicting, Stored
<1>4. \A u \in Threads : SweepOK(u)'
  <2> SUFFICES ASSUME pc'[t] = "sweep"
               PROVE  SweepOK(t)'
    BY <1>0, <1>1, OneSweep DEF IInv, SweepOK, Evicting
  <2>1. CASE Scan(t)
    <3>1. entries' \in ByMtime(present)
      BY <2>1 DEF Scan, EvictEnd, IInv
    <3>2. Cardinality(present) \in Nat
      BY KeySetsFinite DEF IInv
    <3>3. /\ entries' \in [1 .. Cardinality(present) -> present]
          /\ \A i, n \in DOMAIN entries' : i < n => entries'[i] # entries'[n]
      BY <3>1 DEF ByMtime
    <3>4. entries' \in Seq(Keys) /\ Len(entries') = Cardinality(present)
      BY <3>2, <3>3 DEF IInv
    <3> QED BY <1>1, <3>3, <3>4 DEF SweepOK
  <2>2. CASE SweepDone(t)
    BY <2>2 DEF SweepDone, EvictEnd, IInv
  <2>3. CASE SweepSkip(t)
    <3>1. entries # <<>> /\ entries' = Tail(entries) /\ SweepOK(t) /\ pc[t] = "sweep"
      BY <2>3 DEF SweepSkip, IInv
    <3> QED BY <1>1, <3>1, TailKept DEF SweepOK
  <2> QED BY <2>1, <2>2, <2>3
<1>5. Uncounted' = Uncounted
  <2>1. /\ pc'[t] # "account"
        /\ \A u \in Threads \ {t} : pc'[u] = pc[u] /\ key'[u] = key[u]
    BY <1>0, <1>1 DEF IInv
  <2> QED BY <1>0, <2>1, SameUncounted
<1>6. EntriesExact'
  BY <1>1, <1>5, SameCount DEF IInv, Counted
<1> QED BY <1>2, <1>3, <1>4, <1>6 DEF IInv

\* The sweep takes the lock of its victim, which nobody held.
LEMMA TryLockStep ==
  ASSUME IInv, NEW t \in Threads, SweepTryLock(t)
  PROVE  IInv'
<1> USE DEF Typed, Goto, directory, gauges, sweep
<1>0. /\ pc[t] = "sweep" /\ entries # <<>> /\ Head(entries) # key[t]
      /\ lock[Head(entries)] = NoThread /\ NoThread \notin Threads
      /\ Head(entries) \in Keys
  BY SentinelAssumption, TailKept DEF IInv, SweepTryLock, SweepOK
<1>1. /\ UNCHANGED <<key, entries, evictionMutex, present, current_entries>>
      /\ pc' = [pc EXCEPT ![t] = "remove"]
      /\ lock' = [lock EXCEPT ![Head(entries)] = t]
  BY DEF SweepTryLock
<1>2. Typed'
  BY <1>0, <1>1 DEF IInv, Holding, Evicting
<1>3. \A u \in Threads : CallOK(u)'
  BY <1>0, <1>1 DEF IInv, CallOK, Holding, Populating, Evicting, Stored
<1>4. \A u \in Threads : SweepOK(u)'
  <2>1. SweepOK(t)'
    BY <1>0, <1>1 DEF IInv, SweepOK
  <2>2. ASSUME NEW u \in Threads, u # t
        PROVE  SweepOK(u)'
    BY <1>0, <1>1, <2>2, OneSweep DEF IInv, SweepOK, Evicting
  <2> QED BY <2>1, <2>2
<1>5. Uncounted' = Uncounted
  <2>1. /\ pc'[t] # "account"
        /\ \A u \in Threads \ {t} : pc'[u] = pc[u] /\ key'[u] = key[u]
    BY <1>1 DEF IInv
  <2> QED BY <1>0, <2>1, SameUncounted
<1>6. EntriesExact'
  BY <1>1, <1>5, SameCount DEF IInv, Counted
<1> QED BY <1>2, <1>3, <1>4, <1>6 DEF IInv

\* The victim is removed, or stays because its removal failed; no call that
\* relies on an entry relies on this one, whose lock the sweep holds.
LEMMA RemoveStep ==
  ASSUME IInv, NEW t \in Threads, SweepRemove(t)
  PROVE  IInv'
<1> USE DEF Typed, Goto
<1> DEFINE victim == Head(entries)
<1>0. /\ pc[t] = "remove" /\ entries # <<>> /\ entries \in Seq(Keys)
      /\ victim # key[t] /\ lock[victim] = t
      /\ victim \in Keys /\ victim \in present /\ victim = entries[1]
      /\ NoThread \notin Threads
  BY SentinelAssumption, TailKept DEF IInv, SweepRemove, SweepOK
<1>1. /\ UNCHANGED <<key, evictionMutex>>
      /\ pc' = [pc EXCEPT ![t] = "sweep"]
      /\ lock' = [lock EXCEPT ![victim] = NoThread]
      /\ entries' = Tail(entries)
      /\ \/ present' = present \ {victim} /\ current_entries' = current_entries - 1
         \/ UNCHANGED <<present, current_entries>>
  BY DEF SweepRemove, Removed, gauges
<1>2. Typed'
  BY <1>0, <1>1 DEF IInv, Holding, Evicting
<1>3. \A u \in Threads : u # t /\ pc[u] \in Holding => key[u] # victim
  BY <1>0 DEF IInv, CallOK
<1>4. \A u \in Threads : CallOK(u)'
  <2>1. CallOK(t)'
    BY <1>0, <1>1 DEF IInv, CallOK, Holding, Populating, Evicting, Stored
  <2>2. ASSUME NEW u \in Threads, u # t
        PROVE  CallOK(u)'
    BY <1>0, <1>1, <1>3, <2>2 DEF IInv, CallOK, Holding, Populating, Evicting, Stored
  <2> QED BY <2>1, <2>2
<1>5. \A u \in Threads : SweepOK(u)'
  <2>1. SweepOK(t)'
    <3>1. /\ \A i \in 1 .. Len(entries) : entries[i] \in present
          /\ \A i, n \in 1 .. Len(entries) : i < n => entries[i] # entries[n]
      BY <1>0 DEF IInv, SweepOK
    <3>2. \A i \in 1 .. Len(entries') : /\ entries'[i] = entries[i + 1]
                                       /\ i + 1 \in 1 .. Len(entries)
                                       /\ entries'[i] # victim
      BY <1>0, <1>1, <3>1, TailKept
    <3>3. entries' \in Seq(Keys) /\ Len(entries') \in Nat
      BY <1>0, <1>1, TailKept
    <3>4. \A i \in 1 .. Len(entries') : entries'[i] \in present'
      BY <1>1, <3>1, <3>2
    <3>5. \A i, n \in 1 .. Len(entries') : i < n => entries'[i] # entries'[n]
      BY <3>1, <3>2, <3>3
    <3>6. pc'[t] = "sweep"
      BY <1>1 DEF IInv
    <3> QED BY <3>3, <3>4, <3>5, <3>6 DEF SweepOK
  <2>2. ASSUME NEW u \in Threads, u # t
        PROVE  SweepOK(u)'
    BY <1>0, <1>1, <2>2, OneSweep DEF IInv, SweepOK, Evicting
  <2> QED BY <2>1, <2>2
<1>6. Uncounted' = Uncounted
  <2>1. /\ pc'[t] # "account"
        /\ \A u \in Threads \ {t} : pc'[u] = pc[u] /\ key'[u] = key[u]
    BY <1>1 DEF IInv
  <2> QED BY <1>0, <2>1, SameUncounted
<1>7. EntriesExact'
  <2>1. CASE UNCHANGED <<present, current_entries>>
    BY <1>6, <2>1, SameCount DEF IInv, Counted
  <2>2. CASE present' = present \ {victim} /\ current_entries' = current_entries - 1
    <3>1. victim \in Counted /\ Counted' = Counted \ {victim} /\ Counted \in SUBSET Keys
      BY <2>2, RemoveCounted DEF Counted, IInv
    <3>2. Cardinality(Counted') = Cardinality(Counted) - 1
      BY <3>1, KeySetsFinite, FS_RemoveElement
    <3> QED BY <2>2, <3>2 DEF IInv, EntriesExact, Counted
  <2> QED BY <1>1, <2>1, <2>2
<1> QED BY <1>2, <1>4, <1>5, <1>7 DEF IInv

\* A new process counts what it finds.
LEMMA RestartStep ==
  ASSUME IInv, Restart
  PROVE  IInv'
<1> USE DEF Typed, directory
<1>1. Typed'
  <2>1. current_entries' \in Int
    BY KeySetsFinite DEF IInv, Restart, SeedMetrics
  <2> QED BY <2>1 DEF IInv, Restart
<1>2. \A u \in Threads : CallOK(u)' /\ SweepOK(u)'
  BY DEF Restart, CallOK, SweepOK, Holding, Populating, Evicting, Stored
<1>3. EntriesExact'
  <2>1. Uncounted' = {}
    BY DEF Restart, Uncounted
  <2>2. Counted' = present
    BY <2>1 DEF Restart, Counted
  <2> QED BY <2>2 DEF Restart, SeedMetrics, EntriesExact, Counted
<1> QED BY <1>1, <1>2, <1>3 DEF IInv

\* Every step keeps the invariant.
LEMMA Inductive == IInv /\ [Next]_vars => IInv'
<1> SUFFICES ASSUME IInv, [Next]_vars PROVE IInv'
  OBVIOUS
<1>1. CASE UNCHANGED vars
  BY <1>1 DEF IInv, vars, process, sweep, directory, gauges, Typed, CallOK, SweepOK,
              EntriesExact, Uncounted
<1>2. CASE Restart
  BY <1>2, RestartStep
<1>3. ASSUME NEW t \in Threads,
             Step(t) \/ PopulateFails(t) \/ ScanFails(t) \/ \E k \in Keys : Call(t, k)
      PROVE  IInv'
  BY <1>3, QuietStep, LockStep, ReturnStep, RenameStep, AccountStep, EvictBeginStep,
     SweepStep, TryLockStep, RemoveStep DEF Step
<1> QED BY <1>1, <1>2, <1>3 DEF Next

\* The invariant holds of every behaviour of the cache.
LEMMA Invariance == Spec => []IInv
BY Initially, Inductive, PTL DEF Spec

-----------------------------------------------------------------------------
(* Results *)

\* The file a call found or wrote is there when the call opens it, whatever
\* other calls populate or evict meanwhile: the lock taken at the top of
\* get_or_populate keeps every sweep's try_lock off the key.
THEOREM EntryKept == Spec => []OpenFindsEntry
<1>1. IInv => OpenFindsEntry
  BY DEF IInv, CallOK, OpenFindsEntry, Stored
<1> QED BY <1>1, Invariance, PTL

\* The populations of one key by get_or_populate exclude each other, and none
\* starts while the entry exists.
THEOREM PopulatedOnce == Spec => []SinglePopulation
<1>1. IInv => SinglePopulation
  BY DEF IInv, CallOK, SinglePopulation, Holding
<1> QED BY <1>1, Invariance, PTL

\* current_entries_ counts the entries on disk, less those about to be added,
\* through populations, sweeps whose removals fail, and crashes at any point.
THEOREM GaugeExact == Spec => []EntriesExact
<1>1. IInv => EntriesExact
  BY DEF IInv
<1> QED BY <1>1, Invariance, PTL

-----------------------------------------------------------------------------
(* The bytes on disk *)

\* The types of the bytes, and what a call at the account point is to add.
Sized ==
  /\ written \in [Threads -> Nat] /\ fileSize \in [Keys -> Nat]
  /\ \A t \in Threads : pc[t] = "account" => written[t] = fileSize[key[t]]

\* The inductive invariant behind BytesExact.
BInv == Sized /\ BytesExact

\* A file of n bytes has n places.
LEMMA FileBytes ==
  ASSUME NEW k, NEW n \in Nat
  PROVE  IsFiniteSet({k} \X (1 .. n)) /\ Cardinality({k} \X (1 .. n)) = n
<1>1. IsFiniteSet(1 .. n) /\ Cardinality(1 .. n) = IF 1 > n THEN 0 ELSE n - 1 + 1
  BY FS_Interval
<1>2. Cardinality(1 .. n) = n
  BY <1>1
<1>3. IsFiniteSet({k}) /\ Cardinality({k}) = 1
  BY FS_Singleton
<1>4. /\ IsFiniteSet({k} \X (1 .. n))
      /\ Cardinality({k} \X (1 .. n)) = Cardinality({k}) * Cardinality(1 .. n)
  BY <1>1, <1>3, FS_Product
<1> QED BY <1>2, <1>3, <1>4

\* Any set of keys has a size on disk.
LEMMA BytesFinite ==
  ASSUME NEW S \in SUBSET Keys, fileSize \in [Keys -> Nat]
  PROVE  IsFiniteSet(Bytes(S)) /\ SizeOf(S) \in Nat
<1> DEFINE File(k) == {k} \X (1 .. fileSize[k])
           T == {File(k) : k \in S}
           f == [k \in S |-> File(k)]
<1>1. IsFiniteSet(S)
  BY KeySetsFinite
<1>2. IsFiniteSet(T)
  <2>1. f \in Surjection(S, T)
    <3>1. f \in [S -> T]
      OBVIOUS
    <3>2. \A F \in T : \E k \in S : f[k] = F
      OBVIOUS
    <3> HIDE DEF f, T
    <3> QED BY <3>1, <3>2 DEF Surjection
  <2> HIDE DEF f, T
  <2> QED BY <1>1, <2>1, FS_Surjection
<1>3. ASSUME NEW k \in S PROVE IsFiniteSet(File(k))
  <2>1. fileSize[k] \in Nat
    OBVIOUS
  <2> QED BY <2>1, FileBytes
<1>4. IsFiniteSet(UNION T)
  <2>1. \A F \in T : IsFiniteSet(F)
    BY <1>3
  <2> HIDE DEF T
  <2> QED BY <1>2, <2>1, FS_UNION
<1>5. Bytes(S) = UNION T
  BY DEF Bytes
<1> QED BY <1>4, <1>5, FS_CardinalityType DEF SizeOf

\* The size on disk is additive.
LEMMA SizeSplit ==
  ASSUME NEW S \in SUBSET Keys, fileSize \in [Keys -> Nat], NEW k \in S
  PROVE  SizeOf(S) = SizeOf(S \ {k}) + fileSize[k]
<1> DEFINE File == {k} \X (1 .. fileSize[k])
<1>1. Bytes(S) = Bytes(S \ {k}) \cup File
  BY DEF Bytes
<1>2. Bytes(S \ {k}) \cap File = {}
  BY DEF Bytes
<1>3. IsFiniteSet(File) /\ Cardinality(File) = fileSize[k]
  <2>1. fileSize[k] \in Nat
    OBVIOUS
  <2> QED BY <2>1, FileBytes
<1>4. IsFiniteSet(Bytes(S \ {k})) /\ SizeOf(S \ {k}) \in Nat
  BY BytesFinite
<1> DEFINE B == Bytes(S \ {k})
<1>5. Cardinality(B \cap File) = 0
  BY <1>2, FS_EmptySet
<1> HIDE DEF File, B
<1>6. Cardinality(B \cup File) = Cardinality(B) + Cardinality(File) - Cardinality(B \cap File)
  BY <1>3, <1>4, FS_Union DEF B
<1>7. Cardinality(B) = SizeOf(S \ {k}) /\ Cardinality(B \cup File) = SizeOf(S)
  BY <1>1 DEF B, SizeOf
<1>8. fileSize[k] \in Nat
  OBVIOUS
<1> QED BY <1>3, <1>4, <1>5, <1>6, <1>7, <1>8

\* No keys, no bytes.
LEMMA NoBytes == SizeOf({}) = 0
<1>1. Bytes({}) = {}
  BY DEF Bytes
<1> QED BY <1>1, FS_EmptySet DEF SizeOf

\* A step that changes neither the entries counted, nor their sizes, nor the
\* gauge keeps it exact.
LEMMA SameBytes ==
  ASSUME BytesExact, Counted' = Counted, UNCHANGED current_bytes,
         \A k \in Counted : fileSize'[k] = fileSize[k]
  PROVE  BytesExact'
<1>1. Bytes(Counted)' = Bytes(Counted)
  BY DEF Bytes
<1> QED BY <1>1 DEF BytesExact, SizeOf, Counted

\* A step of a call that is not at the account point, and moves no file.
LEMMA BQuiet ==
  ASSUME IInv, BInv, NEW t \in Threads,
         pc[t] # "account", pc'[t] # "account",
         \A u \in Threads \ {t} :
           pc'[u] = pc[u] /\ key'[u] = key[u] /\ written'[u] = written[u],
         written' \in [Threads -> Nat],
         UNCHANGED <<present, fileSize, current_bytes>>
  PROVE  BInv'
<1>1. Uncounted' = Uncounted
  BY SameUncounted
<1>2. BytesExact'
  BY <1>1, SameBytes DEF BInv, Counted
<1>3. Sized'
  BY DEF BInv, Sized
<1> QED BY <1>2, <1>3 DEF BInv

\* Every step of a call keeps current_bytes_ exact.
LEMMA BStep ==
  ASSUME IInv, BInv, NEW t \in Threads,
         Step(t) \/ PopulateFails(t) \/ ScanFails(t) \/ \E k \in Keys : Call(t, k)
  PROVE  BInv'
<1> USE DEF Goto, sweep, directory, gauges, process
<1>0. /\ pc \in [Threads -> {"idle", "lock"} \cup Holding]
      /\ key \in [Threads -> Keys \cup {NoKey}]
      /\ written \in [Threads -> Nat] /\ fileSize \in [Keys -> Nat]
      /\ present \subseteq Keys
  BY DEF IInv, Typed, BInv, Sized
<1>1. CASE \/ \E k \in Keys : Call(t, k)
           \/ Check(t) \/ FetchOk(t) \/ Touch(t) \/ Lock(t)
  <2>1. /\ pc[t] # "account" /\ pc'[t] # "account" /\ UNCHANGED written
        /\ \A u \in Threads \ {t} : pc'[u] = pc[u] /\ key'[u] = key[u]
        /\ UNCHANGED <<present, fileSize, current_bytes>>
    BY <1>0, <1>1 DEF Call, Check, FetchOk, Touch, Lock
  <2> QED BY <1>0, <2>1, BQuiet
<1>2. CASE PopulateFails(t) \/ ScanFails(t) \/ Open(t)
  <2>1. /\ pc[t] # "account" /\ pc'[t] # "account"
        /\ \A u \in Threads \ {t} :
             pc'[u] = pc[u] /\ key'[u] = key[u] /\ written'[u] = written[u]
        /\ written' \in [Threads -> Nat]
        /\ UNCHANGED <<present, fileSize, current_bytes>>
    BY <1>0, <1>2 DEF PopulateFails, ScanFails, Open, Return, Populating
  <2> QED BY <2>1, BQuiet
<1>3. CASE WriteTemp(t)
  <2>1. key[t] \in Keys
    BY <1>3 DEF IInv, CallOK, WriteTemp
  <2>2. PICK n \in 0 .. ClaimedSize[key[t]] : written' = [written EXCEPT ![t] = n]
    BY <1>3 DEF WriteTemp
  <2>3. n \in Nat
    BY <2>1, <2>2, SizeAssumption
  <2>4. /\ pc[t] # "account" /\ pc'[t] # "account"
        /\ \A u \in Threads \ {t} :
             pc'[u] = pc[u] /\ key'[u] = key[u] /\ written'[u] = written[u]
        /\ written' \in [Threads -> Nat]
        /\ UNCHANGED <<present, fileSize, current_bytes>>
    BY <1>0, <1>3, <2>2, <2>3 DEF WriteTemp
  <2> QED BY <2>4, BQuiet
<1>4. CASE \/ EvictBegin(t) \/ Scan(t) \/ SweepDone(t) \/ SweepSkip(t)
           \/ SweepTryLock(t)
  <2>1. /\ pc[t] # "account" /\ pc'[t] # "account" /\ UNCHANGED written
        /\ \A u \in Threads \ {t} : pc'[u] = pc[u] /\ key'[u] = key[u]
        /\ UNCHANGED <<present, fileSize, current_bytes>>
    BY <1>0, <1>4
    DEF EvictBegin, Scan, SweepDone, SweepSkip, SweepTryLock, EvictEnd
  <2> QED BY <1>0, <2>1, BQuiet
<1>5. CASE Rename(t)
  <2>1. /\ key[t] \in Keys /\ key[t] \notin present /\ Counted' = Counted
        /\ Counted \subseteq present
    BY <1>5, RenameCounted DEF Counted
  <2>2. /\ fileSize' = [fileSize EXCEPT ![key[t]] = written[t]]
        /\ pc' = [pc EXCEPT ![t] = "account"]
        /\ UNCHANGED <<key, written, current_bytes>>
        /\ pc[t] = "rename" /\ lock[key[t]] = t
    BY <1>5 DEF Rename, IInv, CallOK, Holding, Populating
  <2>3. \A k \in Counted : fileSize'[k] = fileSize[k]
    BY <1>0, <2>1, <2>2
  <2>4. BytesExact'
    BY <2>1, <2>2, <2>3, SameBytes DEF BInv
  <2>5. ASSUME NEW u \in Threads, pc'[u] = "account"
        PROVE  written'[u] = fileSize'[key'[u]]
    <3>1. CASE u = t
      BY <1>0, <2>1, <2>2, <3>1
    <3>2. CASE u # t
      <4>1. pc[u] = "account" /\ key[u] \in Keys /\ key[u] # key[t]
        BY <1>0, <2>2, <2>5, <3>2 DEF IInv, CallOK, Holding
      <4> QED BY <1>0, <2>1, <2>2, <4>1 DEF BInv, Sized
    <3> QED BY <3>1, <3>2
  <2>6. Sized'
    BY <1>0, <2>1, <2>2, <2>5 DEF Sized
  <2> QED BY <2>4, <2>6 DEF BInv
<1>6. CASE Account(t)
  <2>1. /\ key[t] \in Keys /\ key[t] \notin Counted
        /\ Counted' = Counted \cup {key[t]} /\ Counted \subseteq Keys
    BY <1>0, <1>6, AccountCounted DEF Counted
  <2>2. /\ current_bytes' = current_bytes + fileSize[key[t]]
        /\ UNCHANGED <<key, written, fileSize>>
        /\ pc' = [pc EXCEPT ![t] = IF MaxSizeBytes = 0 THEN "touch" ELSE "evict"]
    BY <1>6 DEF Account, BInv, Sized
  <2>3. SizeOf(Counted') = SizeOf(Counted) + fileSize[key[t]]
    <3>1. Counted' \in SUBSET Keys /\ key[t] \in Counted' /\ Counted' \ {key[t]} = Counted
      BY <2>1
    <3> QED BY <1>0, <3>1, SizeSplit
  <2>4. SizeOf(Counted)' = SizeOf(Counted')
    BY <2>2 DEF SizeOf, Bytes
  <2>5. BytesExact'
    BY <2>2, <2>3, <2>4 DEF BInv, BytesExact, Counted
  <2>6. Sized'
    BY <1>0, <2>2 DEF BInv, Sized
  <2> QED BY <2>5, <2>6 DEF BInv
<1>7. CASE SweepRemove(t) /\ UNCHANGED <<present, total, gauges>>
  <2>1. /\ pc[t] # "account" /\ pc'[t] # "account" /\ UNCHANGED written
        /\ \A u \in Threads \ {t} : pc'[u] = pc[u] /\ key'[u] = key[u]
        /\ UNCHANGED <<present, fileSize, current_bytes>>
    BY <1>0, <1>7 DEF SweepRemove
  <2> QED BY <1>0, <2>1, BQuiet
<1>8. CASE SweepRemove(t) /\ Removed(Head(entries))
  <2> DEFINE victim == Head(entries)
  <2>1. /\ victim \in Counted /\ Counted' = Counted \ {victim}
        /\ Counted \in SUBSET Keys
    BY <1>0, <1>8, RemoveCounted DEF Removed, Counted
  <2>2. /\ current_bytes' = current_bytes - fileSize[victim]
        /\ UNCHANGED <<key, written, fileSize>>
        /\ pc' = [pc EXCEPT ![t] = "sweep"]
    BY <1>8 DEF SweepRemove, Removed
  <2> HIDE DEF victim
  <2>3. /\ SizeOf(Counted) = SizeOf(Counted \ {victim}) + fileSize[victim]
        /\ SizeOf(Counted \ {victim}) \in Nat /\ fileSize[victim] \in Nat
    BY <1>0, <2>1, SizeSplit, BytesFinite
  <2>4. SizeOf(Counted)' = SizeOf(Counted \ {victim})
    BY <2>1, <2>2 DEF SizeOf, Bytes
  <2>5. BytesExact'
    BY <2>2, <2>3, <2>4 DEF BInv, BytesExact, Counted
  <2>6. Sized'
    BY <1>0, <2>2 DEF BInv, Sized
  <2> QED BY <2>5, <2>6 DEF BInv
<1> QED BY <1>1, <1>2, <1>3, <1>4, <1>5, <1>6, <1>7, <1>8 DEF Step, SweepRemove

\* So does a restart, which counts what it finds.
LEMMA BNext == IInv /\ BInv /\ [Next]_vars => BInv'
<1> SUFFICES ASSUME IInv, BInv, [Next]_vars PROVE BInv'
  OBVIOUS
<1>1. CASE UNCHANGED vars
  BY <1>1 DEF vars, process, directory, gauges, BInv, Sized, BytesExact, SizeOf,
              Bytes, Uncounted
<1>2. CASE Restart
  <2>1. Uncounted' = {}
    BY <1>2 DEF Restart, Uncounted
  <2>2. current_bytes' = SizeOf(present) /\ UNCHANGED <<present, fileSize>>
    BY <1>2 DEF Restart, SeedMetrics, directory
  <2>3. (present \ Uncounted)' = present
    BY <2>1, <2>2
  <2>4. BytesExact'
    BY <2>2, <2>3 DEF BytesExact, SizeOf, Bytes
  <2>5. Sized'
    BY <1>2, <2>2 DEF Restart, BInv, Sized
  <2> QED BY <2>4, <2>5 DEF BInv
<1>3. ASSUME NEW t \in Threads,
             Step(t) \/ PopulateFails(t) \/ ScanFails(t) \/ \E k \in Keys : Call(t, k)
      PROVE  BInv'
  BY <1>3, BStep
<1> QED BY <1>1, <1>2, <1>3 DEF Next

\* current_bytes_ is exact in every behaviour of the cache.
LEMMA BInvariance == Spec => []BInv
<1>1. Init => BInv
  <2> SUFFICES ASSUME Init PROVE BInv
    OBVIOUS
  <2>1. present \ Uncounted = {}
    BY DEF Init
  <2>2. BytesExact
    BY <2>1, NoBytes DEF Init, BytesExact
  <2>3. Sized
    BY DEF Init, Sized
  <2> QED BY <2>2, <2>3 DEF BInv
<1> QED BY <1>1, BNext, Invariance, PTL DEF Spec

\* current_bytes_ is what the counted entries hold on disk: what was really
\* written, through short reads, failed removals and crashes at any point.
THEOREM BytesGaugeExact == Spec => []BytesExact
<1>1. BInv => BytesExact
  BY DEF BInv
<1> QED BY <1>1, BInvariance, PTL

-----------------------------------------------------------------------------
(* One reader alone *)

\* A call serves one of its thread's keys.  A lock is held for the key of a
\* call, or for the victim of a sweep.
Owned ==
  /\ \A t \in Threads : pc[t] # "idle" => key[t] \in reads[t]
  /\ \A k \in Keys : lock[k] # NoThread =>
       \/ pc[lock[k]] \in Holding /\ key[lock[k]] = k
       \/ pc[lock[k]] = "remove" /\ k = Head(entries)

\* Of two files one is not both older and newer.
Ordered == \A j, k \in Keys : Older(j, k) => ~Older(k, j)

\* The sweep of a lone thread has its list in order; what it has passed over is
\* the protected key and nothing else, and its total is what is on disk.
SoloSweep(t) ==
  pc[t] \in {"sweep", "remove"} =>
    /\ \A i, n \in 1 .. Len(entries) : i < n => Older(entries[i], entries[n])
    /\ \A k \in present :
         k = key[t] \/ \E i \in 1 .. Len(entries) : k = entries[i]
    /\ total = SizeOf(present)

\* The inductive invariant behind LruEviction.
SInv ==
  /\ Owned /\ Ordered
  /\ Alone => \A t \in Threads : reads[t] # {} => SoloSweep(t)

\* Within the budget, or with one entry and no more.
InBudget == SizeOf(present) <= MaxSizeBytes \/ Cardinality(present) = 1

\* A lone thread exceeds the budget only from its rename to the end of the
\* sweep that follows.
Budget(t) ==
  MaxSizeBytes # 0 /\ pc[t] \notin {"account", "evict"} \cup Evicting => InBudget

\* The inductive invariant behind QuiescentBudget.
QInv == Alone => \A t \in Threads : reads[t] # {} => Budget(t)

\* A step that changes no file changes no size.
LEMMA SameSizes ==
  ASSUME UNCHANGED <<present, fileSize>>
  PROVE  SizeOf(present)' = SizeOf(present)
BY DEF SizeOf, Bytes

\* Every step of a call keeps the locks accounted for.
LEMMA OwnedStep ==
  ASSUME IInv, Owned, NEW t \in Threads, UNCHANGED reads,
         Step(t) \/ PopulateFails(t) \/ ScanFails(t) \/ \E k \in Keys : Call(t, k)
  PROVE  Owned'
<1> USE DEF Goto, sweep, directory, gauges, process
<1>0. /\ pc \in [Threads -> {"idle", "lock"} \cup Holding]
      /\ key \in [Threads -> Keys \cup {NoKey}]
      /\ lock \in [Keys -> Threads \cup {NoThread}]
      /\ NoThread \notin Threads
  BY SentinelAssumption DEF IInv, Typed
<1>1. CASE \E k \in Keys : Call(t, k)
  <2>1. PICK k \in Keys : Call(t, k)
    BY <1>1
  <2>2. /\ pc[t] = "idle" /\ k \in reads[t]
        /\ pc' = [pc EXCEPT ![t] = "lock"] /\ key' = [key EXCEPT ![t] = k]
        /\ UNCHANGED <<lock, entries, reads>>
    BY <2>1 DEF Call
  <2>3. "idle" \notin Holding
    BY DEF Holding, Populating, Evicting
  <2>4. ASSUME NEW u \in Threads, pc'[u] # "idle"
        PROVE  key'[u] \in reads'[u]
    BY <1>0, <2>2, <2>4 DEF Owned
  <2>5. ASSUME NEW j \in Keys, lock'[j] # NoThread
        PROVE  \/ pc'[lock'[j]] \in Holding /\ key'[lock'[j]] = j
               \/ pc'[lock'[j]] = "remove" /\ j = Head(entries')
    <3>1. /\ lock[j] \in Threads /\ lock'[j] = lock[j] /\ lock[j] # t
      BY <1>0, <2>2, <2>3, <2>5 DEF Owned
    <3>2. pc'[lock[j]] = pc[lock[j]] /\ key'[lock[j]] = key[lock[j]]
      BY <1>0, <2>2, <3>1
    <3> QED BY <2>2, <2>5, <3>1, <3>2 DEF Owned
  <2> QED BY <2>4, <2>5 DEF Owned
<1>2. CASE \/ Check(t) \/ FetchOk(t) \/ WriteTemp(t) \/ Rename(t)
           \/ Account(t) \/ EvictBegin(t) \/ Touch(t)
  <2>1. /\ UNCHANGED <<key, lock, entries>>
        /\ pc[t] \in Holding \ {"remove"} /\ pc'[t] \in Holding
        /\ \A u \in Threads \ {t} : pc'[u] = pc[u]
    BY <1>0, <1>2
    DEF Check, FetchOk, WriteTemp, Rename, Account, EvictBegin, Touch, Holding,
        Populating, Evicting
  <2>2. \A u \in Threads : pc'[u] # "idle" => key'[u] \in reads'[u]
    BY <2>1 DEF Owned, Holding, Populating, Evicting
  <2>3. ASSUME NEW k \in Keys, lock[k] # NoThread
        PROVE  \/ pc'[lock[k]] \in Holding /\ key[lock[k]] = k
               \/ pc'[lock[k]] = "remove" /\ k = Head(entries)
    <3>1. lock[k] \in Threads
      BY <1>0, <2>3
    <3>2. CASE lock[k] = t
      BY <2>1, <2>3, <3>2 DEF Owned
    <3>3. CASE lock[k] # t
      BY <2>1, <2>3, <3>1, <3>3 DEF Owned
    <3> QED BY <3>2, <3>3
  <2> QED BY <2>1, <2>2, <2>3 DEF Owned
<1>3. CASE Lock(t)
  BY <1>0, <1>3 DEF Owned, Lock, Holding
<1>4. CASE PopulateFails(t) \/ ScanFails(t) \/ Open(t)
  <2>1. /\ pc' = [pc EXCEPT ![t] = "idle"] /\ key' = [key EXCEPT ![t] = NoKey]
        /\ lock' = [lock EXCEPT ![key[t]] = NoThread] /\ UNCHANGED entries
        /\ pc[t] # "remove"
    BY <1>4 DEF PopulateFails, ScanFails, Open, Return, Populating
  <2> QED BY <1>0, <2>1 DEF Owned
<1>5. CASE Scan(t) \/ SweepDone(t) \/ SweepSkip(t)
  <2>1. /\ UNCHANGED <<key, lock>>
        /\ pc[t] \in {"scan", "sweep"} /\ pc'[t] \in Holding
        /\ \A u \in Threads \ {t} : pc'[u] = pc[u]
    BY <1>0, <1>5
    DEF Scan, SweepDone, SweepSkip, EvictEnd, Holding, Populating, Evicting
  <2>2. \A u \in Threads \ {t} : pc[u] # "remove"
    BY <2>1, OneSweep DEF Evicting
  <2> QED BY <1>0, <2>1, <2>2 DEF Owned, Holding, Evicting
<1>6. CASE SweepTryLock(t)
  <2>1. /\ UNCHANGED <<key, entries>> /\ pc[t] = "sweep"
        /\ pc' = [pc EXCEPT ![t] = "remove"]
        /\ lock' = [lock EXCEPT ![Head(entries)] = t]
    BY <1>6 DEF SweepTryLock
  <2> QED BY <1>0, <2>1 DEF Owned, Holding, Evicting
<1>7. CASE SweepRemove(t)
  <2>1. /\ UNCHANGED key /\ pc[t] = "remove"
        /\ pc' = [pc EXCEPT ![t] = "sweep"]
        /\ lock' = [lock EXCEPT ![Head(entries)] = NoThread]
    BY <1>7 DEF SweepRemove
  <2>2. \A u \in Threads \ {t} : pc[u] # "remove"
    BY <2>1, OneSweep DEF Evicting
  <2> QED BY <1>0, <2>1, <2>2 DEF Owned, Holding, Evicting
<1> QED BY <1>1, <1>2, <1>3, <1>4, <1>5, <1>6, <1>7 DEF Step

\* A touched file is the newest, and the others keep their order.
LEMMA BumpOrdered ==
  ASSUME Ordered, NEW k \in Keys, Bump(k)
  PROVE  Ordered'
<1> SUFFICES ASSUME NEW j \in Keys, NEW n \in Keys,
                    <<j, n>> \in recency', <<n, j>> \in recency'
             PROVE  FALSE
  BY DEF Ordered, Older
<1>1. CASE k \notin {j, n}
  BY <1>1 DEF Bump, Ordered, Older
<1>2. CASE k = j
  BY <1>2 DEF Bump
<1>3. CASE k = n
  BY <1>3 DEF Bump
<1> QED BY <1>1, <1>2, <1>3

\* Every step of a call keeps the mtimes ordered.
LEMMA OrderedStep ==
  ASSUME IInv, Ordered, NEW t \in Threads,
         Step(t) \/ PopulateFails(t) \/ ScanFails(t) \/ \E k \in Keys : Call(t, k)
  PROVE  Ordered'
<1> USE DEF Goto, sweep, directory, gauges, process
<1>1. CASE WriteTemp(t) \/ Touch(t)
  <2>1. key[t] \in Keys
    BY <1>1 DEF WriteTemp, Touch, IInv, CallOK
  <2>2. Bump(key[t]) \/ UNCHANGED recency
    BY <1>1 DEF WriteTemp, Touch
  <2> QED BY <2>1, <2>2, BumpOrdered DEF Ordered, Older
<1>2. CASE ~(WriteTemp(t) \/ Touch(t))
  <2>1. UNCHANGED recency
    BY <1>2 DEF Step, Call, PopulateFails, ScanFails, Lock, Check, FetchOk,
         Rename, Account, EvictBegin, Scan, SweepDone, SweepSkip, SweepTryLock,
         SweepRemove, Open
  <2> QED BY <2>1 DEF Ordered, Older
<1> QED BY <1>1, <1>2

\* A lone reader is the only thread with keys.
LEMMA OnlyOne ==
  ASSUME Alone, NEW t \in Threads, reads[t] # {},
         NEW u \in Threads, reads[u] # {}
  PROVE  u = t
<1> DEFINE R == {x \in Threads : reads[x] # {}}
<1>1. IsFiniteSet(R) /\ Cardinality(R) = 1
  <2>1. R \in SUBSET Threads
    OBVIOUS
  <2> QED BY <2>1, FiniteAssumption, FS_Subset DEF Alone
<1>2. \E x : R = {x}
  <2> HIDE DEF R
  <2> QED BY <1>1, FS_Singleton
<1> QED BY <1>2

\* The sweep's list holds every entry it found.
LEMMA Listed ==
  ASSUME NEW S \in SUBSET Keys, NEW s \in ByMtime(S)
  PROVE  /\ s \in Seq(Keys) /\ Len(s) = Cardinality(S)
         /\ \A k \in S : \E i \in 1 .. Len(s) : k = s[i]
<1> DEFINE n == Cardinality(S)
<1>1. IsFiniteSet(S) /\ n \in Nat
  BY KeySetsFinite
<1>2. /\ s \in [1 .. n -> S]
      /\ \A i, m \in 1 .. n : i < m => s[i] # s[m]
  BY DEF ByMtime
<1>3. Cardinality(1 .. n) = n
  <2> HIDE DEF n
  <2>1. Cardinality(1 .. n) = IF 1 > n THEN 0 ELSE n - 1 + 1
    BY <1>1, FS_Interval
  <2> QED BY <1>1, <2>1
<1>4. s \in Injection(1 .. n, S)
  <2> HIDE DEF n
  <2>1. ASSUME NEW i \in 1 .. n, NEW m \in 1 .. n, s[i] = s[m] PROVE i = m
    BY <1>1, <1>2, <2>1
  <2> QED BY <1>2, <2>1 DEF Injection, IsInjective
<1>5. s \in Surjection(1 .. n, S)
  BY <1>1, <1>3, <1>4, FS_Injection
<1>6. s \in Seq(Keys) /\ Len(s) = n
  BY <1>1, <1>2
<1>7. \A k \in S : \E i \in 1 .. n : s[i] = k
  BY <1>5 DEF Surjection
<1> HIDE DEF n
<1>8. \A k \in S : \E i \in 1 .. Len(s) : k = s[i]
  <2> SUFFICES ASSUME NEW k \in S PROVE \E i \in 1 .. Len(s) : k = s[i]
    OBVIOUS
  <2>1. PICK i \in 1 .. n : s[i] = k
    BY <1>7
  <2>2. i \in 1 .. Len(s) /\ k = s[i]
    BY <1>6, <2>1
  <2> QED BY <2>2
<1> QED BY <1>6, <1>8 DEF n

\* What holds of a lone thread's sweep while no removal fails.
LEMMA SoloStep ==
  ASSUME "unlink" \notin Faults, IInv, BInv, SInv, Alone,
         NEW t \in Threads, reads[t] # {},
         Step(t) \/ PopulateFails(t) \/ ScanFails(t) \/ \E k \in Keys : Call(t, k)
  PROVE  SoloSweep(t)'
<1> USE DEF Goto, sweep, directory, gauges, process
<1>0. /\ pc \in [Threads -> {"idle", "lock"} \cup Holding]
      /\ lock \in [Keys -> Threads \cup {NoThread}]
      /\ fileSize \in [Keys -> Nat] /\ present \in SUBSET Keys
      /\ SoloSweep(t) /\ SweepOK(t)
  BY DEF IInv, Typed, BInv, Sized, SInv
<1>1. CASE Scan(t) /\ pc'[t] = "sweep"
  <2>1. /\ entries' \in ByMtime(present) /\ total' = SizeOf(present)
        /\ UNCHANGED <<key, present, fileSize, recency>>
    BY <1>0, <1>1 DEF Scan, EvictEnd
  <2>2. /\ Len(entries') = Cardinality(present)
        /\ \A k \in present : \E i \in 1 .. Len(entries') : k = entries'[i]
    BY <1>0, <2>1, Listed
  <2>3. \A i, n \in 1 .. Len(entries') : i < n => Older(entries'[i], entries'[n])
    BY <2>1, <2>2 DEF ByMtime
  <2>4. SizeOf(present)' = SizeOf(present)
    BY <2>1, SameSizes
  <2> QED BY <2>1, <2>2, <2>3, <2>4 DEF SoloSweep, Older
<1>2. CASE SweepSkip(t) \/ SweepTryLock(t) \/ SweepRemove(t)
  <2>0. /\ pc[t] \in {"sweep", "remove"} /\ entries # <<>> /\ entries \in Seq(Keys)
        /\ \A i \in 1 .. Len(entries) : entries[i] \in present
        /\ \A i, n \in 1 .. Len(entries) :
             i < n => entries[i] # entries[n] /\ Older(entries[i], entries[n])
        /\ \A k \in present :
             k = key[t] \/ \E i \in 1 .. Len(entries) : k = entries[i]
        /\ total = SizeOf(present)
        /\ UNCHANGED <<key, fileSize, recency>>
    BY <1>0, <1>2 DEF SweepSkip, SweepTryLock, SweepRemove, SoloSweep, SweepOK
  <2>1. CASE SweepTryLock(t)
    <3>1. UNCHANGED <<entries, total, present>>
      BY <2>1 DEF SweepTryLock
    <3>2. SizeOf(present)' = SizeOf(present)
      BY <2>0, <3>1, SameSizes
    <3> QED BY <2>0, <3>1, <3>2 DEF SoloSweep, Older
  <2>2. CASE SweepSkip(t) \/ SweepRemove(t)
    <3> DEFINE head == Head(entries)
               rest == Tail(entries)
    <3>1. /\ head = entries[1] /\ rest \in Seq(Keys) /\ Len(rest) = Len(entries) - 1
          /\ Len(entries) \in Nat \ {0}
          /\ \A i \in 1 .. Len(rest) : rest[i] = entries[i + 1] /\ i + 1 \in 1 .. Len(entries)
      BY <2>0, TailKept
    <3>2. entries' = rest
      BY <2>2 DEF SweepSkip, SweepRemove
    <3>3. \A k \in present : k = key[t] \/ k = head \/ \E i \in 1 .. Len(rest) : k = rest[i]
      <4> SUFFICES ASSUME NEW k \in present, NEW i \in 1 .. Len(entries), k = entries[i],
                          k # head
                   PROVE  \E m \in 1 .. Len(rest) : k = rest[m]
        BY <2>0
      <4>1. i # 1 /\ i - 1 \in 1 .. Len(rest)
        BY <3>1
      <4>2. rest[i - 1] = entries[i]
        BY <3>1, <4>1
      <4> QED BY <4>1, <4>2
    <3>4. \A i, n \in 1 .. Len(rest) : i < n => Older(rest[i], rest[n])
      BY <2>0, <3>1
    <3> HIDE DEF head, rest
    <3>5. CASE SweepSkip(t)
      <4>1. head \in Keys
        <5>1. 1 \in 1 .. Len(entries) /\ head = entries[1]
          BY <3>1
        <5> QED BY <2>0, <5>1
      <4>2. head = key[t]
        <5> SUFFICES ASSUME lock[head] # NoThread PROVE head = key[t]
          BY <3>5 DEF SweepSkip, head
        <5>1. lock[head] \in Threads /\ pc[lock[head]] # "idle"
          BY <1>0, <4>1 DEF SInv, Owned, Holding, Populating, Evicting
        <5>2. lock[head] = t
          BY <5>1, OnlyOne DEF SInv, Owned
        <5> QED BY <3>5, <4>1, <5>2 DEF SInv, Owned, SweepSkip
      <4>3. UNCHANGED <<present, total>>
        BY <3>5 DEF SweepSkip
      <4>4. SizeOf(present)' = SizeOf(present)
        BY <2>0, <4>3, SameSizes
      <4> QED BY <2>0, <3>2, <3>3, <3>4, <4>2, <4>3, <4>4 DEF SoloSweep, Older
    <3>6. CASE SweepRemove(t)
      <4>1. /\ present' = present \ {head} /\ total' = total - fileSize[head]
        BY <3>6 DEF SweepRemove, Removed, head
      <4>2. head \in present
        <5>1. 1 \in 1 .. Len(entries) /\ head = entries[1]
          BY <3>1
        <5> QED BY <2>0, <5>1
      <4>3. /\ SizeOf(present) = SizeOf(present \ {head}) + fileSize[head]
            /\ SizeOf(present \ {head}) \in Nat /\ fileSize[head] \in Nat
        BY <1>0, <4>2, SizeSplit, BytesFinite
      <4>4. SizeOf(present)' = SizeOf(present \ {head})
        BY <2>0, <4>1 DEF SizeOf, Bytes
      <4>5. total' = SizeOf(present)'
        BY <2>0, <4>1, <4>3, <4>4
      <4>6. \A k \in present' : k = key[t] \/ \E i \in 1 .. Len(rest) : k = rest[i]
        BY <3>3, <4>1
      <4> QED BY <2>0, <3>2, <3>4, <4>5, <4>6 DEF SoloSweep, Older
    <3> QED BY <2>2, <3>5, <3>6
  <2> QED BY <1>2, <2>1, <2>2
<1>3. CASE ~(Scan(t) /\ pc'[t] = "sweep")
             /\ ~(SweepSkip(t) \/ SweepTryLock(t) \/ SweepRemove(t))
  <2>1. pc'[t] \notin {"sweep", "remove"}
    BY <1>0, <1>3
    DEF Step, Call, PopulateFails, ScanFails, Lock, Check, FetchOk, WriteTemp,
        Rename, Account, EvictBegin, Scan, SweepDone, EvictEnd, Touch, Open, Return
  <2> QED BY <2>1 DEF SoloSweep
<1> QED BY <1>1, <1>2, <1>3

\* Only a thread with keys takes a step.
LEMMA Reader ==
  ASSUME Owned, NEW t \in Threads,
         Step(t) \/ PopulateFails(t) \/ ScanFails(t) \/ \E k \in Keys : Call(t, k)
  PROVE  reads[t] # {}
<1>1. CASE \E k \in Keys : Call(t, k)
  BY <1>1 DEF Call
<1>2. CASE Step(t) \/ PopulateFails(t) \/ ScanFails(t)
  <2>1. pc[t] # "idle"
    BY <1>2
    DEF Step, PopulateFails, ScanFails, Lock, Check, FetchOk, WriteTemp, Rename,
        Account, EvictBegin, Scan, SweepDone, SweepSkip, SweepTryLock,
        SweepRemove, Touch, Open, Populating
  <2> QED BY <2>1 DEF Owned
<1> QED BY <1>1, <1>2

\* Every step keeps the invariant of lone sweeps.
LEMMA SNext ==
  ASSUME "unlink" \notin Faults, IInv, BInv, SInv, [Next]_vars
  PROVE  SInv'
<1>1. CASE UNCHANGED vars
  <2>1. /\ SizeOf(present)' = SizeOf(present) /\ Alone' = Alone
        /\ UNCHANGED <<reads, pc, key, lock, entries, total, present, recency>>
    BY <1>1, SameSizes DEF vars, process, sweep, directory, Alone
  <2>2. Owned' /\ Ordered'
    BY <2>1 DEF SInv, Owned, Ordered, Older
  <2>3. \A t \in Threads : SoloSweep(t)' = SoloSweep(t)
    BY <2>1 DEF SoloSweep, Older
  <2> QED BY <2>1, <2>2, <2>3 DEF SInv
<1>2. CASE Restart /\ UNCHANGED reads
  <2>1. Owned' /\ \A t \in Threads : SoloSweep(t)'
    BY <1>2 DEF Restart, Owned, SoloSweep
  <2>2. Ordered'
    BY <1>2 DEF Restart, SInv, Ordered, Older, directory
  <2> QED BY <2>1, <2>2 DEF SInv
<1>3. ASSUME NEW t \in Threads, UNCHANGED reads,
             Step(t) \/ PopulateFails(t) \/ ScanFails(t) \/ \E k \in Keys : Call(t, k)
      PROVE  SInv'
  <2>1. Owned'
    BY <1>3, OwnedStep DEF SInv
  <2>2. Ordered'
    BY <1>3, OrderedStep DEF SInv
  <2>3. reads[t] # {}
    BY <1>3, Reader DEF SInv
  <2>4. ASSUME Alone', NEW u \in Threads, reads'[u] # {}
        PROVE  SoloSweep(u)'
    <3>1. Alone /\ reads[u] # {}
      BY <1>3, <2>4 DEF Alone
    <3>2. u = t
      BY <2>3, <3>1, OnlyOne
    <3> QED BY <1>3, <2>3, <3>1, <3>2, SoloStep
  <2> QED BY <2>1, <2>2, <2>4 DEF SInv
<1> QED BY <1>1, <1>2, <1>3 DEF Next

\* It holds of a cache just constructed.
LEMMA SInit == Init => SInv
<1> SUFFICES ASSUME Init PROVE SInv
  OBVIOUS
<1>1. Owned /\ \A t \in Threads : SoloSweep(t)
  BY DEF Init, Owned, SoloSweep
<1>2. Ordered
  BY DEF Init, Ordered, Older
<1> QED BY <1>1, <1>2 DEF SInv

\* While no fs::remove fails, the sweeps of a lone reader delete in the order of
\* the mtimes: no older entry that was free to go stays behind.  (A removal
\* that failed leaves just such an entry, and the sweep goes on.)
THEOREM EvictsOldestFirst ==
  ASSUME "unlink" \notin Faults
  PROVE  Spec => LruEviction
<1> DEFINE A == Alone => \A v \in present \ present', j \in present' :
                           lock[j] = NoThread => ~Older(j, v)
<1>1. IInv /\ BInv /\ SInv /\ [Next]_vars => SInv'
  BY SNext
<1>2. IInv /\ SInv /\ [Next]_vars => [A]_vars
  <2> SUFFICES ASSUME IInv, SInv, Next, Alone,
                      NEW v \in present \ present', NEW j \in present',
                      lock[j] = NoThread
               PROVE  ~Older(j, v)
    BY DEF vars
  <2>1. PICK t \in Threads : SweepRemove(t)
    BY DEF Next, Step, Call, PopulateFails, ScanFails, Lock, Check, FetchOk,
           WriteTemp, Rename, Account, EvictBegin, Scan, SweepDone, SweepSkip,
           SweepTryLock, Touch, Open, Restart, directory
  <2>2. /\ pc[t] = "remove" /\ v = Head(entries) /\ present' \subseteq present
        /\ v # j /\ entries # <<>> /\ entries \in Seq(Keys)
        /\ NoThread \notin Threads
    BY <2>1, SentinelAssumption DEF SweepRemove, Removed, IInv, SweepOK
  <2>3. reads[t] # {} /\ lock[key[t]] = t
    BY <2>2 DEF SInv, Owned, IInv, CallOK, Holding, Evicting
  <2>4. SoloSweep(t)
    BY <2>3 DEF SInv
  <2>5. j # key[t]
    BY <2>2, <2>3
  <2>6. PICK i \in 1 .. Len(entries) : j = entries[i]
    BY <2>2, <2>4, <2>5 DEF SoloSweep
  <2>7. v = entries[1] /\ 1 \in 1 .. Len(entries) /\ 1 < i
    <3>1. Head(entries) = entries[1] /\ Len(entries) \in Nat \ {0}
      BY <2>2, TailKept
    <3>2. v = entries[1]
      BY <2>2, <3>1
    <3>3. i # 1
      BY <2>2, <2>6, <3>2
    <3> QED BY <3>1, <3>2, <3>3
  <2>8. Older(v, j)
    BY <2>2, <2>4, <2>6, <2>7 DEF SoloSweep
  <2>9. v \in Keys /\ j \in Keys
    BY <2>2 DEF IInv, Typed
  <2> QED BY <2>8, <2>9 DEF SInv, Ordered
<1>3. Spec => [][A]_vars
  BY <1>1, <1>2, SInit, Invariance, BInvariance, PTL DEF Spec
<1> QED BY <1>3 DEF LruEviction

\* Of a lone reader: it is over budget only inside the call that populates.
LEMMA BudgetStep ==
  ASSUME Faults \subseteq {"populate"}, IInv, BInv, SInv, Alone,
         NEW t \in Threads, reads[t] # {}, Budget(t),
         Step(t) \/ PopulateFails(t) \/ ScanFails(t) \/ \E k \in Keys : Call(t, k)
  PROVE  Budget(t)'
<1> USE DEF Goto, sweep, directory, gauges, process
<1> SUFFICES ASSUME MaxSizeBytes # 0,
                    pc'[t] \notin {"account", "evict"} \cup Evicting
             PROVE  InBudget'
  BY DEF Budget
<1>0. /\ pc \in [Threads -> {"idle", "lock"} \cup Holding]
      /\ SoloSweep(t) /\ present \in SUBSET Keys
  BY DEF IInv, Typed, SInv
<1>1. UNCHANGED <<present, fileSize>>
  BY <1>0 DEF Step, Call, PopulateFails, ScanFails, Lock, Check, FetchOk,
         WriteTemp, Rename, Account, EvictBegin, Scan, SweepDone, SweepSkip,
         SweepTryLock, SweepRemove, Touch, Open, Evicting
<1>2. InBudget' = InBudget
  BY <1>1, SameSizes DEF InBudget
<1>3. CASE pc[t] \notin {"account", "evict"} \cup Evicting
  BY <1>2, <1>3 DEF Budget
<1>4. CASE pc[t] = "account"
  BY <1>0, <1>4
  DEF Step, Call, PopulateFails, ScanFails, Lock, Check, FetchOk, WriteTemp,
      Rename, Account, EvictBegin, Scan, SweepDone, SweepSkip, SweepTryLock,
      SweepRemove, Touch, Open, Populating
<1>5. CASE pc[t] = "evict"
  <2>1. current_bytes <= MaxSizeBytes
    BY <1>0, <1>5
    DEF Step, Call, PopulateFails, ScanFails, Lock, Check, FetchOk, WriteTemp,
        Rename, Account, EvictBegin, Scan, SweepDone, SweepSkip, SweepTryLock,
        SweepRemove, Touch, Open, Populating, Evicting
  <2>2. Uncounted = {}
    <3>1. ASSUME NEW u \in Threads, pc[u] = "account" PROVE FALSE
      <4>1. reads[u] # {}
        BY <3>1 DEF SInv, Owned
      <4> QED BY <1>5, <3>1, <4>1, OnlyOne
    <3> QED BY <3>1 DEF Uncounted
  <2>3. SizeOf(present) = current_bytes
    <3>1. present \ Uncounted = present
      BY <2>2
    <3> QED BY <3>1 DEF BInv, BytesExact
  <2> QED BY <1>2, <2>1, <2>3 DEF InBudget
<1>6. CASE pc[t] \in Evicting
  <2>1. Scan(t) \/ SweepDone(t)
    BY <1>0, <1>6
    DEF Step, Call, PopulateFails, ScanFails, Lock, Check, FetchOk, WriteTemp,
        Rename, Account, EvictBegin, SweepSkip, SweepTryLock, SweepRemove, Touch,
        Open, Populating, Evicting
  <2>2. CASE Scan(t)
    BY <1>0, <1>2, <2>2 DEF Scan, InBudget, Evicting
  <2>3. CASE SweepDone(t)
    <3>1. pc[t] = "sweep" /\ key[t] \in present /\ total = SizeOf(present)
      BY <1>0, <2>3 DEF SweepDone, SoloSweep, IInv, CallOK, Stored, Evicting
    <3>2. CASE total <= MaxSizeBytes
      BY <1>2, <3>1, <3>2 DEF InBudget
    <3>3. CASE entries = <<>>
      <4>1. present = {key[t]}
        BY <1>0, <3>1, <3>3 DEF SoloSweep
      <4>2. Cardinality(present) = 1
        BY <4>1, FS_Singleton
      <4> QED BY <1>2, <4>2 DEF InBudget
    <3> QED BY <2>3, <3>2, <3>3 DEF SweepDone
  <2> QED BY <2>1, <2>2, <2>3
<1> QED BY <1>3, <1>4, <1>5, <1>6

\* Of a lone reader, when nothing fails but populations: after each call the
\* directory is within max_size_bytes, or holds the protected entry alone.  (A
\* listing or removal that fails, and a crash before the sweep, leave more.)
THEOREM WithinBudgetWhenIdle ==
  ASSUME Faults \subseteq {"populate"}
  PROVE  Spec => []QuiescentBudget
<1>1. Init => QInv
  <2> SUFFICES ASSUME Init PROVE InBudget
    BY DEF QInv, Budget
  <2>1. SizeOf(present) = 0
    BY NoBytes DEF Init
  <2> QED BY <2>1, SizeAssumption DEF InBudget
<1>2. ASSUME IInv, BInv, SInv, QInv, [Next]_vars PROVE QInv'
  <2>1. CASE UNCHANGED vars
    <3>1. /\ SizeOf(present)' = SizeOf(present) /\ Alone' = Alone
          /\ UNCHANGED <<reads, pc, present>>
      BY <2>1, SameSizes DEF vars, process, directory, Alone
    <3>2. \A t \in Threads : Budget(t)' = Budget(t)
      BY <3>1 DEF Budget, InBudget
    <3> QED BY <1>2, <3>1, <3>2 DEF QInv
  <2>2. ASSUME NEW t \in Threads, UNCHANGED reads,
               Step(t) \/ PopulateFails(t) \/ ScanFails(t) \/ \E k \in Keys : Call(t, k)
        PROVE  QInv'
    <3>1. reads[t] # {}
      BY <1>2, <2>2, Reader DEF SInv
    <3>2. ASSUME Alone', NEW u \in Threads, reads'[u] # {}
          PROVE  Budget(u)'
      <4>1. Alone /\ reads[u] # {}
        BY <2>2, <3>2 DEF Alone
      <4>2. u = t
        BY <3>1, <4>1, OnlyOne
      <4>3. Budget(t)
        BY <1>2, <3>1, <4>1 DEF QInv
      <4> QED BY <1>2, <2>2, <3>1, <4>1, <4>2, <4>3, BudgetStep
    <3> QED BY <3>2 DEF QInv
  <2> QED BY <1>2, <2>1, <2>2 DEF Next, Restart
<1>3. IInv /\ BInv /\ SInv /\ [Next]_vars => SInv'
  BY SNext
<1>4. QInv => QuiescentBudget
  <2> SUFFICES ASSUME QInv, Alone, MaxSizeBytes # 0, \A t \in Threads : pc[t] = "idle"
               PROVE  InBudget
    BY DEF QuiescentBudget, InBudget
  <2>1. PICK t \in Threads : reads[t] # {}
    <3> DEFINE R == {x \in Threads : reads[x] # {}}
    <3>1. Cardinality(R) = 1
      BY DEF Alone
    <3>2. R # {}
      <4> HIDE DEF R
      <4> QED BY <3>1, FS_EmptySet
    <3> QED BY <3>2
  <2> QED BY <2>1 DEF QInv, Budget, Evicting
<1> QED BY <1>1, <1>2, <1>3, <1>4, SInit, Invariance, BInvariance, PTL DEF Spec

\* Every variable keeps its type; the unsigned entry gauge never wraps.
THEOREM TypeCorrect == Spec => []TypeOK
<1> DEFINE Kinds ==
      /\ reads \in Workloads
      /\ evictionMutex \in Threads \cup {NoThread}
      /\ entries \in Seq(Keys) /\ total \in Int
      /\ recency \subseteq Keys \X Keys
<1>1. Init => Kinds
  <2> SUFFICES ASSUME Init PROVE Kinds
    OBVIOUS
  <2>1. entries \in Seq(Keys)
    BY DEF Init
  <2> QED BY <2>1 DEF Init
<1>2. ASSUME IInv, BInv, Kinds, [Next]_vars PROVE Kinds'
  <2> USE <1>2 DEF Goto, sweep, directory, gauges, process
  <2>0. fileSize \in [Keys -> Nat] /\ present \in SUBSET Keys
    BY DEF BInv, Sized, IInv, Typed
  <2>1. CASE UNCHANGED vars
    BY <2>1 DEF vars
  <2>2. CASE Restart /\ UNCHANGED reads
    <3>1. entries' \in Seq(Keys)
      BY <2>2 DEF Restart
    <3> QED BY <2>2, <3>1 DEF Restart
  <2>3. ASSUME NEW t \in Threads, UNCHANGED reads,
               Step(t) \/ PopulateFails(t) \/ ScanFails(t) \/ \E k \in Keys : Call(t, k)
        PROVE  Kinds'
    <3>1. recency' \subseteq Keys \X Keys
      <4>1. pc[t] # "idle" => key[t] \in Keys
        BY DEF IInv, CallOK
      <4>2. UNCHANGED recency \/ (key[t] \in Keys /\ Bump(key[t]))
        BY <2>3, <4>1
        DEF Step, Call, PopulateFails, ScanFails, Lock, Check, FetchOk, WriteTemp,
            Rename, Account, EvictBegin, Scan, SweepDone, SweepSkip, SweepTryLock,
            SweepRemove, Touch, Open
      <4> QED BY <4>2 DEF Bump
    <3>2. evictionMutex' \in {evictionMutex, t, NoThread}
      BY <2>3
      DEF Step, Call, PopulateFails, ScanFails, Lock, Check, FetchOk, WriteTemp,
          Rename, Account, EvictBegin, Scan, SweepDone, SweepSkip, SweepTryLock,
          SweepRemove, Touch, Open, EvictEnd
    <3>3. entries' \in Seq(Keys) /\ total' \in Int
      <4>1. CASE Scan(t)
        <5>1. SizeOf(present) \in Nat
          BY <2>0, BytesFinite
        <5>2. \/ entries' = <<>> /\ total' = 0
              \/ entries' \in ByMtime(present) /\ total' = SizeOf(present)
          BY <4>1 DEF Scan, EvictEnd
        <5>3. entries' \in ByMtime(present) => entries' \in Seq(Keys)
          BY <2>0, Listed
        <5>4. <<>> \in Seq(Keys)
          OBVIOUS
        <5>5. entries' \in Seq(Keys)
          BY <5>2, <5>3, <5>4, Zenon
        <5>6. total' \in Int
          BY <5>1, <5>2
        <5> QED BY <5>5, <5>6
      <4>2. CASE SweepDone(t)
        BY <4>2 DEF SweepDone, EvictEnd
      <4>3. CASE SweepSkip(t) \/ SweepRemove(t)
        <5>1. entries # <<>> /\ entries' = Tail(entries)
          BY <4>3 DEF SweepSkip, SweepRemove, IInv, SweepOK
        <5>2. Head(entries) \in Keys /\ Tail(entries) \in Seq(Keys)
          BY <5>1, TailKept
        <5>3. fileSize[Head(entries)] \in Int
          BY <2>0, <5>2
        <5>4. UNCHANGED total \/ total' = total - fileSize[Head(entries)]
          BY <4>3 DEF SweepSkip, SweepRemove, Removed
        <5> QED BY <5>1, <5>2, <5>3, <5>4
      <4>4. CASE ~(Scan(t) \/ SweepDone(t) \/ SweepSkip(t) \/ SweepRemove(t))
        <5>1. UNCHANGED <<entries, total>>
          BY <2>3, <4>4
          DEF Step, Call, PopulateFails, ScanFails, Lock, Check, FetchOk, WriteTemp,
              Rename, Account, EvictBegin, SweepTryLock, Touch, Open
        <5> QED BY <5>1
      <4> QED BY <4>1, <4>2, <4>3, <4>4
    <3> QED BY <2>3, <3>1, <3>2, <3>3
  <2> QED BY <2>1, <2>2, <2>3 DEF Next
<1>3. IInv /\ BInv /\ Kinds => TypeOK
  <2> SUFFICES ASSUME IInv, BInv, Kinds PROVE TypeOK
    OBVIOUS
  <2>1. current_entries \in Nat
    BY KeySetsFinite DEF IInv, Typed, EntriesExact
  <2>2. current_bytes \in Int
    <3>1. present \ Uncounted \in SUBSET Keys /\ fileSize \in [Keys -> Nat]
      BY DEF IInv, Typed, BInv, Sized
    <3> QED BY <3>1, BytesFinite DEF BInv, BytesExact
  <2>3. /\ pc \in [Threads -> {"idle", "lock"} \cup Holding]
        /\ key \in [Threads -> Keys \cup {NoKey}]
        /\ lock \in [Keys -> Threads \cup {NoThread}]
        /\ present \subseteq Keys
    BY DEF IInv, Typed
  <2>4. written \in [Threads -> Nat] /\ fileSize \in [Keys -> Nat]
    BY DEF BInv, Sized
  <2> QED BY <2>1, <2>2, <2>3, <2>4 DEF TypeOK
<1> QED BY <1>1, <1>2, <1>3, Invariance, BInvariance, PTL DEF Spec

=============================================================================
