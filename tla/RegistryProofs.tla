--------------------------- MODULE RegistryProofs ---------------------------
(***************************************************************************)
(* For every set of calls, cap and backend, with restarts: the server      *)
(* implements ResultRegistry, and a buffered result is delivered to one    *)
(* call only.  The argument is who owns an entry of results_: the call     *)
(* that published it, under a handle no other entry has.  While the server *)
(* is not restarted, tickets and prepared handles lead to their own result *)
(* and plan.                                                               *)
(***************************************************************************)
EXTENDS FlightSqlServerProofs

\* The points before a call is given a handle.
Before == {"new", "admit", "execute", "release", "publish", "prepare"}

\* An entry of results_ is under the handle of the call that published it, and
\* that handle's number has been used up.
Owned ==
  /\ \A c \in Calls : pc[c] \in Before => handle[c] = None
  /\ \A h \in DOMAIN results :
       /\ pc[results[h].by] \in {"ticket", "done"}
       /\ handle[results[h].by] = h
       /\ h[2] < next_handle

\* A result that was delivered is no longer buffered and will not be again.
Spent ==
  \A c \in Calls : delivered[c] # None =>
    /\ pc[c] # "new"
    /\ delivered[c].by \in Calls /\ pc[delivered[c].by] \in {"ticket", "done"}
    /\ \A h \in DOMAIN results : results[h].by # delivered[c].by

\* The inductive invariant.
RInv == IInv /\ Owned /\ Spent /\ DeliveredOnce

-----------------------------------------------------------------------------
\* At the start nothing is buffered.
LEMMA OwnedInit == Init => Owned /\ Spent /\ DeliveredOnce
<1> SUFFICES ASSUME Init PROVE Owned /\ Spent /\ DeliveredOnce
  OBVIOUS
<1>1. DOMAIN results = {}
  BY EmptyDomain DEF Init
<1> QED BY <1>1 DEF Init, Owned, Spent, DeliveredOnce

\* What the registry's types say of an entry.
LEMMA EntryTypes ==
  ASSUME IInv, NEW h \in DOMAIN results
  PROVE  /\ results[h].by \in Calls /\ h \in {"q"} \X Nat
         /\ h # None /\ h[1] = "q" /\ h[2] \in Nat /\ h = <<"q", h[2]>>
<1>1. results \in [DOMAIN results -> Results] /\ DOMAIN results \subseteq {"q"} \X Nat
  BY DEF IInv, TypeOK
<1>2. results[h] \in Results
  BY <1>1
<1>3. results[h].by \in Calls
  BY <1>2 DEF Results
<1>4. h \in {"q"} \X Nat
  BY <1>1
<1>5. h \in {"q", "p"} \X Nat
  BY <1>4
<1>6. h # None
  BY <1>5, HandleAssumption
<1> QED BY <1>3, <1>4, <1>6

\* A step that publishes nothing, fetches nothing and gives c no handle.
LEMMA QuietRegistry ==
  ASSUME RInv, NEW c \in Calls, NEW p \in Points, Goto(c, p),
         p \in Before => pc[c] \in Before,
         p = "new" => pc[c] = "new",
         pc[c] \in {"ticket", "done"} => p = "done",
         UNCHANGED <<handle, delivered, results, next_handle>>
  PROVE  Owned' /\ Spent' /\ DeliveredOnce'
<1>1. pc \in [Calls -> Points]
  BY DEF RInv, IInv, TypeOK
<1>2. Owned'
  BY <1>1, EntryTypes DEF RInv, Owned, Goto
<1>3. Spent'
  BY <1>1 DEF RInv, Spent, Goto
<1>4. DeliveredOnce'
  BY DEF RInv, DeliveredOnce
<1> QED BY <1>2, <1>3, <1>4

\* A published entry is owned by its publisher.
LEMMA PublishOwned ==
  ASSUME RInv, NEW c \in Calls, Publish(c)
  PROVE  Owned' /\ Spent' /\ DeliveredOnce'
<1> DEFINE h0 == <<"q", next_handle>>
<1>1. /\ pc \in [Calls -> Points] /\ handle \in [Calls -> {None} \cup ({"q", "p"} \X Nat)]
      /\ next_handle \in Nat
  BY DEF RInv, IInv, TypeOK
<1>2. /\ pc[c] = "publish" /\ pc' = [pc EXCEPT ![c] = "ticket"]
      /\ next_handle' = next_handle + 1
      /\ handle' = [handle EXCEPT ![c] = h0]
      /\ UNCHANGED delivered
  BY DEF Publish, Goto
<1>3. /\ DOMAIN results' = DOMAIN results \cup {h0}
      /\ h0 \notin DOMAIN results
      /\ \A h \in DOMAIN results : results'[h].by = results[h].by
      /\ results'[h0].by = c
  BY <1>1, EntryTypes DEF RInv, Owned, Publish, Emplace
<1>4. \A h \in DOMAIN results : results[h].by # c /\ results[h].by \in Calls
  BY <1>2, EntryTypes DEF RInv, Owned
<1>5. Owned'
  <2>1. \A d \in Calls : pc'[d] \in Before => handle'[d] = None
    BY <1>1, <1>2 DEF RInv, Owned, Before
  <2>2. ASSUME NEW h \in DOMAIN results'
        PROVE  /\ pc'[results'[h].by] \in {"ticket", "done"}
               /\ handle'[results'[h].by] = h
               /\ h[2] < next_handle'
    <3>1. CASE h = h0
      BY <1>1, <1>2, <1>3, <3>1
    <3>2. CASE h \in DOMAIN results
      BY <1>1, <1>2, <1>3, <1>4, <3>2, EntryTypes DEF RInv, Owned
    <3> QED BY <1>3, <2>2, <3>1, <3>2
  <2> QED BY <2>1, <2>2 DEF Owned
<1>6. Spent'
  BY <1>1, <1>2, <1>3 DEF RInv, Spent
<1>7. DeliveredOnce'
  BY <1>2 DEF RInv, DeliveredOnce
<1> QED BY <1>5, <1>6, <1>7

\* A prepared statement takes a number no result has.
LEMMA PrepareOwned ==
  ASSUME RInv, NEW c \in Calls, Prepare(c)
  PROVE  Owned' /\ Spent' /\ DeliveredOnce'
<1>1. pc \in [Calls -> Points] /\ handle \in [Calls -> {None} \cup ({"q", "p"} \X Nat)]
      /\ next_handle \in Nat
  BY DEF RInv, IInv, TypeOK
<1>2. /\ pc[c] = "prepare" /\ pc' = [pc EXCEPT ![c] = "done"]
      /\ next_handle' \in {next_handle, next_handle + 1}
      /\ \A d \in Calls \ {c} : handle'[d] = handle[d]
      /\ UNCHANGED <<delivered, results>>
  BY <1>1 DEF Prepare, Respond, Goto
<1>3. Owned'
  BY <1>1, <1>2, EntryTypes DEF RInv, Owned, Before
<1>4. Spent'
  BY <1>1, <1>2 DEF RInv, Spent
<1>5. DeliveredOnce'
  BY <1>2 DEF RInv, DeliveredOnce
<1> QED BY <1>3, <1>4, <1>5

\* What a DoGetStatement that finds an entry does.
LEMMA Fetched ==
  ASSUME RInv, NEW c \in Calls, NEW g \in Issuers("q"), DoGetStatement(c, g),
         handle[g] \in DOMAIN results
  PROVE  /\ pc[c] = "new" /\ pc' = [pc EXCEPT ![c] = "stream"]
         /\ delivered' = [delivered EXCEPT ![c] = results[handle[g]]]
         /\ DOMAIN results' = DOMAIN results \ {handle[g]}
         /\ \A h \in DOMAIN results' : results'[h] = results[h]
         /\ UNCHANGED <<handle, next_handle>>
BY DEF DoGetStatement, Erase, Goto

\* A delivered entry leaves results_ in the step that delivers it.
LEMMA DoGetOwned ==
  ASSUME RInv, NEW c \in Calls, NEW g \in Issuers("q"), DoGetStatement(c, g)
  PROVE  Owned' /\ Spent' /\ DeliveredOnce'
<1>1. CASE handle[g] \notin DOMAIN results
  <2>1. /\ Goto(c, "done") /\ pc[c] = "new"
        /\ UNCHANGED <<handle, delivered, results, next_handle>>
    BY <1>1 DEF DoGetStatement, Respond
  <2> QED BY <2>1, QuietRegistry DEF Points, Before
<1>2. CASE handle[g] \in DOMAIN results
  <2> DEFINE q == results[handle[g]].by
  <2>1. /\ pc \in [Calls -> Points]
        /\ delivered \in [Calls -> Results \cup {None}]
    BY DEF RInv, IInv, TypeOK
  <2>2. /\ pc[c] = "new" /\ pc' = [pc EXCEPT ![c] = "stream"]
        /\ delivered' = [delivered EXCEPT ![c] = results[handle[g]]]
        /\ DOMAIN results' = DOMAIN results \ {handle[g]}
        /\ \A h \in DOMAIN results' : results'[h] = results[h]
        /\ UNCHANGED <<handle, next_handle>>
    BY <1>2, Fetched
  <2>3. q \in Calls /\ pc[q] \in {"ticket", "done"} /\ handle[q] = handle[g]
    BY <1>2, EntryTypes DEF RInv, Owned
  <2>4. ASSUME NEW h \in DOMAIN results'
        PROVE  results'[h].by # q
    <3>1. handle[results[h].by] = h /\ h # handle[g]
      BY <2>2 DEF RInv, Owned
    <3> QED BY <2>2, <2>3, <3>1
  <2>5. Owned'
    BY <2>1, <2>2, EntryTypes DEF RInv, Owned, Before
  <2>6. delivered'[c].by = q /\ \A d \in Calls \ {c} : delivered'[d] = delivered[d]
    BY <2>1, <2>2
  <2>7. Spent'
    <3>1. ASSUME NEW d \in Calls, d # c, delivered'[d] # None
          PROVE  /\ pc'[d] # "new"
                 /\ delivered'[d].by \in Calls /\ pc'[delivered'[d].by] \in {"ticket", "done"}
                 /\ \A h \in DOMAIN results' : results'[h].by # delivered'[d].by
      BY <2>1, <2>2, <2>6, <3>1 DEF RInv, Spent
    <3>2. /\ pc'[c] # "new"
          /\ delivered'[c].by \in Calls /\ pc'[delivered'[c].by] \in {"ticket", "done"}
          /\ \A h \in DOMAIN results' : results'[h].by # delivered'[c].by
      BY <2>1, <2>2, <2>3, <2>4, <2>6
    <3> QED BY <3>1, <3>2 DEF Spent
  <2>8. DeliveredOnce'
    <3>1. \A d \in Calls : delivered[d] # None => delivered[d].by # q
      BY <1>2 DEF RInv, Spent
    <3> QED BY <2>6, <3>1 DEF RInv, DeliveredOnce
  <2> QED BY <2>5, <2>7, <2>8
<1> QED BY <1>1, <1>2

\* A restart leaves no entry to deliver.
LEMMA RestartOwned ==
  ASSUME RInv, Restart
  PROVE  Owned' /\ Spent' /\ DeliveredOnce'
<1>1. DOMAIN results' = {}
  BY EmptyDomain DEF Restart
<1>2. /\ pc' = [c \in Calls |-> IF pc[c] = "new" THEN "new" ELSE "done"]
      /\ UNCHANGED <<handle, delivered>>
  BY DEF Restart, client
<1>3. Owned'
  BY <1>1, <1>2 DEF RInv, Owned, Before
<1>4. Spent'
  BY <1>1, <1>2 DEF RInv, Spent
<1>5. DeliveredOnce'
  BY <1>2 DEF RInv, DeliveredOnce
<1> QED BY <1>3, <1>4, <1>5

\* The steps that leave the registry of results alone.
LEMMA QuietOwned ==
  ASSUME RInv, NEW c \in Calls,
         \/ \E s \in Statements : GetFlightInfoStatement(c, s) \/ CreatePreparedStatement(c, s)
         \/ \E g \in Issuers("p") :
              ClosePreparedStatement(c, g) \/ GetFlightInfoPreparedStatement(c, g)
         \/ Admit(c) \/ Executed(c) \/ Release(c) \/ BuildTicket(c) \/ BuildStream(c)
  PROVE  Owned' /\ Spent' /\ DeliveredOnce'
<1>1. UNCHANGED <<handle, delivered, results, next_handle>>
  BY DEF GetFlightInfoStatement, CreatePreparedStatement, Explain, ClosePreparedStatement,
         GetFlightInfoPreparedStatement, Admit, Executed, Release, BuildTicket, BuildStream,
         client, registry
<1>2. PICK p \in {"admit", "prepare", "execute", "publish", "release", "done"} :
        /\ Goto(c, p)
        /\ p # "done" => pc[c] \in Before
  BY DEF GetFlightInfoStatement, CreatePreparedStatement, Explain, ClosePreparedStatement,
         GetFlightInfoPreparedStatement, Admit, Executed, Release, BuildTicket, BuildStream,
         Throw, Respond, Before
<1>3. pc[c] \in {"ticket", "done"} => p = "done"
  BY <1>2 DEF Before
<1> QED BY <1>1, <1>2, <1>3, QuietRegistry DEF Points, Before

\* Every step keeps the invariant.
LEMMA RNext == RInv /\ [Next]_vars => RInv'
<1> SUFFICES ASSUME RInv, [Next]_vars PROVE RInv'
  OBVIOUS
<1>1. IInv'
  BY NextInv DEF RInv
<1>2. CASE UNCHANGED <<pc, handle, delivered, results, next_handle>>
  <2>1. Owned' /\ Spent' /\ DeliveredOnce'
    BY <1>2 DEF RInv, Owned, Spent, DeliveredOnce
  <2> QED BY <1>1, <2>1 DEF RInv
<1>3. CASE UNCHANGED vars
  BY <1>2, <1>3 DEF vars, handler, client, registry
<1>4. ASSUME NEW c \in Calls, Arrive(c) \/ HandlerStep(c)
      PROVE  RInv'
  <2>1. CASE Dispatch(c) \/ Acquire(c)
    BY <1>2, <2>1 DEF Dispatch, Acquire, handler, client, registry
  <2>2. (Owned' /\ Spent' /\ DeliveredOnce') \/ Dispatch(c) \/ Acquire(c)
    BY <1>4, QuietOwned, PublishOwned, PrepareOwned, DoGetOwned DEF Arrive, HandlerStep
  <2> QED BY <1>1, <2>1, <2>2 DEF RInv
<1>5. CASE Restart
  BY <1>1, <1>5, RestartOwned DEF RInv
<1> QED BY <1>3, <1>4, <1>5 DEF Next, AllDone

\* The invariant holds of every behaviour of the server.
LEMMA RInvariance == Spec => []RInv
<1>1. Init => RInv
  BY InitInv, OwnedInit DEF RInv
<1> QED BY <1>1, RNext, PTL DEF Spec

\* A result in results_ goes to one DoGetStatement call, however clients repeat
\* and interleave their redemptions, and across restarts of the server.
THEOREM OneDelivery == Spec => []DeliveredOnce
<1>1. RInv => DeliveredOnce
  BY DEF RInv
<1> QED BY <1>1, RInvariance, PTL

-----------------------------------------------------------------------------
(* The refinement of ResultRegistry *)

\* The calls whose results wait in results_.
Waiting == {results[h].by : h \in DOMAIN results}

\* The slot of a call, by what the server holds of it.
LEMMA SlotCases ==
  ASSUME NEW c \in Calls
  PROVE  SlotOf(c) = IF c \in Reserved THEN "executing"
                     ELSE IF c \in Waiting THEN "buffered"
                     ELSE IF handle[c] # None /\ handle[c][1] = "q" THEN "gone"
                     ELSE "none"
BY DEF SlotOf, Waiting

\* The slot of a call depends on nothing else.
LEMMA SlotKept ==
  ASSUME NEW c \in Calls, handle'[c] = handle[c],
         c \in Reserved' <=> c \in Reserved,
         c \in Waiting' <=> c \in Waiting
  PROVE  SlotOf(c)' = SlotOf(c)
BY DEF SlotOf, Waiting

\* The registry counts as the server does.
LEMMA SameCardinality == \A S : Registry!Cardinality(S) = Cardinality(S)
BY DEF Registry!Cardinality, Cardinality

\* The occupied slots are no more than what the server counts.
LEMMA SlotsCounted ==
  ASSUME RInv
  PROVE  /\ IsFiniteSet(Registry!Occupied)
         /\ Cardinality(Registry!Occupied) <= Cardinality(DOMAIN results) + pending_count
<1>1. IsFiniteSet(DOMAIN results) /\ Cardinality(DOMAIN results) \in Nat
  BY FS_CardinalityType DEF RInv, IInv, TypeOK
<1>2. IsFiniteSet(Waiting) /\ Cardinality(Waiting) <= Cardinality(DOMAIN results)
  <2> DEFINE f == [h \in DOMAIN results |-> results[h].by]
  <2>1. f \in Surjection(DOMAIN results, Waiting)
    BY DEF Surjection, Waiting
  <2> QED BY <1>1, <2>1, FS_Surjection
<1>3. Registry!Occupied \subseteq Reserved \cup Waiting
  BY SlotCases DEF Registry!Occupied
<1>4. /\ IsFiniteSet(Reserved \cup Waiting)
      /\ Cardinality(Reserved \cup Waiting)
           = Cardinality(Reserved) + Cardinality(Waiting) - Cardinality(Reserved \cap Waiting)
  BY <1>2, ReservedFinite, FS_Union
<1>5. Cardinality(Reserved \cap Waiting) \in Nat /\ Cardinality(Waiting) \in Nat
  BY <1>2, ReservedFinite, FS_Intersection, FS_CardinalityType
<1>6. /\ IsFiniteSet(Registry!Occupied) /\ Cardinality(Registry!Occupied) \in Nat
      /\ Cardinality(Registry!Occupied) <= Cardinality(Reserved \cup Waiting)
  BY <1>3, <1>4, FS_Subset, FS_CardinalityType
<1>7. pending_count = Cardinality(Reserved)
  BY DEF RInv, IInv, PendingExact
<1> QED BY <1>1, <1>2, <1>4, <1>5, <1>6, <1>7, ReservedFinite

\* ExecuteAndBuffer's admission, failure and publication, and a fetch, each as
\* a step of the registry or none.
LEMMA AdmitSlot ==
  ASSUME RInv, NEW c \in Calls, Admit(c)
  PROVE  UNCHANGED [q \in Calls |-> SlotOf(q)] \/ Registry!Admit(c)
<1>1. pc \in [Calls -> Points] /\ UNCHANGED <<handle, results>> /\ pc[c] = "admit"
  BY DEF RInv, IInv, TypeOK, Admit, client
<1>2. Waiting' = Waiting
  BY <1>1 DEF Waiting
<1>3. CASE Held >= MaxPendingResults
  <2>1. Reserved' = Reserved
    BY <1>1, <1>3 DEF Admit, Throw, Respond, Goto, Reserved
  <2>2. \A q \in Calls : SlotOf(q)' = SlotOf(q)
    BY <1>1, <1>2, <2>1, SlotKept
  <2> QED BY <2>2
<1>4. CASE ~(Held >= MaxPendingResults)
  <2>1. Reserved' = Reserved \cup {c} /\ c \notin Reserved
    BY <1>1, <1>4 DEF Admit, Goto, Reserved
  <2>2. \A q \in Calls \ {c} : SlotOf(q)' = SlotOf(q)
    BY <1>1, <1>2, <2>1, SlotKept
  <2>3. SlotOf(c)' = "executing"
    BY <2>1 DEF SlotOf
  <2>4. SlotOf(c) = "none"
    <3>1. handle[c] = None
      BY <1>1 DEF RInv, Owned, Before
    <3>2. c \notin Waiting
      BY <1>1 DEF RInv, Owned, Waiting
    <3> QED BY <2>1, <3>1, <3>2, SlotCases
  <2>5. Cardinality(Registry!Occupied) < MaxPendingResults
    <3>1. /\ Cardinality(DOMAIN results) \in Nat /\ pending_count \in Nat
          /\ Cardinality(Registry!Occupied) \in Nat
      BY SlotsCounted, FS_CardinalityType DEF RInv, IInv, TypeOK
    <3>2. Cardinality(Registry!Occupied) <= Cardinality(DOMAIN results) + pending_count
      BY SlotsCounted
    <3>3. ~(Cardinality(DOMAIN results) + pending_count >= MaxPendingResults)
      BY <1>4 DEF Held
    <3>4. ASSUME NEW m \in Nat, NEW n \in Nat, NEW o \in Nat, o <= m + n,
                 ~(m + n >= MaxPendingResults)
          PROVE  o < MaxPendingResults
      BY <3>4, CapAssumption
    <3> QED BY <3>1, <3>2, <3>3, <3>4
  <2>6. [q \in Calls |-> SlotOf(q)]' = [[q \in Calls |-> SlotOf(q)] EXCEPT ![c] = "executing"]
    BY <2>2, <2>3
  <2>7. Registry!Cardinality(Registry!Occupied) < MaxPendingResults
    BY <2>5, SameCardinality
  <2> QED BY <2>4, <2>6, <2>7 DEF Registry!Admit
<1> QED BY <1>3, <1>4

\* A failed query gives its slot back.
LEMMA ReleaseSlot ==
  ASSUME RInv, NEW c \in Calls, Release(c)
  PROVE  Registry!Fail(c)
<1>1. pc \in [Calls -> Points] /\ UNCHANGED <<handle, results>> /\ pc[c] = "release"
  BY DEF RInv, IInv, TypeOK, Release, client
<1>2. Waiting' = Waiting
  BY <1>1 DEF Waiting
<1>3. Reserved' = Reserved \ {c} /\ c \in Reserved
  BY <1>1 DEF Release, Throw, Respond, Goto, Reserved
<1>4. \A q \in Calls \ {c} : SlotOf(q)' = SlotOf(q)
  BY <1>1, <1>2, <1>3, SlotKept
<1>5. SlotOf(c) = "executing"
  BY <1>3 DEF SlotOf
<1>6. SlotOf(c)' = "none"
  <2>1. handle'[c] = None
    BY <1>1 DEF RInv, Owned, Before
  <2>2. c \notin Waiting'
    BY <1>1, <1>2 DEF RInv, Owned, Waiting
  <2> QED BY <1>3, <2>1, <2>2 DEF SlotOf, Waiting
<1> QED BY <1>4, <1>5, <1>6 DEF Registry!Fail

\* A published result stays in the slot of its query.
LEMMA PublishSlot ==
  ASSUME RInv, NEW c \in Calls, Publish(c)
  PROVE  Registry!Buffer(c)
<1> DEFINE h0 == <<"q", next_handle>>
<1>1. /\ pc \in [Calls -> Points] /\ pc[c] = "publish" /\ next_handle \in Nat
      /\ handle \in [Calls -> {None} \cup ({"q", "p"} \X Nat)]
      /\ \A q \in Calls \ {c} : handle'[q] = handle[q]
  BY DEF RInv, IInv, TypeOK, Publish
<1>2. /\ DOMAIN results' = DOMAIN results \cup {h0}
      /\ h0 \notin DOMAIN results
      /\ \A h \in DOMAIN results : results'[h] = results[h]
      /\ results'[h0].by = c
  BY <1>1, EntryTypes DEF RInv, Owned, Publish, Emplace
<1>3. Waiting' = Waiting \cup {c}
  BY <1>2 DEF Waiting
<1>4. Reserved' = Reserved \ {c} /\ c \in Reserved
  BY <1>1 DEF Publish, Goto, Reserved
<1>5. \A q \in Calls \ {c} : SlotOf(q)' = SlotOf(q)
  BY <1>1, <1>3, <1>4, SlotKept
<1>6. SlotOf(c) = "executing"
  BY <1>4 DEF SlotOf
<1>7. SlotOf(c)' = "buffered"
  BY <1>3, <1>4 DEF SlotOf, Waiting
<1> QED BY <1>5, <1>6, <1>7 DEF Registry!Buffer

\* A fetch empties the slot of the query that was executed, or finds nothing.
LEMMA FetchSlot ==
  ASSUME RInv, NEW c \in Calls, NEW g \in Issuers("q"), DoGetStatement(c, g)
  PROVE  UNCHANGED [q \in Calls |-> SlotOf(q)] \/ \E q \in Calls : Registry!Fetch(q)
<1>0. pc \in [Calls -> Points] /\ pc[c] = "new" /\ UNCHANGED handle
  BY DEF RInv, IInv, TypeOK, DoGetStatement
<1>1. CASE handle[g] \notin DOMAIN results
  <2>1. Goto(c, "done") /\ UNCHANGED results
    BY <1>1 DEF DoGetStatement, Respond
  <2>2. Reserved' = Reserved /\ Waiting' = Waiting
    BY <1>0, <2>1 DEF Goto, Reserved, Waiting
  <2>3. \A q \in Calls : SlotOf(q)' = SlotOf(q)
    BY <1>0, <2>2, SlotKept
  <2> QED BY <2>3
<1>2. CASE handle[g] \in DOMAIN results
  <2> PICK f \in Calls : f = results[handle[g]].by
    BY <1>2, EntryTypes DEF RInv
  <2>1. /\ pc' = [pc EXCEPT ![c] = "stream"]
        /\ DOMAIN results' = DOMAIN results \ {handle[g]}
        /\ \A h \in DOMAIN results' : results'[h] = results[h]
    BY <1>2, Fetched
  <2>2. /\ f \in Calls /\ pc[f] \in {"ticket", "done"} /\ handle[f] = handle[g]
        /\ handle[g] # None /\ handle[g][1] = "q"
    BY <1>2, EntryTypes DEF RInv, Owned
  <2>3. ASSUME NEW h \in DOMAIN results'
        PROVE  results'[h].by # f
    <3>1. handle[results[h].by] = h /\ h # handle[g]
      BY <2>1 DEF RInv, Owned
    <3> QED BY <2>1, <2>2, <3>1
  <2>4. Waiting' = Waiting \ {f} /\ f \in Waiting
    BY <1>2, <2>1, <2>3 DEF Waiting
  <2>5. Reserved' = Reserved /\ f \notin Reserved
    BY <1>0, <2>1, <2>2 DEF Reserved
  <2>6. \A q \in Calls \ {f} : SlotOf(q)' = SlotOf(q)
    BY <1>0, <2>4, <2>5, SlotKept
  <2>7. SlotOf(f) = "buffered"
    BY <2>2, <2>4, <2>5, SlotCases
  <2>8. SlotOf(f)' = "gone"
    BY <1>0, <2>2, <2>4, <2>5 DEF SlotOf, Waiting
  <2>9. Registry!Fetch(f)
    BY <2>2, <2>6, <2>7, <2>8 DEF Registry!Fetch
  <2> QED BY <2>2, <2>9
<1> QED BY <1>1, <1>2

\* A call that is prepared gets a handle of the other kind.
LEMMA PrepareSlot ==
  ASSUME RInv, NEW c \in Calls, Prepare(c)
  PROVE  UNCHANGED [q \in Calls |-> SlotOf(q)]
<1>1. /\ pc \in [Calls -> Points] /\ pc[c] = "prepare"
      /\ handle \in [Calls -> {None} \cup ({"q", "p"} \X Nat)]
      /\ UNCHANGED results
      /\ \A q \in Calls \ {c} : handle'[q] = handle[q]
      /\ handle'[c] = handle[c] \/ handle'[c] = <<"p", next_handle>>
  BY DEF RInv, IInv, TypeOK, Prepare
<1>2. Waiting' = Waiting
  BY <1>1 DEF Waiting
<1>3. Reserved' = Reserved /\ c \notin Reserved
  BY <1>1 DEF Prepare, Respond, Goto, Reserved
<1>4. \A q \in Calls \ {c} : SlotOf(q)' = SlotOf(q)
  BY <1>1, <1>2, <1>3, SlotKept
<1>5. handle[c] = None /\ c \notin Waiting
  BY <1>1 DEF RInv, Owned, Before, Waiting
<1>6. SlotOf(c)' = SlotOf(c)
  BY <1>1, <1>2, <1>3, <1>5 DEF SlotOf, Waiting
<1> QED BY <1>4, <1>6

\* Everything that waits or executes is lost with the process.
LEMMA RestartSlot ==
  ASSUME RInv, Restart
  PROVE  Registry!Wipe
<1>1. /\ pc' = [c \in Calls |-> IF pc[c] = "new" THEN "new" ELSE "done"]
      /\ UNCHANGED handle
  BY DEF Restart, client
<1>2. Reserved' = {}
  BY <1>1 DEF Reserved
<1>3. Waiting' = {}
  <2>1. DOMAIN results' = {}
    BY EmptyDomain DEF Restart
  <2> QED BY <2>1 DEF Waiting
<1>4. \A q \in Calls : SlotOf(q)' \in {"none", "gone"}
  BY <1>2, <1>3 DEF SlotOf, Waiting
<1>5. ASSUME NEW q \in Calls, SlotOf(q) = "gone"
      PROVE  SlotOf(q)' = "gone"
  BY <1>1, <1>2, <1>3, <1>5, SlotCases DEF SlotOf, Waiting
<1> QED BY <1>4, <1>5 DEF Registry!Wipe

\* No other step moves a slot.
LEMMA QuietSlot ==
  ASSUME RInv, NEW c \in Calls,
         \/ \E s \in Statements : GetFlightInfoStatement(c, s) \/ CreatePreparedStatement(c, s)
         \/ \E g \in Issuers("p") :
              ClosePreparedStatement(c, g) \/ GetFlightInfoPreparedStatement(c, g)
         \/ Dispatch(c) \/ Acquire(c) \/ Executed(c) \/ BuildTicket(c) \/ BuildStream(c)
  PROVE  UNCHANGED [q \in Calls |-> SlotOf(q)]
<1>1. UNCHANGED <<handle, results>>
  BY DEF GetFlightInfoStatement, CreatePreparedStatement, Explain, ClosePreparedStatement,
         GetFlightInfoPreparedStatement, Dispatch, Acquire, Executed, BuildTicket, BuildStream,
         client, registry, handler
<1>2. Reserved' = Reserved
  <2>1. pc \in [Calls -> Points]
    BY DEF RInv, IInv, TypeOK
  <2>2. CASE UNCHANGED pc
    BY <2>2 DEF Reserved
  <2>3. CASE \E p \in Points : Goto(c, p) /\ (p \in ReservedPoints <=> pc[c] \in ReservedPoints)
    BY <2>1, <2>3 DEF Goto, Reserved, ReservedPoints
  <2> QED
    BY <2>2, <2>3
    DEF GetFlightInfoStatement, CreatePreparedStatement, Explain, ClosePreparedStatement,
        GetFlightInfoPreparedStatement, Dispatch, Acquire, Executed, BuildTicket, BuildStream,
        Throw, Respond, handler, Points, ReservedPoints
<1>3. \A q \in Calls : SlotOf(q)' = SlotOf(q)
  BY <1>1, <1>2, SlotKept DEF Waiting
<1> QED BY <1>3

\* At the start all slots are free.
LEMMA InitSlot == Init => Registry!Init
<1> SUFFICES ASSUME Init PROVE Registry!Init
  OBVIOUS
<1>1. DOMAIN results = {}
  BY EmptyDomain DEF Init
<1>2. \A c \in Calls : SlotOf(c) = "none"
  BY <1>1 DEF Init, SlotOf, Reserved
<1> QED BY <1>2 DEF Registry!Init

\* Every step of the server is a step of the registry or none.
LEMMA NextSlot == RInv /\ [Next]_vars => [Registry!Next]_([c \in Calls |-> SlotOf(c)])
<1> SUFFICES ASSUME RInv, [Next]_vars
             PROVE  Registry!Next \/ UNCHANGED [c \in Calls |-> SlotOf(c)]
  OBVIOUS
<1>1. CASE UNCHANGED vars
  <2>1. UNCHANGED <<pc, handle, results>>
    BY <1>1 DEF vars, handler, client, registry
  <2>2. \A q \in Calls : SlotOf(q)' = SlotOf(q)
    BY <2>1 DEF SlotOf, Reserved
  <2> QED BY <2>2
<1>2. CASE Restart
  BY <1>2, RestartSlot DEF Registry!Next
<1>3. ASSUME NEW c \in Calls, Arrive(c) \/ HandlerStep(c)
      PROVE  Registry!Next \/ UNCHANGED [q \in Calls |-> SlotOf(q)]
  BY <1>3, AdmitSlot, ReleaseSlot, PublishSlot, FetchSlot, PrepareSlot, QuietSlot
  DEF Arrive, HandlerStep, Registry!Next
<1> QED BY <1>1, <1>2, <1>3 DEF Next, AllDone

\* Every behaviour of the server is one of ResultRegistry: ExecuteAndBuffer
\* admits a query only while a slot is free, the slot is kept until the query
\* fails or DoGetStatement takes its result, and a restart empties all slots.
THEOREM Refinement == Spec => ImplementsRegistry
BY InitSlot, NextSlot, RInvariance, PTL DEF Spec, ImplementsRegistry, Registry!Spec

-----------------------------------------------------------------------------
(* While the server is not restarted a ticket redeems the result of the   *)
(* call that issued it, and a prepared handle runs the statement that was *)
(* prepared: handles are unique within one process                        *)

\* A handle is given to one call only, and its number is used up.
Unique ==
  /\ \A c \in Calls : handle[c] # None => handle[c][2] < next_handle
  /\ \A c, d \in Calls : handle[c] # None /\ handle[c] = handle[d] => c = d

\* A call before its arrival has no arguments; the argument of another one is
\* a call that has arrived.
Arrived ==
  \A c \in Calls :
    /\ pc[c] = "new" => sql[c] = None /\ src[c] = None
    /\ src[c] # None => src[c] \in Calls /\ pc[src[c]] # "new"

\* A prepared plan is that of the call that was given its handle.
PlansKept ==
  \A h \in DOMAIN prepared : \E g \in Calls : handle[g] = h /\ prepared[h] = sql[g]

\* The inductive invariant.
HInv == RInv /\ Unique /\ Arrived /\ PlansKept /\ TicketFidelity /\ PreparedFidelity

\* What the steps below keep, given the ownership of entries.
Fidelity == Unique /\ Arrived /\ PlansKept /\ TicketFidelity /\ PreparedFidelity

-----------------------------------------------------------------------------
\* At the start there are no handles.
LEMMA FidelityInit == Init => Fidelity
<1> SUFFICES ASSUME Init PROVE Fidelity
  OBVIOUS
<1>1. DOMAIN results = {} /\ DOMAIN prepared = {}
  BY EmptyDomain DEF Init
<1> QED BY <1>1 DEF Init, Fidelity, Unique, Arrived, PlansKept, TicketFidelity, PreparedFidelity

\* A call with a handle has arrived.
LEMMA HandleArrived ==
  ASSUME RInv, NEW c \in Calls, handle[c] # None
  PROVE  pc[c] \notin Before /\ handle[c] \in {"q", "p"} \X Nat /\ handle[c][2] \in Nat
<1>1. handle[c] \in {None} \cup ({"q", "p"} \X Nat)
  BY DEF RInv, IInv, TypeOK
<1>2. handle[c] \in {"q", "p"} \X Nat
  BY <1>1
<1>3. pc[c] \notin Before
  BY DEF RInv, Owned
<1> QED BY <1>2, <1>3

\* The steps of a call on its way that change neither its arguments nor a
\* registry.
LEMMA QuietFidelity ==
  ASSUME HInv, NEW c \in Calls, NEW p \in Points, Goto(c, p), pc[c] # "new", p # "new",
         UNCHANGED <<sql, src, handle, delivered, results, prepared, next_handle>>
  PROVE  Fidelity'
<1>1. pc \in [Calls -> Points]
  BY DEF HInv, RInv, IInv, TypeOK
<1>2. Arrived'
  BY <1>1 DEF HInv, Arrived, Goto
<1>3. Unique' /\ PlansKept'
  BY DEF HInv, Unique, PlansKept
<1>4. TicketFidelity' /\ PreparedFidelity'
  BY DEF HInv, TicketFidelity, PreparedFidelity
<1> QED BY <1>2, <1>3, <1>4 DEF Fidelity

\* The call c arrives and takes the statement s of no other call.
LEMMA ExplainFidelity ==
  ASSUME HInv, NEW c \in Calls, NEW s \in Statements,
         GetFlightInfoStatement(c, s) \/ CreatePreparedStatement(c, s)
  PROVE  Fidelity'
<1>1. /\ pc \in [Calls -> Points] /\ sql \in [Calls -> Statements \cup {None}]
  BY DEF HInv, RInv, IInv, TypeOK
<1>2. /\ pc[c] = "new" /\ sql' = [sql EXCEPT ![c] = s]
      /\ UNCHANGED <<src, handle, delivered, results, prepared, next_handle>>
  BY DEF GetFlightInfoStatement, CreatePreparedStatement, Explain, client, registry
<1>3. PICK p \in {"admit", "prepare", "done"} : pc' = [pc EXCEPT ![c] = p]
  BY DEF GetFlightInfoStatement, CreatePreparedStatement, Explain, Throw, Respond, Goto
<1>4. src[c] = None /\ handle[c] = None
  BY <1>2 DEF HInv, Arrived, RInv, Owned, Before
<1>5. Unique' /\ TicketFidelity'
  BY <1>2 DEF HInv, Unique, TicketFidelity
<1>6. Arrived'
  BY <1>1, <1>2, <1>3, <1>4 DEF HInv, Arrived
<1>7. PlansKept'
  <2> SUFFICES ASSUME NEW h \in DOMAIN prepared
               PROVE  \E g \in Calls : handle[g] = h /\ prepared[h] = sql'[g]
    BY <1>2 DEF PlansKept
  <2>1. PICK g \in Calls : handle[g] = h /\ prepared[h] = sql[g]
    BY DEF HInv, PlansKept
  <2>2. h # None
    <3>1. h \in {"q", "p"} \X Nat
      BY DEF HInv, RInv, IInv, TypeOK
    <3> QED BY <3>1, HandleAssumption
  <2>3. g # c
    BY <1>4, <2>1, <2>2
  <2> QED BY <1>1, <1>2, <2>1, <2>3
<1>8. PreparedFidelity'
  <2>1. \A d \in Calls : (src'[d] # None /\ sql'[d] # None) => sql'[d] = sql'[src'[d]]
    BY <1>1, <1>2, <1>4 DEF HInv, Arrived, PreparedFidelity
  <2>2. \A h \in DOMAIN results' : results'[h].sql = sql'[results'[h].by]
    BY <1>1, <1>2, EntryTypes DEF HInv, RInv, Owned, PreparedFidelity
  <2> QED BY <2>1, <2>2 DEF PreparedFidelity
<1> QED BY <1>5, <1>6, <1>7, <1>8 DEF Fidelity

\* The handle a result is published under is new.
LEMMA PublishFidelity ==
  ASSUME HInv, NEW c \in Calls, Publish(c)
  PROVE  Fidelity'
<1> DEFINE h0 == <<"q", next_handle>>
<1>1. /\ pc \in [Calls -> Points] /\ next_handle \in Nat
      /\ handle \in [Calls -> {None} \cup ({"q", "p"} \X Nat)]
  BY DEF HInv, RInv, IInv, TypeOK
<1>2. /\ pc[c] = "publish" /\ pc' = [pc EXCEPT ![c] = "ticket"]
      /\ next_handle' = next_handle + 1
      /\ handle' = [handle EXCEPT ![c] = h0]
      /\ UNCHANGED <<delivered, prepared, sql, src>>
  BY DEF Publish, Goto
<1>3. /\ DOMAIN results' = DOMAIN results \cup {h0}
      /\ h0 \notin DOMAIN results
      /\ \A h \in DOMAIN results : results'[h] = results[h]
      /\ results'[h0].by = c /\ results'[h0].sql = sql[c]
  <2>1. h0 \notin DOMAIN results
    <3> SUFFICES ASSUME h0 \in DOMAIN results PROVE FALSE
      OBVIOUS
    <3>1. h0[2] < next_handle
      BY DEF HInv, RInv, Owned
    <3> QED BY <1>1, <3>1
  <2>2. results' = Emplace(results, h0, [sql |-> sql[c], by |-> c])
    BY DEF Publish
  <2> HIDE DEF h0
  <2> QED BY <2>1, <2>2 DEF Emplace
<1>4. \A d \in Calls : handle[d] # None => handle[d] # h0 /\ d # c
  <2> SUFFICES ASSUME NEW d \in Calls, handle[d] # None
               PROVE  handle[d] # h0 /\ d # c
    OBVIOUS
  <2>1. pc[d] \notin Before /\ handle[d][2] \in Nat /\ handle[d][2] < next_handle
    BY HandleArrived DEF HInv, Unique
  <2> QED BY <1>1, <1>2, <2>1 DEF Before
<1>5. Unique'
  <2>1. ASSUME NEW d \in Calls, handle'[d] # None
        PROVE  handle'[d][2] < next_handle'
    <3>1. CASE d = c
      <4>1. handle'[d] = <<"q", next_handle>>
        BY <1>1, <1>2, <3>1
      <4> QED BY <1>1, <1>2, <4>1
    <3>2. CASE d # c
      <4>1. handle'[d] = handle[d]
        BY <1>1, <1>2, <3>2
      <4>2. handle[d][2] \in Nat /\ handle[d][2] < next_handle
        BY <2>1, <4>1, HandleArrived DEF HInv, Unique
      <4> QED BY <1>1, <1>2, <4>1, <4>2
    <3> QED BY <3>1, <3>2
  <2>2. \A d, e \in Calls : handle'[d] # None /\ handle'[d] = handle'[e] => d = e
    BY <1>1, <1>2, <1>4, HandleAssumption DEF HInv, Unique
  <2> QED BY <2>1, <2>2 DEF Unique
<1>6. Arrived'
  BY <1>1, <1>2 DEF HInv, Arrived
<1>7. PlansKept'
  <2> SUFFICES ASSUME NEW h \in DOMAIN prepared
               PROVE  \E g \in Calls : handle'[g] = h /\ prepared[h] = sql[g]
    BY <1>2 DEF PlansKept
  <2>1. PICK g \in Calls : handle[g] = h /\ prepared[h] = sql[g]
    BY DEF HInv, PlansKept
  <2>2. h # None
    <3>1. h \in {"q", "p"} \X Nat
      BY DEF HInv, RInv, IInv, TypeOK
    <3> QED BY <3>1, HandleAssumption
  <2> QED BY <1>1, <1>2, <1>4, <2>1, <2>2
<1>8. TicketFidelity'
  BY <1>2 DEF HInv, TicketFidelity
<1>9. PreparedFidelity'
  BY <1>2, <1>3 DEF HInv, PreparedFidelity
<1> QED BY <1>5, <1>6, <1>7, <1>8, <1>9 DEF Fidelity

\* The handle a plan is kept under is new.
LEMMA PrepareFidelity ==
  ASSUME HInv, NEW c \in Calls, Prepare(c)
  PROVE  Fidelity'
<1> DEFINE h0 == <<"p", next_handle>>
<1>1. /\ pc \in [Calls -> Points] /\ next_handle \in Nat
      /\ handle \in [Calls -> {None} \cup ({"q", "p"} \X Nat)]
  BY DEF HInv, RInv, IInv, TypeOK
<1>2. pc[c] = "prepare" /\ Goto(c, "done") /\ UNCHANGED <<delivered, results, sql, src>>
  BY DEF Prepare, Respond
<1>3. CASE Cardinality(DOMAIN prepared) >= MaxPendingResults
  <2>1. UNCHANGED <<handle, prepared, next_handle>>
    BY <1>3 DEF Prepare
  <2> QED BY <1>2, <2>1, QuietFidelity DEF Points
<1>4. CASE ~(Cardinality(DOMAIN prepared) >= MaxPendingResults)
  <2>1. /\ next_handle' = next_handle + 1
        /\ handle' = [handle EXCEPT ![c] = h0]
        /\ prepared' = Emplace(prepared, h0, sql[c])
    BY <1>4 DEF Prepare
  <2>2. \A d \in Calls : handle[d] # None => handle[d] # h0 /\ d # c
    <3> SUFFICES ASSUME NEW d \in Calls, handle[d] # None
                 PROVE  handle[d] # h0 /\ d # c
      OBVIOUS
    <3>1. pc[d] \notin Before /\ handle[d][2] \in Nat /\ handle[d][2] < next_handle
      BY HandleArrived DEF HInv, Unique
    <3> QED BY <1>1, <1>2, <3>1 DEF Before
  <2>3. \A h \in DOMAIN prepared : h # None /\ h # h0
    <3> SUFFICES ASSUME NEW h \in DOMAIN prepared PROVE h # None /\ h # h0
      OBVIOUS
    <3>1. h \in {"q", "p"} \X Nat
      BY DEF HInv, RInv, IInv, TypeOK
    <3>2. PICK g \in Calls : handle[g] = h
      BY DEF HInv, PlansKept
    <3> QED BY <2>2, <3>1, <3>2, HandleAssumption
  <2>4. /\ DOMAIN prepared' = DOMAIN prepared \cup {h0}
        /\ \A h \in DOMAIN prepared : prepared'[h] = prepared[h]
        /\ prepared'[h0] = sql[c]
    BY <2>1, <2>3 DEF Emplace
  <2>5. Unique'
    <3>1. ASSUME NEW d \in Calls, handle'[d] # None
          PROVE  handle'[d][2] < next_handle'
      <4>1. CASE d = c
        <5>1. handle'[d] = <<"p", next_handle>>
          BY <1>1, <2>1, <4>1
        <5> QED BY <1>1, <2>1, <5>1
      <4>2. CASE d # c
        <5>1. handle'[d] = handle[d]
          BY <1>1, <2>1, <4>2
        <5>2. handle[d][2] \in Nat /\ handle[d][2] < next_handle
          BY <3>1, <5>1, HandleArrived DEF HInv, Unique
        <5> QED BY <1>1, <2>1, <5>1, <5>2
      <4> QED BY <4>1, <4>2
    <3>2. \A d, e \in Calls : handle'[d] # None /\ handle'[d] = handle'[e] => d = e
      BY <1>1, <2>1, <2>2, HandleAssumption DEF HInv, Unique
    <3> QED BY <3>1, <3>2 DEF Unique
  <2>6. Arrived'
    BY <1>1, <1>2 DEF HInv, Arrived, Goto
  <2>7. PlansKept'
    <3> SUFFICES ASSUME NEW h \in DOMAIN prepared'
                 PROVE  \E g \in Calls : handle'[g] = h /\ prepared'[h] = sql[g]
      BY <1>2 DEF PlansKept
    <3>1. CASE h = h0
      BY <1>1, <2>1, <2>4, <3>1
    <3>2. CASE h \in DOMAIN prepared
      <4>1. PICK g \in Calls : handle[g] = h /\ prepared[h] = sql[g]
        BY <3>2 DEF HInv, PlansKept
      <4>2. g # c
        BY <2>2, <2>3, <3>2, <4>1
      <4> QED BY <1>1, <2>1, <2>4, <3>2, <4>1, <4>2
    <3> QED BY <2>4, <3>1, <3>2
  <2>8. TicketFidelity' /\ PreparedFidelity'
    BY <1>2 DEF HInv, TicketFidelity, PreparedFidelity
  <2> QED BY <2>5, <2>6, <2>7, <2>8 DEF Fidelity
<1> QED BY <1>3, <1>4

\* The call c arrives with the handle of g, which has arrived before.
LEMMA HandedOver ==
  ASSUME HInv, NEW kind, NEW c \in Calls, NEW g \in Issuers(kind), pc[c] = "new"
  PROVE  /\ g \in Calls /\ g # c /\ pc[g] # "new" /\ handle[g] # None
         /\ sql[c] = None /\ src[c] = None /\ handle[c] = None /\ delivered[c] = None
         /\ \A d \in Calls : src[d] # c
<1>1. g \in Calls /\ handle[g] # None
  BY DEF Issuers
<1>2. pc[g] \notin Before
  BY <1>1, HandleArrived DEF HInv
<1>3. sql[c] = None /\ src[c] = None /\ \A d \in Calls : src[d] # c
  BY NoneAssumption DEF HInv, Arrived
<1>4. handle[c] = None /\ delivered[c] = None
  BY DEF HInv, RInv, Owned, Spent, Before
<1> QED BY <1>1, <1>2, <1>3, <1>4 DEF Before

\* What all calls with the handle of another one do to the arguments.
LEMMA ArgumentFidelity ==
  ASSUME HInv, NEW kind, NEW c \in Calls, NEW g \in Issuers(kind), pc[c] = "new",
         NEW p \in Points \ {"new"}, Goto(c, p), src' = [src EXCEPT ![c] = g]
  PROVE  /\ \A d \in Calls : pc'[d] = "new" => d # c /\ sql[d] = None /\ src'[d] = None
         /\ \A d \in Calls : src'[d] # None => src'[d] \in Calls /\ pc'[src'[d]] # "new"
<1>1. pc \in [Calls -> Points] /\ src \in [Calls -> Calls \cup {None}]
  BY DEF HInv, RInv, IInv, TypeOK
<1>2. g \in Calls /\ g # c /\ pc[g] # "new"
  BY HandedOver
<1> QED BY <1>1, <1>2 DEF HInv, Arrived, Goto

\* Closing a statement removes a plan and changes no other.
LEMMA CloseFidelity ==
  ASSUME HInv, NEW c \in Calls, NEW g \in Issuers("p"), ClosePreparedStatement(c, g)
  PROVE  Fidelity'
<1>1. src \in [Calls -> Calls \cup {None}]
  BY DEF HInv, RInv, IInv, TypeOK
<1>2. /\ pc[c] = "new" /\ Goto(c, "done") /\ src' = [src EXCEPT ![c] = g]
      /\ UNCHANGED <<sql, handle, delivered, results, next_handle>>
      /\ DOMAIN prepared' = DOMAIN prepared \ {handle[g]}
      /\ \A h \in DOMAIN prepared' : prepared'[h] = prepared[h]
  BY DEF ClosePreparedStatement, Respond, Erase, client
<1>3. sql[c] = None /\ delivered[c] = None
  BY <1>2, HandedOver
<1>4. Arrived'
  BY <1>2, ArgumentFidelity DEF Arrived, Points
<1>5. Unique' /\ PlansKept'
  <2>1. Unique'
    BY <1>2 DEF HInv, Unique
  <2>2. \A h \in DOMAIN prepared' : h \in DOMAIN prepared /\ prepared'[h] = prepared[h]
    BY <1>2
  <2>3. PlansKept'
    <3> SUFFICES ASSUME NEW h \in DOMAIN prepared'
                 PROVE  \E d \in Calls : handle[d] = h /\ prepared'[h] = sql[d]
      BY <1>2 DEF PlansKept
    <3>1. PICK d \in Calls : handle[d] = h /\ prepared[h] = sql[d]
      BY <2>2 DEF HInv, PlansKept
    <3>2. prepared'[h] = prepared[h]
      BY <2>2
    <3> QED BY <3>1, <3>2
  <2> QED BY <2>1, <2>3
<1>6. TicketFidelity' /\ PreparedFidelity'
  BY <1>1, <1>2, <1>3 DEF HInv, TicketFidelity, PreparedFidelity
<1> QED BY <1>4, <1>5, <1>6 DEF Fidelity

\* The plan found under a handle is the one of the call that was given it.
LEMMA ExecuteFidelity ==
  ASSUME HInv, NEW c \in Calls, NEW g \in Issuers("p"), GetFlightInfoPreparedStatement(c, g)
  PROVE  Fidelity'
<1>1. /\ src \in [Calls -> Calls \cup {None}]
      /\ sql \in [Calls -> Statements \cup {None}]
  BY DEF HInv, RInv, IInv, TypeOK
<1>2. /\ pc[c] = "new" /\ src' = [src EXCEPT ![c] = g]
      /\ UNCHANGED <<handle, delivered, results, prepared, next_handle>>
      /\ \A d \in Calls \ {c} : sql'[d] = sql[d]
  BY <1>1 DEF GetFlightInfoPreparedStatement, client, registry
<1>3. PICK p \in {"admit", "done"} : Goto(c, p)
  BY DEF GetFlightInfoPreparedStatement, Respond
<1>4. /\ g \in Calls /\ g # c /\ handle[g] # None /\ handle[c] = None
      /\ delivered[c] = None /\ \A d \in Calls : src[d] # c
  BY <1>2, HandedOver
<1>5. sql'[c] = sql[c] \/ sql'[c] = sql[g]
  <2>1. CASE handle[g] \in DOMAIN prepared
    <3>1. PICK f \in Calls : handle[f] = handle[g] /\ prepared[handle[g]] = sql[f]
      BY <2>1 DEF HInv, PlansKept
    <3>2. f = g
      BY <1>4, <3>1 DEF HInv, Unique
    <3> QED BY <1>1, <2>1, <3>1, <3>2 DEF GetFlightInfoPreparedStatement
  <2>2. CASE handle[g] \notin DOMAIN prepared
    BY <2>2 DEF GetFlightInfoPreparedStatement
  <2> QED BY <2>1, <2>2
<1>6. Arrived'
  <2>1. p \in Points \ {"new"}
    BY DEF Points
  <2> QED BY <1>2, <1>3, <2>1, ArgumentFidelity DEF Arrived
<1>7. Unique'
  BY <1>2 DEF HInv, Unique
<1>8. PlansKept'
  <2> SUFFICES ASSUME NEW h \in DOMAIN prepared
               PROVE  \E f \in Calls : handle[f] = h /\ prepared[h] = sql'[f]
    BY <1>2 DEF PlansKept
  <2>1. PICK f \in Calls : handle[f] = h /\ prepared[h] = sql[f]
    BY DEF HInv, PlansKept
  <2>2. h # None
    <3>1. h \in {"q", "p"} \X Nat
      BY DEF HInv, RInv, IInv, TypeOK
    <3> QED BY <3>1, HandleAssumption
  <2>3. f # c
    BY <1>4, <2>1, <2>2
  <2> QED BY <1>2, <2>1, <2>3
<1>9. TicketFidelity'
  BY <1>1, <1>2, <1>4 DEF HInv, TicketFidelity
<1>10. PreparedFidelity'
  <2>1. sql[c] = None
    BY <1>2, HandedOver
  <2>2. ASSUME NEW d \in Calls, src'[d] # None, sql'[d] # None
        PROVE  sql'[d] = sql'[src'[d]]
    <3>1. CASE d = c
      BY <1>1, <1>2, <1>4, <1>5, <2>1, <2>2, <3>1
    <3>2. CASE d # c
      BY <1>1, <1>2, <1>4, <2>2, <3>2 DEF HInv, PreparedFidelity
    <3> QED BY <3>1, <3>2
  <2>3. ASSUME NEW h \in DOMAIN results'
        PROVE  results'[h].sql = sql'[results'[h].by]
    <3>1. results[h].by \in Calls /\ results[h].by # c
      BY <1>2, EntryTypes DEF HInv, RInv, Owned
    <3> QED BY <1>2, <3>1 DEF HInv, PreparedFidelity
  <2> QED BY <2>2, <2>3 DEF PreparedFidelity
<1> QED BY <1>6, <1>7, <1>8, <1>9, <1>10 DEF Fidelity

\* The result found under a handle is the one of the call that was given it.
LEMMA FetchFidelity ==
  ASSUME HInv, NEW c \in Calls, NEW g \in Issuers("q"), DoGetStatement(c, g)
  PROVE  Fidelity'
<1>1. /\ src \in [Calls -> Calls \cup {None}]
      /\ delivered \in [Calls -> Results \cup {None}]
  BY DEF HInv, RInv, IInv, TypeOK
<1>2. /\ pc[c] = "new" /\ src' = [src EXCEPT ![c] = g]
      /\ UNCHANGED <<sql, handle, prepared, next_handle>>
      /\ DOMAIN results' \subseteq DOMAIN results
      /\ \A h \in DOMAIN results' : results'[h] = results[h]
      /\ \A d \in Calls \ {c} : delivered'[d] = delivered[d]
  BY <1>1 DEF DoGetStatement, Erase
<1>3. PICK p \in {"stream", "done"} : Goto(c, p)
  BY DEF DoGetStatement, Respond
<1>4. g \in Calls /\ handle[g] # None /\ sql[c] = None /\ delivered[c] = None
  BY <1>2, HandedOver
<1>5. delivered'[c] # None => delivered'[c].by = g
  <2>1. CASE handle[g] \in DOMAIN results
    <3>1. /\ results[handle[g]].by \in Calls
          /\ handle[results[handle[g]].by] = handle[g]
      BY <2>1, EntryTypes DEF HInv, RInv, Owned
    <3>2. results[handle[g]].by = g
      BY <1>4, <3>1 DEF HInv, Unique
    <3> QED BY <1>1, <2>1, <3>2 DEF DoGetStatement
  <2>2. CASE handle[g] \notin DOMAIN results
    BY <1>4, <2>2 DEF DoGetStatement
  <2> QED BY <2>1, <2>2
<1>6. Arrived'
  <2>1. p \in Points \ {"new"}
    BY DEF Points
  <2> QED BY <1>2, <1>3, <2>1, ArgumentFidelity DEF Arrived
<1>7. Unique' /\ PlansKept'
  BY <1>2 DEF HInv, Unique, PlansKept
<1>8. TicketFidelity'
  BY <1>1, <1>2, <1>5 DEF HInv, TicketFidelity
<1>9. PreparedFidelity'
  BY <1>1, <1>2, <1>4 DEF HInv, PreparedFidelity
<1> QED BY <1>6, <1>7, <1>8, <1>9 DEF Fidelity

\* The remaining steps of a handler.
LEMMA HandlerFidelity ==
  ASSUME HInv, NEW c \in Calls,
         Admit(c) \/ Executed(c) \/ Release(c) \/ BuildTicket(c) \/ BuildStream(c)
  PROVE  Fidelity'
<1>1. /\ UNCHANGED <<sql, src, handle, delivered, results, prepared, next_handle>>
      /\ pc[c] # "new"
  BY DEF Admit, Executed, Release, BuildTicket, BuildStream, client, registry
<1>2. PICK p \in {"execute", "publish", "release", "done"} : Goto(c, p)
  BY DEF Admit, Executed, Release, BuildTicket, BuildStream, Throw, Respond
<1> QED BY <1>1, <1>2, QuietFidelity DEF Points

\* Every step but a restart keeps the invariant.
LEMMA HNext == MaxRestarts = 0 /\ HInv /\ [Next]_vars => HInv'
<1> SUFFICES ASSUME MaxRestarts = 0, HInv, [Next]_vars PROVE HInv'
  OBVIOUS
<1>1. RInv'
  BY RNext DEF HInv
<1>2. CASE UNCHANGED <<pc, sql, src, handle, delivered, results, prepared, next_handle>>
  <2>1. Unique' /\ Arrived' /\ PlansKept'
    BY <1>2 DEF HInv, Unique, Arrived, PlansKept
  <2>2. TicketFidelity' /\ PreparedFidelity'
    BY <1>2 DEF HInv, TicketFidelity, PreparedFidelity
  <2> QED BY <1>1, <2>1, <2>2 DEF HInv
<1>3. CASE UNCHANGED vars
  BY <1>2, <1>3 DEF vars, handler, client, registry
<1>4. ASSUME NEW c \in Calls, Arrive(c) \/ HandlerStep(c)
      PROVE  HInv'
  <2>1. CASE Dispatch(c) \/ Acquire(c)
    BY <1>2, <2>1 DEF Dispatch, Acquire, handler, client, registry
  <2>2. Fidelity' \/ Dispatch(c) \/ Acquire(c)
    BY <1>4, ExplainFidelity, CloseFidelity, ExecuteFidelity, FetchFidelity, HandlerFidelity,
       PublishFidelity, PrepareFidelity
    DEF Arrive, HandlerStep
  <2> QED BY <1>1, <2>1, <2>2 DEF HInv, Fidelity
<1>5. ~Restart
  BY DEF Restart, HInv, RInv, IInv, TypeOK
<1> QED BY <1>3, <1>4, <1>5 DEF Next, AllDone

\* The invariant holds of every behaviour of one process.
LEMMA HInvariance == ASSUME MaxRestarts = 0 PROVE Spec => []HInv
<1>1. Init => HInv
  <2>1. Init => RInv
    BY InitInv, OwnedInit DEF RInv
  <2> QED BY <2>1, FidelityInit DEF HInv, Fidelity
<1>2. HInv /\ [Next]_vars => HInv'
  BY HNext
<1> QED BY <1>1, <1>2, PTL DEF Spec

\* While the server is not restarted, redeeming a ticket delivers the result of
\* the call that issued it (DoGetStatement finds it by a handle that no other
\* call was given).
THEOREM FaithfulTickets == ASSUME MaxRestarts = 0 PROVE Spec => []TicketFidelity
<1>1. HInv => TicketFidelity
  BY DEF HInv
<1> QED BY <1>1, HInvariance, PTL

\* While the server is not restarted, a prepared handle runs the statement it
\* was given for, also when it is closed meanwhile, and a buffered result is
\* that of its own statement.
THEOREM FaithfulPlans == ASSUME MaxRestarts = 0 PROVE Spec => []PreparedFidelity
<1>1. HInv => PreparedFidelity
  BY DEF HInv
<1> QED BY <1>1, HInvariance, PTL

=============================================================================
