----------------------- MODULE FlightSqlServerProofs -----------------------
(***************************************************************************)
(* For every set of calls, cap, backend and device layout: the state of    *)
(* the Flight SQL server is well typed, its reservation counter is exact,  *)
(* and the cap on buffered results holds under any interleaving of calls;  *)
(* the coordinator shares its devices evenly and within their permits.     *)
(***************************************************************************)
EXTENDS FlightSqlServer, FiniteSetTheorems, TLAPS

USE CapAssumption, BackendAssumption, CallsAssumption, NoneAssumption,
    DeviceAssumption, PermitAssumption

\* The handler variables alone.
HandlerTypeOK ==
  /\ pc \in [Calls -> Points]
  /\ sql \in [Calls -> Statements \cup {None}]
  /\ src \in [Calls -> Calls \cup {None}]
  /\ error \in [Calls -> ExecErrors \cup {None}]
  /\ status \in [Calls -> Statuses \cup {None}]
  /\ handle \in [Calls -> {None} \cup ({"q", "p"} \X Nat)]
  /\ delivered \in [Calls -> Results \cup {None}]

\* A call that has reached a point where its statement is used has one.
SqlKnown ==
  \A c \in Calls :
    pc[c] \in {"admit", "execute", "release", "publish", "prepare"} =>
      sql[c] \in Statements

\* The conjunction that is inductive.
IInv == TypeOK /\ SqlKnown /\ PendingExact /\ CapRespected

-----------------------------------------------------------------------------
\* Every exception class maps to a status (ToFlightStatus is total).
LEMMA StatusTotal == \A e : ToFlightStatus(e) \in Statuses
  BY DEF ToFlightStatus, Statuses, SqlErrors

\* Erasing a handle keeps a registry finite, no larger, and of its type.
LEMMA EraseFacts ==
  ASSUME NEW f, NEW h, NEW V, f \in [DOMAIN f -> V], IsFiniteSet(DOMAIN f)
  PROVE  /\ DOMAIN Erase(f, h) = DOMAIN f \ {h}
         /\ Erase(f, h) \in [DOMAIN Erase(f, h) -> V]
         /\ IsFiniteSet(DOMAIN Erase(f, h))
         /\ Cardinality(DOMAIN Erase(f, h)) <= Cardinality(DOMAIN f)
<1>1. DOMAIN Erase(f, h) = DOMAIN f \ {h}
  BY DEF Erase
<1>2. Erase(f, h) \in [DOMAIN f \ {h} -> V]
  BY DEF Erase
<1>3. IsFiniteSet(DOMAIN f \ {h})
      /\ Cardinality(DOMAIN f \ {h}) <= Cardinality(DOMAIN f)
  BY FS_Subset
<1>. QED
  BY <1>1, <1>2, <1>3

\* Emplacing a handle adds at most one entry to a registry.
LEMMA EmplaceFacts ==
  ASSUME NEW f, NEW h, NEW V, NEW v \in V, f \in [DOMAIN f -> V],
         IsFiniteSet(DOMAIN f)
  PROVE  /\ DOMAIN Emplace(f, h, v) = DOMAIN f \cup {h}
         /\ Emplace(f, h, v) \in [DOMAIN Emplace(f, h, v) -> V]
         /\ IsFiniteSet(DOMAIN Emplace(f, h, v))
         /\ Cardinality(DOMAIN Emplace(f, h, v)) <= Cardinality(DOMAIN f) + 1
<1>1. DOMAIN Emplace(f, h, v) = DOMAIN f \cup {h}
  BY DEF Emplace
<1>2. Emplace(f, h, v) \in [DOMAIN f \cup {h} -> V]
  BY DEF Emplace
<1>3. IsFiniteSet(DOMAIN f \cup {h})
      /\ Cardinality(DOMAIN f \cup {h}) <= Cardinality(DOMAIN f) + 1
  <2>. DEFINE D == DOMAIN f
  <2>1. /\ IsFiniteSet(D \cup {h})
        /\ Cardinality(D \cup {h}) =
             IF h \in D THEN Cardinality(D) ELSE Cardinality(D) + 1
    BY FS_AddElement
  <2>2. Cardinality(D) \in Nat
    BY FS_CardinalityType
  <2>. HIDE DEF D
  <2>3. Cardinality(D \cup {h}) <= Cardinality(D) + 1
    BY <2>1, <2>2
  <2>. QED
    BY <2>1, <2>3 DEF D
<1>. QED
  BY <1>1, <1>2, <1>3

\* What a step of the coordinator does to its types.
LEMMA CoordinatorTypes ==
  ASSUME Coordinator!GpuTypeOK, NEW c \in Calls,
         \/ UNCHANGED coordinator
         \/ Coordinator!Dispatch(c)
         \/ Coordinator!Acquire(c)
         \/ Coordinator!Leave(c)
         \/ Coordinator!GpuRestart
  PROVE  Coordinator!GpuTypeOK'
<1>. USE DEF Coordinator!GpuTypeOK, Coordinator!Devices
<1>1. CASE UNCHANGED coordinator
  BY <1>1 DEF coordinator
<1>2. CASE Coordinator!Dispatch(c)
  BY <1>2 DEF Coordinator!Dispatch
<1>3. CASE Coordinator!Acquire(c)
  <2>1. permits' = [permits EXCEPT ![device[c]] = @ - 1]
    BY <1>3 DEF Coordinator!Acquire
  <2>2. ASSUME NEW d \in 0..(DeviceCount - 1)  PROVE permits'[d] \in Nat
    <3>1. CASE d = device[c]
      BY <1>3, <2>1, <3>1 DEF Coordinator!Acquire
    <3>2. CASE d # device[c]
      BY <2>1, <3>2
    <3>. QED
      BY <3>1, <3>2
  <2>3. permits' \in [0..(DeviceCount - 1) -> Nat]
    BY <2>1, <2>2
  <2>. QED
    BY <1>3, <2>3 DEF Coordinator!Acquire
<1>4. CASE Coordinator!Leave(c)
  <2>1. permits' = [permits EXCEPT ![device[c]] = @ + 1]
    BY <1>4 DEF Coordinator!Leave
  <2>2. ASSUME NEW d \in 0..(DeviceCount - 1)  PROVE permits'[d] \in Nat
    <3>1. CASE d = device[c]
      BY <1>4, <2>1, <3>1 DEF Coordinator!Leave
    <3>2. CASE d # device[c]
      BY <2>1, <3>2
    <3>. QED
      BY <3>1, <3>2
  <2>3. permits' \in [0..(DeviceCount - 1) -> Nat]
    BY <2>1, <2>2
  <2>. QED
    BY <1>4, <2>3 DEF Coordinator!Leave
<1>5. CASE Coordinator!GpuRestart
  BY <1>5 DEF Coordinator!GpuRestart
<1>. QED
  BY <1>1, <1>2, <1>3, <1>4, <1>5

-----------------------------------------------------------------------------
ReservedPoints == {"execute", "release", "publish"}

\* The registries and their counters alone.
RegistryTypeOK ==
  /\ DOMAIN results \subseteq {"q"} \X Nat /\ IsFiniteSet(DOMAIN results)
  /\ results \in [DOMAIN results -> Results]
  /\ DOMAIN prepared \subseteq {"p"} \X Nat /\ IsFiniteSet(DOMAIN prepared)
  /\ prepared \in [DOMAIN prepared -> Statements]
  /\ pending_count \in Nat
  /\ next_handle \in Nat
  /\ restarts \in Nat

\* The type invariant is that of its three parts.
LEMMA TypeParts ==
  TypeOK <=> HandlerTypeOK /\ RegistryTypeOK /\ Coordinator!GpuTypeOK
  BY DEF TypeOK, HandlerTypeOK, RegistryTypeOK

\* The calls holding a reservation are finitely many.
LEMMA ReservedFinite == IsFiniteSet(Reserved) /\ Cardinality(Reserved) \in Nat
<1>1. Reserved \subseteq Calls
  BY DEF Reserved
<1>. QED
  BY <1>1, FS_Subset, FS_CardinalityType

\* Entering a reserved point from outside adds one reservation.
LEMMA ReserveOne ==
  ASSUME NEW c \in Calls, pc \in [Calls -> Points],
         pc[c] \notin ReservedPoints, NEW p \in ReservedPoints, Goto(c, p)
  PROVE  Cardinality(Reserved') = Cardinality(Reserved) + 1
<1>1. Reserved' = Reserved \cup {c} /\ c \notin Reserved
  BY DEF Reserved, ReservedPoints, Goto
<1>. QED
  BY <1>1, ReservedFinite, FS_AddElement

\* Leaving the reserved points gives one reservation back; there was one.
LEMMA ReleaseOne ==
  ASSUME NEW c \in Calls, pc \in [Calls -> Points],
         pc[c] \in ReservedPoints, NEW p, p \notin ReservedPoints, Goto(c, p)
  PROVE  /\ Cardinality(Reserved') = Cardinality(Reserved) - 1
         /\ Cardinality(Reserved') \in Nat
<1>1. Reserved' = Reserved \ {c} /\ c \in Reserved
  BY DEF Reserved, ReservedPoints, Goto
<1>2. IsFiniteSet(Reserved') /\ Cardinality(Reserved') \in Nat
  <2>1. Reserved' \subseteq Calls
    BY DEF Reserved
  <2>. QED
    BY <2>1, FS_Subset, FS_CardinalityType
<1>. QED
  BY <1>1, <1>2, ReservedFinite, FS_RemoveElement

\* A step that neither crosses the border of the reserved points nor touches
\* the registries keeps the invariant if it is well typed.
LEMMA QuietStep ==
  ASSUME IInv, UNCHANGED <<registry, restarts>>, NEW c \in Calls, NEW p,
         Goto(c, p), (pc[c] \in ReservedPoints) <=> (p \in ReservedPoints),
         HandlerTypeOK', SqlKnown', Coordinator!GpuTypeOK'
  PROVE  IInv'
<1>1. RegistryTypeOK'
  <2>1. RegistryTypeOK
    BY TypeParts DEF IInv
  <2>. QED
    BY <2>1 DEF RegistryTypeOK, registry
<1>2. TypeOK'
  BY <1>1, TypeParts DEF TypeOK, HandlerTypeOK, RegistryTypeOK
<1>3. Reserved' = Reserved
  BY DEF IInv, TypeOK, Reserved, ReservedPoints, Goto
<1>4. PendingExact' /\ CapRespected'
  BY <1>3 DEF IInv, PendingExact, CapRespected, Held, registry
<1>. QED
  BY <1>2, <1>4 DEF IInv

-----------------------------------------------------------------------------
\* A registry starts without handles.
LEMMA EmptyDomain == DOMAIN <<>> = {}
  OBVIOUS

\* The initial state satisfies the invariant.
LEMMA InitInv == Init => IInv
<1>. SUFFICES ASSUME Init PROVE IInv
  OBVIOUS
<1>1. HandlerTypeOK
  BY DEF Init, HandlerTypeOK, Points
<1>2. DOMAIN results = {} /\ DOMAIN prepared = {}
  <2>1. results = <<>> /\ prepared = <<>>
    BY DEF Init
  <2>. QED
    BY <2>1, EmptyDomain
<1>3. RegistryTypeOK
  BY <1>2, FS_EmptySet DEF Init, RegistryTypeOK
<1>4. Coordinator!GpuTypeOK
  BY DEF Init, Coordinator!GpuInit, Coordinator!GpuTypeOK, Coordinator!Devices
<1>5. Reserved = {}
  BY DEF Init, Reserved
<1>6. PendingExact /\ CapRespected
  BY <1>2, <1>5, FS_EmptySet
  DEF Init, PendingExact, CapRespected, Held
<1>7. SqlKnown
  BY DEF Init, SqlKnown
<1>. QED
  BY <1>1, <1>3, <1>4, <1>6, <1>7, TypeParts DEF IInv

\* The cap check and reservation of ExecuteAndBuffer.
LEMMA AdmitStep ==
  ASSUME IInv, NEW c \in Calls, Admit(c)  PROVE IInv'
<1>. USE DEF IInv
<1>1. HandlerTypeOK /\ RegistryTypeOK /\ Coordinator!GpuTypeOK
  BY TypeParts
<1>2. Coordinator!GpuTypeOK'
  BY <1>1, CoordinatorTypes DEF Admit
<1>3. HandlerTypeOK'
  BY <1>1, StatusTotal
  DEF Admit, HandlerTypeOK, Throw, Respond, Goto, Points, client
<1>4. SqlKnown'
  BY <1>1 DEF HandlerTypeOK, SqlKnown, Admit, Throw, Respond, Goto
<1>5. CASE Held >= MaxPendingResults
  <2>1. UNCHANGED <<registry, restarts>> /\ Goto(c, "done")
    BY <1>5 DEF Admit, Throw, Respond, registry
  <2>. QED
    BY <1>2, <1>3, <1>4, <2>1, QuietStep DEF Admit, ReservedPoints
<1>6. CASE ~(Held >= MaxPendingResults)
  <2>1. /\ pending_count' = pending_count + 1 /\ Goto(c, "execute")
        /\ UNCHANGED <<results, prepared, next_handle, restarts>>
    BY <1>6 DEF Admit
  <2>2. Cardinality(Reserved') = Cardinality(Reserved) + 1
    BY <1>1, <2>1, ReserveOne DEF Admit, ReservedPoints, HandlerTypeOK
  <2>3. PendingExact'
    BY <2>1, <2>2 DEF PendingExact
  <2>4. Cardinality(DOMAIN results) \in Nat
    BY <1>1, FS_CardinalityType DEF RegistryTypeOK
  <2>5. CapRespected'
    BY <1>1, <1>6, <2>1, <2>4 DEF CapRespected, Held, RegistryTypeOK
  <2>6. RegistryTypeOK'
    BY <1>1, <2>1 DEF RegistryTypeOK
  <2>. QED
    BY <1>2, <1>3, <1>4, <2>3, <2>5, <2>6, TypeParts
    DEF TypeOK, HandlerTypeOK, RegistryTypeOK
<1>. QED
  BY <1>5, <1>6

\* The catch blocks of ExecuteAndBuffer.
LEMMA ReleaseStep ==
  ASSUME IInv, NEW c \in Calls, Release(c)  PROVE IInv'
<1>. USE DEF IInv
<1>1. HandlerTypeOK /\ RegistryTypeOK /\ Coordinator!GpuTypeOK
  BY TypeParts
<1>2. Coordinator!GpuTypeOK'
  BY <1>1, CoordinatorTypes DEF Release
<1>3. HandlerTypeOK'
  BY <1>1, StatusTotal
  DEF Release, HandlerTypeOK, Throw, Respond, Goto, Points, client
<1>4. SqlKnown'
  BY <1>1 DEF HandlerTypeOK, SqlKnown, Release, Throw, Respond, Goto
<1>5. Goto(c, "done") /\ pending_count' = pending_count - 1
  BY DEF Release, Throw, Respond
<1>6. /\ Cardinality(Reserved') = Cardinality(Reserved) - 1
      /\ Cardinality(Reserved') \in Nat
  BY <1>1, <1>5, ReleaseOne DEF Release, ReservedPoints, HandlerTypeOK
<1>7. PendingExact' /\ pending_count' \in Nat
  BY <1>5, <1>6 DEF PendingExact
<1>8. RegistryTypeOK'
  BY <1>1, <1>7 DEF RegistryTypeOK, Release
<1>9. CapRespected'
  <2>1. Cardinality(DOMAIN results) \in Nat
    BY <1>1, FS_CardinalityType DEF RegistryTypeOK
  <2>. QED
    BY <1>1, <1>5, <2>1 DEF CapRespected, Held, RegistryTypeOK, Release
<1>. QED
  BY <1>2, <1>3, <1>4, <1>7, <1>8, <1>9
  DEF TypeOK, HandlerTypeOK, RegistryTypeOK

\* A reservation becomes a buffered result.
LEMMA PublishStep ==
  ASSUME IInv, NEW c \in Calls, Publish(c)  PROVE IInv'
<1>. USE DEF IInv
<1>. DEFINE h == <<"q", next_handle>>
            r == [sql |-> sql[c], by |-> c]
<1>1. HandlerTypeOK /\ RegistryTypeOK /\ Coordinator!GpuTypeOK
  BY TypeParts
<1>2. Coordinator!GpuTypeOK'
  BY <1>1, CoordinatorTypes DEF Publish
<1>3. HandlerTypeOK'
  BY <1>1 DEF Publish, HandlerTypeOK, RegistryTypeOK, Goto, Points
<1>4. SqlKnown'
  BY <1>1 DEF HandlerTypeOK, SqlKnown, Publish, Goto
<1>5. /\ Cardinality(Reserved') = Cardinality(Reserved) - 1
      /\ Cardinality(Reserved') \in Nat
  BY <1>1, ReleaseOne DEF Publish, ReservedPoints, HandlerTypeOK
<1>6. PendingExact' /\ pending_count' \in Nat
  BY <1>5 DEF PendingExact, Publish
<1>7. r \in Results
  BY DEF SqlKnown, Publish, Results
<1>8. /\ DOMAIN results' = DOMAIN results \cup {h}
      /\ results' \in [DOMAIN results' -> Results]
      /\ IsFiniteSet(DOMAIN results')
      /\ Cardinality(DOMAIN results') <= Cardinality(DOMAIN results) + 1
  <2>1. results' = Emplace(results, h, r)
    BY DEF Publish
  <2>2. results \in [DOMAIN results -> Results] /\ IsFiniteSet(DOMAIN results)
    BY <1>1 DEF RegistryTypeOK
  <2>. HIDE DEF h, r
  <2>. QED
    BY <1>7, <2>1, <2>2, EmplaceFacts
<1>9. RegistryTypeOK'
  BY <1>1, <1>6, <1>8 DEF RegistryTypeOK, Publish
<1>10. CapRespected'
  <2>1. Cardinality(DOMAIN results) \in Nat /\ Cardinality(DOMAIN results') \in Nat
    BY <1>1, <1>8, FS_CardinalityType DEF RegistryTypeOK
  <2>2. pending_count' = pending_count - 1 /\ UNCHANGED prepared
    BY DEF Publish
  <2>3. pending_count \in Nat
    BY <1>1 DEF RegistryTypeOK
  <2>. QED
    BY <1>8, <2>1, <2>2, <2>3 DEF CapRespected, Held
<1>. QED
  BY <1>2, <1>3, <1>4, <1>6, <1>9, <1>10
  DEF TypeOK, HandlerTypeOK, RegistryTypeOK

\* The queue for a device: nothing but the coordinator moves.
LEMMA CoordinatorStep ==
  ASSUME IInv, NEW c \in Calls, Dispatch(c) \/ Acquire(c)  PROVE IInv'
<1>. USE DEF IInv
<1>1. HandlerTypeOK /\ RegistryTypeOK /\ Coordinator!GpuTypeOK
  BY TypeParts
<1>2. UNCHANGED <<handler, registry, restarts>>
  BY DEF Dispatch, Acquire
<1>3. Coordinator!GpuTypeOK'
  BY <1>1, CoordinatorTypes DEF Dispatch, Acquire
<1>4. HandlerTypeOK' /\ RegistryTypeOK' /\ SqlKnown'
  BY <1>1, <1>2
  DEF HandlerTypeOK, RegistryTypeOK, SqlKnown, handler, registry, client
<1>5. PendingExact' /\ CapRespected'
  BY <1>2 DEF PendingExact, CapRespected, Held, Reserved, handler, registry
<1>. QED
  BY <1>3, <1>4, <1>5 DEF TypeOK, HandlerTypeOK, RegistryTypeOK

\* The execution ends, one way or the other: the reservation is kept.
LEMMA ExecutedStep ==
  ASSUME IInv, NEW c \in Calls, Executed(c)  PROVE IInv'
<1>1. HandlerTypeOK /\ Coordinator!GpuTypeOK
  BY TypeParts DEF IInv
<1>2. Coordinator!GpuTypeOK'
  BY <1>1, CoordinatorTypes DEF Executed
<1>3. PICK p \in {"publish", "release"} : Goto(c, p)
  BY DEF Executed
<1>4. error' \in [Calls -> ExecErrors \cup {None}]
  BY <1>1 DEF Executed, HandlerTypeOK
<1>5. HandlerTypeOK'
  BY <1>1, <1>3, <1>4 DEF Executed, HandlerTypeOK, Goto, Points, client
<1>6. SqlKnown'
  BY <1>1, <1>3 DEF IInv, HandlerTypeOK, SqlKnown, Executed, Goto
<1>7. UNCHANGED <<registry, restarts>>
  BY DEF Executed
<1>. QED
  BY <1>2, <1>3, <1>5, <1>6, <1>7, QuietStep DEF Executed, ReservedPoints

\* The handlers answer after the registry has let go of them.
LEMMA BuildStep ==
  ASSUME IInv, NEW c \in Calls, BuildTicket(c) \/ BuildStream(c)
  PROVE  IInv'
<1>1. HandlerTypeOK /\ Coordinator!GpuTypeOK
  BY TypeParts DEF IInv
<1>2. /\ pc[c] \in {"ticket", "stream"} /\ Goto(c, "done")
      /\ UNCHANGED <<sql, src, error, client, registry, restarts, coordinator>>
      /\ \E st \in Statuses : status' = [status EXCEPT ![c] = st]
  BY DEF BuildTicket, BuildStream, Respond, Statuses
<1>3. Coordinator!GpuTypeOK'
  BY <1>1, <1>2, CoordinatorTypes
<1>4. HandlerTypeOK'
  BY <1>1, <1>2 DEF HandlerTypeOK, Goto, Points, client
<1>5. SqlKnown'
  BY <1>1, <1>2 DEF IInv, HandlerTypeOK, SqlKnown, Goto
<1>. QED
  BY <1>2, <1>3, <1>4, <1>5, QuietStep DEF ReservedPoints

\* GetFlightInfoStatement and CreatePreparedStatement plan their statement.
LEMMA ExplainStep ==
  ASSUME IInv, NEW c \in Calls, NEW s \in Statements,
         GetFlightInfoStatement(c, s) \/ CreatePreparedStatement(c, s)
  PROVE  IInv'
<1>1. HandlerTypeOK /\ Coordinator!GpuTypeOK
  BY TypeParts DEF IInv
<1>2. PICK p \in {"admit", "prepare", "done"} : Goto(c, p)
  BY DEF GetFlightInfoStatement, CreatePreparedStatement, Explain, Throw,
         Respond
<1>3. /\ pc[c] = "new" /\ sql' = [sql EXCEPT ![c] = s]
      /\ UNCHANGED <<src, error, client, registry, restarts, coordinator>>
  BY DEF GetFlightInfoStatement, CreatePreparedStatement, Explain
<1>4. status' \in [Calls -> Statuses \cup {None}]
  BY <1>1, StatusTotal
  DEF GetFlightInfoStatement, CreatePreparedStatement, Explain, Throw,
      Respond, HandlerTypeOK
<1>5. Coordinator!GpuTypeOK'
  BY <1>1, <1>3, CoordinatorTypes
<1>6. HandlerTypeOK'
  BY <1>1, <1>2, <1>3, <1>4 DEF HandlerTypeOK, Goto, Points, client
<1>7. SqlKnown'
  BY <1>1, <1>2, <1>3 DEF IInv, HandlerTypeOK, SqlKnown, Goto
<1>. QED
  BY <1>2, <1>3, <1>5, <1>6, <1>7, QuietStep DEF ReservedPoints

\* A call that gave a client a handle of a kind really holds such a handle.
LEMMA IssuedHandle ==
  ASSUME HandlerTypeOK, NEW k, NEW g \in Issuers(k)
  PROVE  g \in Calls /\ handle[g] \in {"q", "p"} \X Nat
  BY DEF HandlerTypeOK, Issuers

\* CreatePreparedStatement's critical section.
LEMMA PrepareStep ==
  ASSUME IInv, NEW c \in Calls, Prepare(c)  PROVE IInv'
<1>. USE DEF IInv
<1>1. HandlerTypeOK /\ RegistryTypeOK /\ Coordinator!GpuTypeOK
  BY TypeParts
<1>2. Coordinator!GpuTypeOK'
  BY <1>1, CoordinatorTypes DEF Prepare
<1>3. Goto(c, "done") /\ UNCHANGED <<results, pending_count, restarts>>
  BY DEF Prepare, Respond
<1>4. HandlerTypeOK'
  <2>1. handle' \in [Calls -> {None} \cup ({"q", "p"} \X Nat)]
    BY <1>1 DEF Prepare, HandlerTypeOK, RegistryTypeOK
  <2>2. status' \in [Calls -> Statuses \cup {None}]
    BY <1>1 DEF Prepare, Respond, HandlerTypeOK, Statuses
  <2>3. pc' \in [Calls -> Points]
    BY <1>1, <1>3 DEF HandlerTypeOK, Goto, Points
  <2>. QED
    BY <1>1, <2>1, <2>2, <2>3 DEF Prepare, HandlerTypeOK
<1>5. SqlKnown'
  BY <1>1, <1>3 DEF HandlerTypeOK, SqlKnown, Prepare, Goto
<1>6. Reserved' = Reserved
  BY <1>1, <1>3 DEF Reserved, Prepare, Goto, HandlerTypeOK
<1>7. CASE Cardinality(DOMAIN prepared) >= MaxPendingResults
  <2>1. UNCHANGED <<registry, restarts>>
    BY <1>3, <1>7 DEF Prepare, registry
  <2>. QED
    BY <1>2, <1>3, <1>4, <1>5, <2>1, QuietStep DEF Prepare, ReservedPoints
<1>8. CASE ~(Cardinality(DOMAIN prepared) >= MaxPendingResults)
  <2>. DEFINE h == <<"p", next_handle>>
  <2>1. prepared' = Emplace(prepared, h, sql[c])
        /\ next_handle' = next_handle + 1
    BY <1>8 DEF Prepare
  <2>2. /\ prepared \in [DOMAIN prepared -> Statements]
        /\ IsFiniteSet(DOMAIN prepared) /\ sql[c] \in Statements
    BY <1>1 DEF RegistryTypeOK, SqlKnown, Prepare
  <2>3. h \in {"p"} \X Nat
    BY <1>1 DEF RegistryTypeOK
  <2>. HIDE DEF h
  <2>4. /\ DOMAIN prepared' = DOMAIN prepared \cup {h}
        /\ prepared' \in [DOMAIN prepared' -> Statements]
        /\ IsFiniteSet(DOMAIN prepared')
        /\ Cardinality(DOMAIN prepared') <= Cardinality(DOMAIN prepared) + 1
    BY <2>1, <2>2, EmplaceFacts
  <2>5. RegistryTypeOK'
    BY <1>1, <1>3, <2>1, <2>3, <2>4 DEF RegistryTypeOK
  <2>6. Cardinality(DOMAIN prepared) \in Nat
        /\ Cardinality(DOMAIN prepared') \in Nat
    BY <2>2, <2>4, FS_CardinalityType
  <2>7. CapRespected' /\ PendingExact'
    BY <1>3, <1>6, <1>8, <2>4, <2>6 DEF CapRespected, Held, PendingExact
  <2>. QED
    BY <1>2, <1>4, <1>5, <2>5, <2>7 DEF TypeOK, HandlerTypeOK, RegistryTypeOK
<1>. QED
  BY <1>7, <1>8

\* ClosePreparedStatement erases at most one prepared statement.
LEMMA CloseStep ==
  ASSUME IInv, NEW c \in Calls, NEW g \in Issuers("p"),
         ClosePreparedStatement(c, g)
  PROVE  IInv'
<1>. USE DEF IInv
<1>1. HandlerTypeOK /\ RegistryTypeOK /\ Coordinator!GpuTypeOK
  BY TypeParts
<1>2. Coordinator!GpuTypeOK'
  BY <1>1, CoordinatorTypes DEF ClosePreparedStatement
<1>3. /\ Goto(c, "done") /\ pc[c] = "new"
      /\ UNCHANGED <<sql, results, pending_count, next_handle, restarts>>
  BY DEF ClosePreparedStatement, Respond
<1>4. HandlerTypeOK'
  BY <1>1, IssuedHandle
  DEF ClosePreparedStatement, HandlerTypeOK, Respond, Points, Goto, Statuses,
      client
<1>5. SqlKnown' /\ Reserved' = Reserved
  BY <1>1, <1>3 DEF HandlerTypeOK, SqlKnown, Goto, Reserved
<1>6. /\ DOMAIN prepared' = DOMAIN prepared \ {handle[g]}
      /\ prepared' \in [DOMAIN prepared' -> Statements]
      /\ IsFiniteSet(DOMAIN prepared')
      /\ Cardinality(DOMAIN prepared') <= Cardinality(DOMAIN prepared)
  BY <1>1, EraseFacts DEF ClosePreparedStatement, RegistryTypeOK
<1>7. RegistryTypeOK'
  BY <1>1, <1>3, <1>6 DEF RegistryTypeOK
<1>8. Cardinality(DOMAIN prepared) \in Nat
      /\ Cardinality(DOMAIN prepared') \in Nat
  BY <1>1, <1>6, FS_CardinalityType DEF RegistryTypeOK
<1>9. CapRespected' /\ PendingExact'
  BY <1>3, <1>5, <1>6, <1>8 DEF CapRespected, Held, PendingExact
<1>. QED
  BY <1>2, <1>4, <1>5, <1>7, <1>9 DEF TypeOK, HandlerTypeOK, RegistryTypeOK

\* GetFlightInfoPreparedStatement copies the plan, or answers KeyError.
LEMMA ExecutePreparedStep ==
  ASSUME IInv, NEW c \in Calls, NEW g \in Issuers("p"),
         GetFlightInfoPreparedStatement(c, g)
  PROVE  IInv'
<1>1. HandlerTypeOK /\ RegistryTypeOK /\ Coordinator!GpuTypeOK
  BY TypeParts DEF IInv
<1>2. Coordinator!GpuTypeOK'
  BY <1>1, CoordinatorTypes DEF GetFlightInfoPreparedStatement
<1>3. PICK p \in {"admit", "done"} :
        /\ Goto(c, p)
        /\ p = "admit" => /\ handle[g] \in DOMAIN prepared
                          /\ sql' = [sql EXCEPT ![c] = prepared[handle[g]]]
        /\ p = "done" => UNCHANGED sql
  BY DEF GetFlightInfoPreparedStatement, Respond
<1>4. handle[g] \in DOMAIN prepared => prepared[handle[g]] \in Statements
  BY <1>1 DEF RegistryTypeOK
<1>5. sql' \in [Calls -> Statements \cup {None}]
  BY <1>1, <1>3, <1>4 DEF HandlerTypeOK
<1>6. HandlerTypeOK'
  BY <1>1, <1>3, <1>5, IssuedHandle
  DEF GetFlightInfoPreparedStatement, HandlerTypeOK, Respond, Points, Goto,
      Statuses, client
<1>7. SqlKnown'
  BY <1>1, <1>3, <1>4 DEF IInv, HandlerTypeOK, SqlKnown, Goto
<1>8. UNCHANGED <<registry, restarts>> /\ pc[c] = "new"
  BY DEF GetFlightInfoPreparedStatement
<1>. QED
  BY <1>2, <1>3, <1>6, <1>7, <1>8, QuietStep DEF ReservedPoints

\* DoGetStatement takes the result out of the registry, or answers KeyError.
LEMMA DoGetStep ==
  ASSUME IInv, NEW c \in Calls, NEW g \in Issuers("q"), DoGetStatement(c, g)
  PROVE  IInv'
<1>. USE DEF IInv
<1>1. HandlerTypeOK /\ RegistryTypeOK /\ Coordinator!GpuTypeOK
  BY TypeParts
<1>2. Coordinator!GpuTypeOK'
  BY <1>1, CoordinatorTypes DEF DoGetStatement
<1>3. PICK p \in {"stream", "done"} : Goto(c, p)
  BY DEF DoGetStatement, Respond
<1>4. /\ pc[c] = "new"
      /\ UNCHANGED <<sql, prepared, pending_count, next_handle, restarts>>
  BY DEF DoGetStatement
<1>5. results' = Erase(results, handle[g]) \/ UNCHANGED results
  BY DEF DoGetStatement
<1>6. /\ DOMAIN results' \subseteq DOMAIN results
      /\ results' \in [DOMAIN results' -> Results]
      /\ IsFiniteSet(DOMAIN results')
      /\ Cardinality(DOMAIN results') <= Cardinality(DOMAIN results)
  <2>1. results \in [DOMAIN results -> Results] /\ IsFiniteSet(DOMAIN results)
    BY <1>1 DEF RegistryTypeOK
  <2>2. CASE results' = Erase(results, handle[g])
    <3>1. /\ DOMAIN Erase(results, handle[g]) = DOMAIN results \ {handle[g]}
          /\ Erase(results, handle[g])
               \in [DOMAIN Erase(results, handle[g]) -> Results]
          /\ IsFiniteSet(DOMAIN Erase(results, handle[g]))
          /\ Cardinality(DOMAIN Erase(results, handle[g]))
               <= Cardinality(DOMAIN results)
      BY <2>1, EraseFacts
    <3>. QED
      BY <2>2, <3>1
  <2>3. CASE UNCHANGED results
    BY <2>1, <2>3, FS_CardinalityType
  <2>. QED
    BY <1>5, <2>2, <2>3
<1>7. handle[g] \in DOMAIN results => results[handle[g]] \in Results
  BY <1>1 DEF RegistryTypeOK
<1>8. delivered' \in [Calls -> Results \cup {None}]
  BY <1>1, <1>7 DEF DoGetStatement, HandlerTypeOK
<1>9. HandlerTypeOK'
  BY <1>1, <1>3, <1>8, IssuedHandle
  DEF DoGetStatement, HandlerTypeOK, Respond, Points, Goto, Statuses
<1>10. SqlKnown' /\ Reserved' = Reserved
  BY <1>1, <1>3, <1>4 DEF HandlerTypeOK, SqlKnown, Goto, Reserved
<1>11. RegistryTypeOK'
  BY <1>1, <1>4, <1>6 DEF RegistryTypeOK
<1>12. /\ Cardinality(DOMAIN results) \in Nat
       /\ Cardinality(DOMAIN results') \in Nat /\ pending_count \in Nat
  BY <1>1, <1>6, FS_CardinalityType DEF RegistryTypeOK
<1>13. CapRespected' /\ PendingExact'
  BY <1>4, <1>6, <1>10, <1>12 DEF CapRespected, Held, PendingExact
<1>. QED
  BY <1>2, <1>9, <1>10, <1>11, <1>13
  DEF TypeOK, HandlerTypeOK, RegistryTypeOK

\* A restart empties the registries and drops every reservation.
LEMMA RestartStep ==
  ASSUME IInv, Restart  PROVE IInv'
<1>1. HandlerTypeOK /\ RegistryTypeOK /\ Coordinator!GpuTypeOK
  BY TypeParts DEF IInv
<1>2. Coordinator!GpuTypeOK'
  BY DEF Restart, Coordinator!GpuRestart, Coordinator!GpuTypeOK,
         Coordinator!Devices
<1>3. HandlerTypeOK'
  BY <1>1 DEF Restart, HandlerTypeOK, Points, Statuses, client
<1>4. DOMAIN results' = {} /\ DOMAIN prepared' = {}
  <2>1. results' = <<>> /\ prepared' = <<>>
    BY DEF Restart
  <2>. QED
    BY <2>1, EmptyDomain
<1>5. RegistryTypeOK'
  BY <1>1, <1>4, FS_EmptySet DEF Restart, RegistryTypeOK
<1>6. Reserved' = {}
  BY DEF Restart, Reserved
<1>7. PendingExact' /\ CapRespected'
  BY <1>4, <1>6, FS_EmptySet DEF Restart, PendingExact, CapRespected, Held
<1>8. SqlKnown'
  BY DEF Restart, SqlKnown
<1>. QED
  BY <1>2, <1>3, <1>5, <1>7, <1>8
  DEF IInv, TypeOK, HandlerTypeOK, RegistryTypeOK

-----------------------------------------------------------------------------
\* Every step of the server keeps the invariant.
LEMMA NextInv == IInv /\ [Next]_vars => IInv'
<1>. SUFFICES ASSUME IInv, [Next]_vars PROVE IInv'
  OBVIOUS
<1>1. ASSUME NEW c \in Calls, Arrive(c)  PROVE IInv'
  BY <1>1, ExplainStep, CloseStep, ExecutePreparedStep, DoGetStep DEF Arrive
<1>2. ASSUME NEW c \in Calls, HandlerStep(c)  PROVE IInv'
  BY <1>2, AdmitStep, CoordinatorStep, ExecutedStep, ReleaseStep, PublishStep,
     BuildStep, PrepareStep DEF HandlerStep
<1>3. CASE UNCHANGED vars
  <2>1. Reserved' = Reserved
    BY <1>3 DEF vars, handler, Reserved
  <2>2. TypeOK' /\ SqlKnown'
    BY <1>3 DEF IInv, TypeOK, SqlKnown, vars, handler, client, registry,
       coordinator, Coordinator!GpuTypeOK
  <2>. QED
    BY <1>3, <2>1, <2>2
    DEF IInv, PendingExact, CapRespected, Held, vars, registry
<1>. QED
  BY <1>1, <1>2, <1>3, RestartStep DEF Next, AllDone

\* The invariant holds in every reachable state.
LEMMA Invariance == Spec => []IInv
  BY InitInv, NextInv, PTL DEF Spec

\* Every behaviour of the server keeps its registries, its counters and the
\* state of its handlers well typed: in particular no call ends without one of
\* the statuses ToFlightStatus and the handlers know.
THEOREM TypeCorrect == Spec => []TypeOK
<1>1. IInv => TypeOK
  BY DEF IInv
<1>. QED
  BY <1>1, Invariance, PTL

\* pending_count_ is exact: each reservation made under results_mutex_ in
\* ExecuteAndBuffer is given back once, by the publication or a catch block.
THEOREM ReservationsExact == Spec => []PendingExact
<1>1. IInv => PendingExact
  BY DEF IInv
<1>. QED
  BY <1>1, Invariance, PTL

\* Buffered results and queries under way never exceed max_pending_results,
\* nor do prepared statements, for any number of concurrent calls and any cap.
THEOREM CapSafety == Spec => []CapRespected
<1>1. IInv => CapRespected
  BY DEF IInv
<1>. QED
  BY <1>1, Invariance, PTL

-----------------------------------------------------------------------------
(* The coordinator: no device runs more queries than its permits, none of *)
(* which is lost, and the devices are handed the queries evenly           *)

\* A call has a device from its dispatch to its end.
Placed ==
  \A c \in Calls :
    /\ gpu[c] = "new" => device[c] = NoDevice
    /\ gpu[c] \in {"waiting", "running"} => device[c] \in Coordinator!Devices

\* The device the next query gets.
Turn == next_device % DeviceCount

\* The calls that were handed device d, and those running on it.
Assigned(d) == {c \in Calls : device[c] = d}

Running(d) == {c \in Calls : gpu[c] = "running" /\ device[c] = d}

\* The devices before the one whose turn it is were handed one query more.
Shares(q) ==
  \A d \in Coordinator!Devices :
    Cardinality(Assigned(d)) = IF d < Turn THEN q + 1 ELSE q

\* Each permit of a device is in its semaphore or with a call that runs.
PermitsKept ==
  \A d \in Coordinator!Devices :
    permits[d] + Cardinality(Running(d)) = MaxConcurrentGpuQueries

\* The inductive invariant.
CInv == Coordinator!GpuTypeOK /\ Placed /\ PermitsKept /\ \E q \in Nat : Shares(q)

-----------------------------------------------------------------------------
\* The coordinator counts as the server does.
LEMMA CoordinatorCardinality == \A S : Coordinator!Cardinality(S) = Cardinality(S)
BY DEF Coordinator!Cardinality, Cardinality

\* A remainder is the only one.
LEMMA Remainder ==
  ASSUME NEW m \in Nat, NEW N \in Nat, N > 0, NEW q \in Nat, NEW r \in 0..(N - 1),
         m = N * q + r
  PROVE  m % N = r
<1> DEFINE q1 == m \div N
           r1 == m % N
<1>1. m = N * q1 + r1 /\ q1 \in Int /\ r1 \in 0..(N - 1)
  OBVIOUS
<1> HIDE DEF q1, r1
<1>2. \A i, j \in Int : i > j => N * i >= N * j + N
  <2> SUFFICES ASSUME NEW i \in Int, NEW j \in Int, i > j PROVE N * i >= N * j + N
    OBVIOUS
  <2>1. PICK k \in Nat : i = j + 1 + k
    <3>1. i - j - 1 \in Nat /\ i = j + 1 + (i - j - 1)
      OBVIOUS
    <3> QED BY <3>1
  <2>2. N * i = N * j + N + N * k
    BY <2>1
  <2>3. N * k >= 0 /\ N * k \in Int /\ N * j \in Int
    OBVIOUS
  <2> QED BY <2>2, <2>3
<1>3. N * q \in Int /\ N * q1 \in Int
  BY <1>1
<1>4. ~(q > q1)
  <2> SUFFICES ASSUME q > q1 PROVE FALSE
    OBVIOUS
  <2>1. N * q >= N * q1 + N
    BY <1>1, <1>2
  <2> QED BY <1>1, <1>3, <2>1
<1>5. ~(q1 > q)
  <2> SUFFICES ASSUME q1 > q PROVE FALSE
    OBVIOUS
  <2>1. N * q1 >= N * q + N
    BY <1>1, <1>2
  <2> QED BY <1>1, <1>3, <2>1
<1>6. q = q1
  BY <1>1, <1>4, <1>5
<1>7. r1 = r
  BY <1>1, <1>3, <1>6
<1> QED BY <1>7 DEF r1

\* The round-robin index stays in range, goes up by one and wraps to zero.
LEMMA NextTurn ==
  ASSUME NEW n \in Nat
  PROVE  /\ n % DeviceCount \in 0..(DeviceCount - 1)
         /\ (n + 1) % DeviceCount
              = IF n % DeviceCount = DeviceCount - 1 THEN 0 ELSE (n % DeviceCount) + 1
<1>1. DeviceCount \in Nat /\ DeviceCount > 0
  BY DeviceAssumption
<1>2. n % DeviceCount \in 0..(DeviceCount - 1)
  BY <1>1
<1>3. n = DeviceCount * (n \div DeviceCount) + (n % DeviceCount) /\ n \div DeviceCount \in Nat
  BY <1>1
<1>4. CASE n % DeviceCount = DeviceCount - 1
  <2>1. n + 1 = DeviceCount * ((n \div DeviceCount) + 1)
    BY <1>1, <1>3, <1>4
  <2>2. n + 1 = DeviceCount * ((n \div DeviceCount) + 1) + 0 /\ (n \div DeviceCount) + 1 \in Nat
    BY <1>1, <1>3, <2>1
  <2>3. (n + 1) % DeviceCount = 0
    BY <1>1, <2>2, Remainder
  <2> QED BY <1>2, <1>4, <2>3
<1>5. CASE n % DeviceCount # DeviceCount - 1
  <2>1. /\ n + 1 = DeviceCount * (n \div DeviceCount) + ((n % DeviceCount) + 1)
        /\ (n % DeviceCount) + 1 \in 0..(DeviceCount - 1)
    BY <1>1, <1>2, <1>3, <1>5
  <2>2. (n + 1) % DeviceCount = (n % DeviceCount) + 1
    BY <1>1, <1>3, <2>1, Remainder
  <2> QED BY <1>2, <1>5, <2>2
<1> QED BY <1>2, <1>4, <1>5

\* Taking a call into a set of calls, and out of it.
LEMMA Counted ==
  ASSUME NEW S \in SUBSET Calls, NEW T \in SUBSET Calls, NEW c \in Calls
  PROVE  /\ Cardinality(S) \in Nat
         /\ T = S \cup {c} /\ c \notin S => Cardinality(T) = Cardinality(S) + 1
         /\ T = S \ {c} /\ c \in S => Cardinality(T) = Cardinality(S) - 1
<1>1. IsFiniteSet(S)
  BY CallsAssumption, FS_Subset
<1> QED BY <1>1, FS_CardinalityType, FS_AddElement, FS_RemoveElement

\* A new process has handed out nothing.
LEMMA CInit == Init => CInv
<1> SUFFICES ASSUME Init PROVE CInv
  OBVIOUS
<1>1. /\ next_device = 0 /\ permits = [d \in Coordinator!Devices |-> MaxConcurrentGpuQueries]
      /\ gpu = [c \in Calls |-> "new"] /\ device = [c \in Calls |-> NoDevice]
  BY DEF Init, Coordinator!GpuInit
<1>2. Coordinator!GpuTypeOK /\ Placed
  BY <1>1, PermitAssumption DEF Coordinator!GpuTypeOK, Placed
<1>3. \A d \in Coordinator!Devices : Assigned(d) = {} /\ Running(d) = {}
  BY <1>1, DeviceAssumption DEF Assigned, Running, Coordinator!Devices
<1>4. PermitsKept
  BY <1>1, <1>3, FS_EmptySet, PermitAssumption DEF PermitsKept
<1>5. Shares(0)
  <2>1. Turn = 0
    BY <1>1, DeviceAssumption, Remainder DEF Turn
  <2> QED BY <1>3, <2>1, FS_EmptySet DEF Shares, Coordinator!Devices
<1> QED BY <1>2, <1>4, <1>5 DEF CInv

\* The fetch_add hands the query to the device whose turn it is.
LEMMA DispatchShares ==
  ASSUME CInv, NEW c \in Calls, Coordinator!Dispatch(c)
  PROVE  CInv'
<1>1. /\ gpu[c] = "new" /\ device' = [device EXCEPT ![c] = Turn]
      /\ next_device' = next_device + 1 /\ gpu' = [gpu EXCEPT ![c] = "waiting"]
      /\ UNCHANGED permits
  BY DEF Coordinator!Dispatch, Turn
<1>2. /\ next_device \in Nat /\ device[c] = NoDevice
      /\ device \in [Calls -> Coordinator!Devices \cup {NoDevice}]
      /\ gpu \in [Calls -> {"new", "waiting", "running", "left"}]
  BY <1>1 DEF CInv, Coordinator!GpuTypeOK, Placed
<1>3. /\ Turn \in Coordinator!Devices
      /\ Turn' = IF Turn = DeviceCount - 1 THEN 0 ELSE Turn + 1
  BY <1>1, <1>2, NextTurn DEF Turn, Coordinator!Devices
<1>4. Coordinator!GpuTypeOK'
  BY CoordinatorTypes DEF CInv
<1>5. Placed'
  BY <1>1, <1>2, <1>3 DEF CInv, Placed
<1>6. PermitsKept'
  <2>1. \A d \in Coordinator!Devices : Running(d)' = Running(d)
    BY <1>1, <1>2 DEF Running
  <2> QED BY <1>1, <2>1 DEF CInv, PermitsKept
<1>7. \A d \in Coordinator!Devices : d # NoDevice
  BY DeviceAssumption DEF Coordinator!Devices
<1>8. \A d \in Coordinator!Devices :
        Cardinality(Assigned(d)') = IF d = Turn THEN Cardinality(Assigned(d)) + 1
                                                ELSE Cardinality(Assigned(d))
  <2> SUFFICES ASSUME NEW d \in Coordinator!Devices
               PROVE  Cardinality(Assigned(d)') = IF d = Turn THEN Cardinality(Assigned(d)) + 1
                                                              ELSE Cardinality(Assigned(d))
    OBVIOUS
  <2>1. c \notin Assigned(d)
    BY <1>2, <1>7 DEF Assigned
  <2>2. Assigned(d)' = IF d = Turn THEN Assigned(d) \cup {c} ELSE Assigned(d)
    BY <1>1, <1>2, <2>1 DEF Assigned
  <2>3. Assigned(d) \in SUBSET Calls
    BY DEF Assigned
  <2> QED BY <2>1, <2>2, <2>3, Counted
<1>9. PICK q \in Nat : Shares(q)
  BY DEF CInv
<1>10. CASE Turn = DeviceCount - 1
  <2>1. Shares(q + 1)'
    BY <1>3, <1>8, <1>9, <1>10, DeviceAssumption DEF Shares, Coordinator!Devices
  <2> QED BY <1>4, <1>5, <1>6, <2>1 DEF CInv
<1>11. CASE Turn # DeviceCount - 1
  <2>1. Shares(q)'
    BY <1>3, <1>8, <1>9, <1>11, DeviceAssumption DEF Shares, Coordinator!Devices
  <2> QED BY <1>4, <1>5, <1>6, <2>1 DEF CInv
<1> QED BY <1>10, <1>11

\* A permit is taken or given back together with the call that runs.
LEMMA PermitMoves ==
  ASSUME CInv, NEW c \in Calls, Coordinator!Acquire(c) \/ Coordinator!Leave(c)
  PROVE  CInv'
<1>1. /\ device \in [Calls -> Coordinator!Devices \cup {NoDevice}]
      /\ gpu \in [Calls -> {"new", "waiting", "running", "left"}]
      /\ permits \in [Coordinator!Devices -> Nat]
  BY DEF CInv, Coordinator!GpuTypeOK
<1>2. UNCHANGED <<next_device, device>> /\ gpu[c] \in {"waiting", "running"}
  BY DEF Coordinator!Acquire, Coordinator!Leave
<1>3. device[c] \in Coordinator!Devices
  BY <1>2 DEF CInv, Placed
<1>4. Coordinator!GpuTypeOK'
  BY CoordinatorTypes DEF CInv
<1>5. PICK s \in {"running", "left"} : gpu' = [gpu EXCEPT ![c] = s]
  BY DEF Coordinator!Acquire, Coordinator!Leave
<1>6. Placed'
  BY <1>1, <1>2, <1>3, <1>5 DEF CInv, Placed
<1>7. \A q : Shares(q)' <=> Shares(q)
  BY <1>2 DEF Shares, Turn, Assigned
<1>8. ASSUME NEW d \in Coordinator!Devices, d # device[c]
      PROVE  permits'[d] = permits[d] /\ Running(d)' = Running(d)
  <2>1. Running(d)' = Running(d)
    BY <1>1, <1>2, <1>5, <1>8 DEF Running
  <2>2. permits'[d] = permits[d]
    BY <1>1, <1>8 DEF Coordinator!Acquire, Coordinator!Leave
  <2> QED BY <2>1, <2>2
<1>9. permits'[device[c]] + Cardinality(Running(device[c])') = MaxConcurrentGpuQueries
  <2> PICK d \in Coordinator!Devices : d = device[c]
    BY <1>3
  <2>1. permits[d] + Cardinality(Running(d)) = MaxConcurrentGpuQueries
    BY DEF CInv, PermitsKept
  <2>2. /\ Running(d) \in SUBSET Calls
        /\ {e \in Calls : gpu'[e] = "running" /\ device[e] = d} \in SUBSET Calls
    BY DEF Running
  <2>3. CASE Coordinator!Acquire(c)
    <3>1. /\ permits'[d] = permits[d] - 1 /\ gpu' = [gpu EXCEPT ![c] = "running"]
          /\ gpu[c] = "waiting"
      BY <1>1, <2>3 DEF Coordinator!Acquire
    <3>2. /\ {e \in Calls : gpu'[e] = "running" /\ device[e] = d} = Running(d) \cup {c}
          /\ c \notin Running(d)
      BY <1>1, <3>1 DEF Running
    <3>3. Cardinality({e \in Calls : gpu'[e] = "running" /\ device[e] = d})
            = Cardinality(Running(d)) + 1 /\ Cardinality(Running(d)) \in Nat
      BY <2>2, <3>2, Counted
    <3> QED BY <1>1, <1>2, <2>1, <3>1, <3>3 DEF Running
  <2>4. CASE Coordinator!Leave(c)
    <3>1. /\ permits'[d] = permits[d] + 1 /\ gpu' = [gpu EXCEPT ![c] = "left"]
          /\ gpu[c] = "running"
      BY <1>1, <2>4 DEF Coordinator!Leave
    <3>2. /\ {e \in Calls : gpu'[e] = "running" /\ device[e] = d} = Running(d) \ {c}
          /\ c \in Running(d)
      BY <1>1, <3>1 DEF Running
    <3>3. Cardinality({e \in Calls : gpu'[e] = "running" /\ device[e] = d})
            = Cardinality(Running(d)) - 1 /\ Cardinality(Running(d)) \in Nat
      BY <2>2, <3>2, Counted
    <3> QED BY <1>1, <1>2, <2>1, <3>1, <3>3 DEF Running
  <2> QED BY <2>3, <2>4
<1>10. PermitsKept'
  BY <1>2, <1>8, <1>9 DEF CInv, PermitsKept
<1> QED BY <1>4, <1>6, <1>7, <1>10 DEF CInv

\* A restart starts over.
LEMMA RestartShares ==
  ASSUME CInv, Restart
  PROVE  CInv'
<1>1. /\ next_device' = 0
      /\ permits' = [d \in Coordinator!Devices |-> MaxConcurrentGpuQueries]
      /\ gpu' = [c \in Calls |-> IF gpu[c] = "new" THEN "new" ELSE "left"]
      /\ device' = [c \in Calls |-> NoDevice]
  BY DEF Restart, Coordinator!GpuRestart
<1>2. Coordinator!GpuTypeOK' /\ Placed'
  BY <1>1, PermitAssumption DEF CInv, Coordinator!GpuTypeOK, Placed
<1>3. \A d \in Coordinator!Devices : Assigned(d)' = {} /\ Running(d)' = {}
  BY <1>1, DeviceAssumption DEF Assigned, Running, Coordinator!Devices
<1>4. PermitsKept'
  BY <1>1, <1>3, FS_EmptySet, PermitAssumption DEF PermitsKept
<1>5. Shares(0)'
  <2>1. Turn' = 0
    BY <1>1, DeviceAssumption, Remainder DEF Turn
  <2> QED BY <1>3, <2>1, FS_EmptySet DEF Shares, Coordinator!Devices
<1> QED BY <1>2, <1>4, <1>5 DEF CInv

\* Only the steps of an execution and a restart touch the coordinator.
LEMMA CNext == CInv /\ [Next]_vars => CInv'
<1> SUFFICES ASSUME CInv, [Next]_vars PROVE CInv'
  OBVIOUS
<1>1. CASE UNCHANGED coordinator
  BY <1>1 DEF coordinator, CInv, Coordinator!GpuTypeOK, Placed, PermitsKept, Shares, Turn,
              Assigned, Running
<1>2. CASE \E c \in Calls : Coordinator!Dispatch(c)
  BY <1>2, DispatchShares
<1>3. CASE \E c \in Calls : Coordinator!Acquire(c) \/ Coordinator!Leave(c)
  BY <1>3, PermitMoves
<1>4. CASE Restart
  BY <1>4, RestartShares
<1>5. \A c \in Calls : Arrive(c) => UNCHANGED coordinator
  BY DEF Arrive, GetFlightInfoStatement, CreatePreparedStatement, Explain,
         ClosePreparedStatement, GetFlightInfoPreparedStatement, DoGetStatement
<1>6. \A c \in Calls : HandlerStep(c) =>
        \/ UNCHANGED coordinator
        \/ Coordinator!Dispatch(c) \/ Coordinator!Acquire(c) \/ Coordinator!Leave(c)
  BY DEF HandlerStep, Admit, Dispatch, Acquire, Executed, Release, Publish, BuildTicket,
         Prepare, BuildStream
<1> QED BY <1>1, <1>2, <1>3, <1>4, <1>5, <1>6 DEF Next, AllDone, vars

\* The coordinator never lets more queries run on a device than
\* max_concurrent_gpu_queries and gets every permit back, and its round robin
\* hands no device two queries more than another, however the handlers
\* interleave and fail.
THEOREM FairDevices == Spec => []DevicesShared
<1>1. CInv => DevicesShared
  <2> SUFFICES ASSUME CInv PROVE DevicesShared
    OBVIOUS
  <2>1. Coordinator!PermitsExact
    BY CoordinatorCardinality DEF CInv, PermitsKept, Running, Coordinator!PermitsExact,
                                  Coordinator!RunningOn
  <2>2. PICK q \in Nat : Shares(q)
    BY DEF CInv
  <2>3. \A d \in Coordinator!Devices : Cardinality(Assigned(d)) \in {q, q + 1}
    BY <2>2 DEF Shares
  <2>4. \A d, e \in Coordinator!Devices : Cardinality(Assigned(d)) <= Cardinality(Assigned(e)) + 1
    BY <2>3
  <2>5. Coordinator!Balanced
    BY <2>4, CoordinatorCardinality DEF Assigned, Coordinator!Balanced, Coordinator!AssignedTo
  <2> QED BY <2>1, <2>5 DEF DevicesShared
<1> QED BY <1>1, CInit, CNext, PTL DEF Spec

=============================================================================
