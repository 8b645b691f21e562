-------------------------- MODULE FlightSqlServer --------------------------
(***************************************************************************)
(* The Flight SQL server: concurrent RPC handlers over the registry of     *)
(* buffered results, the registry of prepared statements, and the GPU      *)
(* execution coordinator.  A call is one RPC; it happens once.  Each       *)
(* critical section of results_mutex_ is one step; planning, execution and *)
(* the building of tickets and streams happen between them.                *)
(*                                                                         *)
(* A handle is <<"q", n>> or <<"p", n>>.  A buffered result is its SQL and *)
(* the call that executed it.  A client passes a handle by naming the call *)
(* that gave it the handle (src).                                          *)
(***************************************************************************)
EXTENDS Integers, FiniteSets

CONSTANTS
  Calls,              \* RPCs
  Statements,         \* SQL texts
  MaxPendingResults,  \* config_.server.max_pending_results
  Backend,            \* config_.engine_config.engine.backend
  PlanErrors,         \* exception classes engine_.explain may throw
  ExecErrors,         \* exception classes of execute_cpu / the coordinator
  MaxRestarts,        \* bound: process restarts
  DeviceCount, MaxConcurrentGpuQueries, NoDevice,
  None                \* "no value"

VARIABLES
  pc,            \* [Calls -> control point of the handler]
  sql,           \* [Calls -> statement the handler works on, or None]
  src,           \* [Calls -> call whose handle is the argument, or None]
  error,         \* [Calls -> exception in flight, or None]
  status,        \* [Calls -> status returned, or None]
  handle,        \* [Calls -> handle issued to the client, or None]
  delivered,     \* [Calls -> result taken for the client, or None]
  results,       \* results_: handle -> result
  prepared,      \* prepared_: handle -> statement (its plan)
  pending_count, \* pending_count_
  next_handle,   \* next_handle_
  restarts,      \* restarts so far
  next_device, permits, gpu, device   \* the coordinator

Coordinator == INSTANCE GpuExecutionCoordinator

client == <<handle, delivered>>
handler == <<pc, sql, src, error, status, client>>
registry == <<results, prepared, pending_count, next_handle>>
coordinator == <<next_device, permits, gpu, device>>
vars == <<handler, registry, restarts, coordinator>>

ASSUME CapAssumption == MaxPendingResults \in Nat \ {0}
ASSUME BackendAssumption == Backend \in {"cpu", "gpu"}
ASSUME CallsAssumption == IsFiniteSet(Calls)
ASSUME NoneAssumption == None \notin Statements \cup Calls
ASSUME HandleAssumption == None \notin {"q", "p"} \X Nat
ASSUME DeviceAssumption == DeviceCount \in Nat \ {0} /\ NoDevice \notin Nat
ASSUME PermitAssumption == MaxConcurrentGpuQueries \in Nat \ {0}

SqlErrors == {"SqlError", "BindingError", "PlanningError", "OptimizationError"}

ToFlightStatus(e) ==
  CASE e \in SqlErrors -> "Invalid"
    [] e = "StorageError" -> "IOError"
    [] e = "OutOfMemoryError" -> "OutOfMemory"
    [] e \in {"ExecutionError", "CudaError"} -> "ExecutionError"
    [] OTHER -> "UnknownError"

\* Mutant: the entry is read but not erased.
Erase_Kept(f, h) == f

\* f without handle h.
Erase(f, h) == [x \in DOMAIN f \ {h} |-> f[x]]

\* f with h mapped to v, unless h is there already.
Emplace(f, h, v) ==
  [x \in DOMAIN f \cup {h} |-> IF x \in DOMAIN f THEN f[x] ELSE v]

-----------------------------------------------------------------------------
Init ==
  /\ pc = [c \in Calls |-> "new"]
  /\ sql = [c \in Calls |-> None]
  /\ src = [c \in Calls |-> None]
  /\ error = [c \in Calls |-> None]
  /\ status = [c \in Calls |-> None]
  /\ handle = [c \in Calls |-> None]
  /\ delivered = [c \in Calls |-> None]
  /\ results = <<>>
  /\ prepared = <<>>
  /\ pending_count = 0
  /\ next_handle = 0
  /\ restarts = 0
  /\ Coordinator!GpuInit

Goto(c, point) == pc' = [pc EXCEPT ![c] = point]

\* The handler of c returns with status s.
Respond(c, s) ==
  /\ Goto(c, "done")
  /\ status' = [status EXCEPT ![c] = s]

\* The handler of c returns the status of the exception e.
Throw(c, e) == Respond(c, ToFlightStatus(e))

-----------------------------------------------------------------------------
(* ExecuteAndBuffer *)

\* Mutant: only inserted results count, not the queries under way.
Held_InsertedOnly == Cardinality(DOMAIN results)

\* results_.size() + pending_count_.
Held == Cardinality(DOMAIN results) + pending_count

\* The cap check and the reservation, in one critical section.
Admit(c) ==
  /\ pc[c] = "admit"
  /\ IF Held >= MaxPendingResults
     THEN Throw(c, "OutOfMemoryError") /\ UNCHANGED pending_count
     ELSE /\ pending_count' = pending_count + 1
          /\ Goto(c, "execute")
          /\ UNCHANGED status
  /\ UNCHANGED <<sql, src, error, client, results, prepared, next_handle,
                 restarts, coordinator>>

Dispatch(c) ==
  /\ pc[c] = "execute" /\ Backend = "gpu"
  /\ Coordinator!Dispatch(c)
  /\ UNCHANGED <<handler, registry, restarts>>

Acquire(c) ==
  /\ pc[c] = "execute"
  /\ Coordinator!Acquire(c)
  /\ UNCHANGED <<handler, registry, restarts>>

\* The execution returns, or throws e; on the GPU it releases its permit.
Executed(c) ==
  /\ pc[c] = "execute"
  /\ IF Backend = "gpu" THEN Coordinator!Leave(c)
                        ELSE UNCHANGED coordinator
  /\ \/ Goto(c, "publish") /\ UNCHANGED error
     \/ \E e \in ExecErrors :
          Goto(c, "release") /\ error' = [error EXCEPT ![c] = e]
  /\ UNCHANGED <<sql, src, status, client, registry, restarts>>

\* Mutant: the catch block returns without giving the reservation back.
Release_Leaked(c) ==
  /\ pc[c] = "release"
  /\ Throw(c, error[c])
  /\ UNCHANGED <<sql, src, error, client, registry, restarts, coordinator>>

\* Mutant: the catch block falls through to the publication.
Release_FallsThrough(c) ==
  /\ pc[c] = "release"
  /\ pending_count' = pending_count - 1
  /\ Goto(c, "publish")
  /\ UNCHANGED <<sql, src, error, status, client, results, prepared,
                 next_handle, restarts, coordinator>>

\* The catch blocks: the reservation is given back.
Release(c) ==
  /\ pc[c] = "release"
  /\ pending_count' = pending_count - 1
  /\ Throw(c, error[c])
  /\ UNCHANGED <<sql, src, error, client, results, prepared, next_handle,
                 restarts, coordinator>>

\* Mutant: next_handle_ is read and not advanced.
Publish_SameHandle(c) ==
  /\ pc[c] = "publish"
  /\ pending_count' = pending_count - 1
  /\ results' = Emplace(results, <<"q", next_handle>>,
                        [sql |-> sql[c], by |-> c])
  /\ handle' = [handle EXCEPT ![c] = <<"q", next_handle>>]
  /\ Goto(c, "ticket")
  /\ UNCHANGED <<sql, src, error, status, delivered, prepared, next_handle,
                 restarts, coordinator>>

\* The reservation becomes a buffered result under a new handle.
Publish(c) ==
  /\ pc[c] = "publish"
  /\ pending_count' = pending_count - 1
  /\ next_handle' = next_handle + 1
  /\ results' = Emplace(results, <<"q", next_handle>>,
                        [sql |-> sql[c], by |-> c])
  /\ handle' = [handle EXCEPT ![c] = <<"q", next_handle>>]
  /\ Goto(c, "ticket")
  /\ UNCHANGED <<sql, src, error, status, delivered, prepared, restarts,
                 coordinator>>

\* CreateStatementQueryTicket and FlightInfo::Make.  When one of them fails
\* the client never learns the handle, and the result stays.
BuildTicket(c) ==
  /\ pc[c] = "ticket"
  /\ Respond(c, "OK") \/ Respond(c, "UnknownError")
  /\ UNCHANGED <<sql, src, error, client, registry, restarts, coordinator>>

-----------------------------------------------------------------------------
(* The RPC entry points *)

\* engine_.explain(s): a plan, or an exception that ends the call.
Explain(c, s, after) ==
  /\ sql' = [sql EXCEPT ![c] = s]
  /\ \/ Goto(c, after) /\ UNCHANGED status
     \/ \E e \in PlanErrors : Throw(c, e)
  /\ UNCHANGED <<src, error, client, registry, restarts, coordinator>>

GetFlightInfoStatement(c, s) == pc[c] = "new" /\ Explain(c, s, "admit")

CreatePreparedStatement(c, s) == pc[c] = "new" /\ Explain(c, s, "prepare")

\* Mutant: next_handle_ is read and not advanced.
Prepare_SameHandle(c) ==
  /\ pc[c] = "prepare"
  /\ Cardinality(DOMAIN prepared) < MaxPendingResults
  /\ prepared' = Emplace(prepared, <<"p", next_handle>>, sql[c])
  /\ handle' = [handle EXCEPT ![c] = <<"p", next_handle>>]
  /\ Respond(c, "OK")
  /\ UNCHANGED <<sql, src, error, delivered, results, pending_count,
                 next_handle, restarts, coordinator>>

\* CreatePreparedStatement's critical section and reply.
Prepare(c) ==
  /\ pc[c] = "prepare"
  /\ IF Cardinality(DOMAIN prepared) >= MaxPendingResults
     THEN /\ Respond(c, "OutOfMemory")
          /\ UNCHANGED <<handle, prepared, next_handle>>
     ELSE /\ prepared' = Emplace(prepared, <<"p", next_handle>>, sql[c])
          /\ next_handle' = next_handle + 1
          /\ handle' = [handle EXCEPT ![c] = <<"p", next_handle>>]
          /\ Respond(c, "OK")
  /\ UNCHANGED <<sql, src, error, delivered, results, pending_count, restarts,
                 coordinator>>

\* The calls that answered a client with a handle of the given kind.
Issuers(kind) ==
  {g \in Calls : status[g] = "OK" /\ handle[g] # None /\ handle[g][1] = kind}

ClosePreparedStatement(c, g) ==
  /\ pc[c] = "new"
  /\ src' = [src EXCEPT ![c] = g]
  /\ prepared' = Erase(prepared, handle[g])
  /\ Respond(c, "OK")
  /\ UNCHANGED <<sql, error, client, results, pending_count, next_handle,
                 restarts, coordinator>>

\* The plan is copied under the lock and executed after it is released.
GetFlightInfoPreparedStatement(c, g) ==
  /\ pc[c] = "new"
  /\ src' = [src EXCEPT ![c] = g]
  /\ IF handle[g] \in DOMAIN prepared
     THEN /\ sql' = [sql EXCEPT ![c] = prepared[handle[g]]]
          /\ Goto(c, "admit")
          /\ UNCHANGED status
     ELSE Respond(c, "KeyError") /\ UNCHANGED sql
  /\ UNCHANGED <<error, client, registry, restarts, coordinator>>

\* The result is moved out of the registry before the stream exists.
DoGetStatement(c, g) ==
  /\ pc[c] = "new"
  /\ src' = [src EXCEPT ![c] = g]
  /\ IF handle[g] \in DOMAIN results
     THEN /\ results' = Erase(results, handle[g])
          /\ delivered' = [delivered EXCEPT ![c] = results[handle[g]]]
          /\ Goto(c, "stream")
          /\ UNCHANGED status
     ELSE Respond(c, "KeyError") /\ UNCHANGED <<results, delivered>>
  /\ UNCHANGED <<sql, error, handle, prepared, pending_count, next_handle,
                 restarts, coordinator>>

\* RecordBatchReader::Make.
BuildStream(c) ==
  /\ pc[c] = "stream"
  /\ Respond(c, "OK") \/ Respond(c, "UnknownError")
  /\ UNCHANGED <<sql, src, error, client, registry, restarts, coordinator>>

\* The process dies and starts again: calls in flight are lost, the
\* registries and counters start over, clients keep the handles they have.
Restart ==
  /\ restarts < MaxRestarts
  /\ restarts' = restarts + 1
  /\ pc' = [c \in Calls |-> IF pc[c] = "new" THEN "new" ELSE "done"]
  /\ status' = [c \in Calls |-> IF pc[c] \in {"new", "done"} THEN status[c]
                                                             ELSE "lost"]
  /\ results' = <<>>
  /\ prepared' = <<>>
  /\ pending_count' = 0
  /\ next_handle' = 0
  /\ Coordinator!GpuRestart
  /\ UNCHANGED <<sql, src, error, client>>

-----------------------------------------------------------------------------
\* What a handler does by itself once its RPC has arrived.
HandlerStep(c) ==
  \/ Admit(c) \/ Dispatch(c) \/ Acquire(c) \/ Executed(c) \/ Release(c)
  \/ Publish(c) \/ BuildTicket(c) \/ Prepare(c) \/ BuildStream(c)

Arrive(c) ==
  \/ \E s \in Statements :
       GetFlightInfoStatement(c, s) \/ CreatePreparedStatement(c, s)
  \/ \E g \in Issuers("p") :
       ClosePreparedStatement(c, g) \/ GetFlightInfoPreparedStatement(c, g)
  \/ \E g \in Issuers("q") : DoGetStatement(c, g)

AllDone == (\A c \in Calls : pc[c] = "done") /\ UNCHANGED vars

Next ==
  \/ \E c \in Calls : Arrive(c) \/ HandlerStep(c)
  \/ Restart
  \/ AllDone

Spec == Init /\ [][Next]_vars

\* gRPC runs each handler on a thread of its own that keeps running.
FairSpec == Spec /\ \A c \in Calls : WF_vars(HandlerStep(c))

-----------------------------------------------------------------------------
Points == {"new", "admit", "execute", "release", "publish", "ticket",
           "prepare", "stream", "done"}
Statuses == {"OK", "Invalid", "IOError", "OutOfMemory", "ExecutionError",
             "UnknownError", "KeyError", "lost"}
Results == [sql : Statements, by : Calls]

TypeOK ==
  /\ pc \in [Calls -> Points]
  /\ sql \in [Calls -> Statements \cup {None}]
  /\ src \in [Calls -> Calls \cup {None}]
  /\ error \in [Calls -> ExecErrors \cup {None}]
  /\ status \in [Calls -> Statuses \cup {None}]
  /\ handle \in [Calls -> {None} \cup ({"q", "p"} \X Nat)]
  /\ delivered \in [Calls -> Results \cup {None}]
  /\ DOMAIN results \subseteq {"q"} \X Nat /\ IsFiniteSet(DOMAIN results)
  /\ results \in [DOMAIN results -> Results]
  /\ DOMAIN prepared \subseteq {"p"} \X Nat /\ IsFiniteSet(DOMAIN prepared)
  /\ prepared \in [DOMAIN prepared -> Statements]
  /\ pending_count \in Nat
  /\ next_handle \in Nat
  /\ restarts \in Nat
  /\ Coordinator!GpuTypeOK

\* The calls between their reservation and its return.
Reserved == {c \in Calls : pc[c] \in {"execute", "release", "publish"}}

\* pending_count_ is exactly the number of calls holding a reservation: no
\* error path leaks one (which would shrink the server for good) and none
\* gives one back twice (which would wrap the unsigned counter).
PendingExact == pending_count = Cardinality(Reserved)

\* However callers interleave, buffered results and queries under way together
\* never exceed max_pending_results, nor do prepared statements.
CapRespected ==
  /\ Cardinality(DOMAIN results) + pending_count <= MaxPendingResults
  /\ Cardinality(DOMAIN prepared) <= MaxPendingResults

\* Redeeming a ticket delivers the result of the call that issued the ticket.
TicketFidelity ==
  \A c \in Calls : delivered[c] # None => delivered[c].by = src[c]

\* A buffered result is handed to at most one DoGetStatement call, also when
\* clients redeem the same ticket concurrently or again.
DeliveredOnce ==
  \A c, d \in Calls :
    (c # d /\ delivered[c] # None /\ delivered[d] # None) =>
      delivered[c].by # delivered[d].by

\* Executing a prepared statement runs the SQL that was prepared under its
\* handle, even when the statement is closed while it runs, and its result is
\* buffered under that SQL.
PreparedFidelity ==
  /\ \A c \in Calls :
       (src[c] # None /\ sql[c] # None) => sql[c] = sql[src[c]]
  /\ \A h \in DOMAIN results : results[h].sql = sql[results[h].by]

\* A device never runs more queries than max_concurrent_gpu_queries and no
\* permit is lost, also when queries throw; and no device is ever handed two
\* queries more than another.
DevicesShared == Coordinator!PermitsExact /\ Coordinator!Balanced

\* Every RPC that has arrived is answered: handlers never wait for each other
\* for good, neither on the cap (they are refused) nor on a device's permits.
CallsAnswered == \A c \in Calls : pc[c] # "new" ~> pc[c] = "done"

\* The slot of the abstract registry a call occupies.
SlotOf(c) ==
  IF c \in Reserved THEN "executing"
  ELSE IF \E h \in DOMAIN results : results[h].by = c THEN "buffered"
  ELSE IF handle[c] # None /\ handle[c][1] = "q" THEN "gone"
  ELSE "none"

Registry == INSTANCE ResultRegistry WITH
  Queries <- Calls, Capacity <- MaxPendingResults,
  slot <- [c \in Calls |-> SlotOf(c)]

\* The server implements the slot registry: a query is admitted only while a
\* slot is free, keeps its slot until it fails or its result is fetched, and
\* no result is fetched twice.
ImplementsRegistry == Registry!Spec

=============================================================================
