---------------------- MODULE GpuExecutionCoordinator ----------------------
(***************************************************************************)
(* GpuExecutionCoordinator::execute: each query takes the next device in   *)
(* round-robin order, then one permit of that device's counting semaphore, *)
(* runs, and gives the permit back whether the query returned or threw.    *)
(* A call is one execute() invocation; it happens once.                    *)
(***************************************************************************)
EXTENDS Integers, FiniteSets

CONSTANTS
  Calls,                   \* execute() invocations
  DeviceCount,             \* environments.size(), positive
  MaxConcurrentGpuQueries, \* permits of each execute_semaphores[i]
  NoDevice                 \* sentinel

VARIABLES
  next_device,  \* the round-robin counter
  permits,      \* [Devices -> permits left]
  gpu,          \* [Calls -> "new", "waiting", "running" or "left"]
  device        \* [Calls -> device index, NoDevice before dispatch]

Devices == 0..(DeviceCount - 1)

GpuInit ==
  /\ next_device = 0
  /\ permits = [d \in Devices |-> MaxConcurrentGpuQueries]
  /\ gpu = [c \in Calls |-> "new"]
  /\ device = [c \in Calls |-> NoDevice]

\* Mutant: two calls in a row get the same device.
Dispatch_Paired(c) ==
  /\ gpu[c] = "new"
  /\ device' = [device EXCEPT ![c] = (next_device \div 2) % DeviceCount]
  /\ next_device' = next_device + 1
  /\ gpu' = [gpu EXCEPT ![c] = "waiting"]
  /\ UNCHANGED permits

\* next_device.fetch_add(1) % device_count.
Dispatch(c) ==
  /\ gpu[c] = "new"
  /\ device' = [device EXCEPT ![c] = next_device % DeviceCount]
  /\ next_device' = next_device + 1
  /\ gpu' = [gpu EXCEPT ![c] = "waiting"]
  /\ UNCHANGED permits

\* SemaphoreGuard's constructor.
Acquire(c) ==
  /\ gpu[c] = "waiting"
  /\ permits[device[c]] > 0
  /\ permits' = [permits EXCEPT ![device[c]] = @ - 1]
  /\ gpu' = [gpu EXCEPT ![c] = "running"]
  /\ UNCHANGED <<next_device, device>>

\* Mutant: release() is called after engine.execute, which an exception skips.
Leave_NoGuard(c) ==
  /\ gpu[c] = "running"
  /\ permits' \in {permits, [permits EXCEPT ![device[c]] = @ + 1]}
  /\ gpu' = [gpu EXCEPT ![c] = "left"]
  /\ UNCHANGED <<next_device, device>>

\* engine.execute returns or throws; either way SemaphoreGuard's destructor
\* releases the permit.
Leave(c) ==
  /\ gpu[c] = "running"
  /\ permits' = [permits EXCEPT ![device[c]] = @ + 1]
  /\ gpu' = [gpu EXCEPT ![c] = "left"]
  /\ UNCHANGED <<next_device, device>>

\* The process restarts: calls in flight are gone and a new coordinator is
\* constructed.
GpuRestart ==
  /\ next_device' = 0
  /\ permits' = [d \in Devices |-> MaxConcurrentGpuQueries]
  /\ gpu' = [c \in Calls |-> IF gpu[c] = "new" THEN "new" ELSE "left"]
  /\ device' = [c \in Calls |-> NoDevice]

-----------------------------------------------------------------------------
GpuTypeOK ==
  /\ next_device \in Nat
  /\ permits \in [Devices -> Nat]
  /\ gpu \in [Calls -> {"new", "waiting", "running", "left"}]
  /\ device \in [Calls -> Devices \cup {NoDevice}]

RunningOn(d) == {c \in Calls : gpu[c] = "running" /\ device[c] = d}

\* A device never runs more queries than max_concurrent_gpu_queries, and no
\* permit is lost or made up: what is not running is still in the semaphore.
PermitsExact ==
  \A d \in Devices :
    permits[d] + Cardinality(RunningOn(d)) = MaxConcurrentGpuQueries

AssignedTo(d) == {c \in Calls : device[c] = d}

\* Round-robin: however calls interleave between the fetch_add and the
\* semaphore, no device is ever handed two queries more than another.
Balanced ==
  \A d, e \in Devices :
    Cardinality(AssignedTo(d)) <= Cardinality(AssignedTo(e)) + 1

=============================================================================
