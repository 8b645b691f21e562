SPECIFICATION Spec
CONSTANTS
  Calls = {c1, c2, c3, c4}
  Statements = {s1, s2}
  MaxPendingResults = 2
  Backend = "gpu"
  PlanErrors = {"BindingError"}
  ExecErrors = {"ExecutionError"}
  MaxRestarts = 0
  DeviceCount = 2
  MaxConcurrentGpuQueries = 1
  NoDevice = NoDevice
  None = None
SYMMETRY MCSymmetry
INVARIANTS TypeOK PendingExact CapRespected TicketFidelity DeliveredOnce DevicesShared PreparedFidelity
