SPECIFICATION Spec
CONSTANTS
  Calls = {c1, c2, c3}
  Statements = {s1}
  MaxPendingResults = 2
  Backend = "gpu"
  PlanErrors = {"BindingError"}
  ExecErrors = {"ExecutionError"}
  MaxRestarts = 1
  DeviceCount = 2
  MaxConcurrentGpuQueries = 1
  NoDevice = NoDevice
  None = None
SYMMETRY MCSymmetry
INVARIANTS TicketFidelity
