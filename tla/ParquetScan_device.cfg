SPECIFICATION Spec
CONSTANTS
  MaxChunks = 2
  MaxFiles = 1
  Sources <- MCSources
  Faults = {}
  QueryDevice = 1
INVARIANT RunsOnAnyDevice
