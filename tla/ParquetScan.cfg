SPECIFICATION FairSpec
CONSTANTS
  MaxChunks = 4
  MaxFiles = 3
  Sources <- MCSources
  Faults = {"open", "decode", "event"}
  QueryDevice = 0
INVARIANTS TypeOK InOrderOnce EventsAccounted ReaderOutlivesDecoding BoundedReadAhead
PROPERTY CallsReturn
