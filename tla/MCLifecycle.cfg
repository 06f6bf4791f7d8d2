SPECIFICATION Spec
CONSTANTS
  Calls = {c1, c2}
  QueueSize = 1
  StoreWorkers = 1
  Missing = Missing
  Malformed = Malformed
  Unloaded = Unloaded
  Sources <- MCSources
  MaxStarts = 2
INVARIANTS
  TypeOK
  DatabaseOutlivesRecords
  HandlersFindDatabase
  RecordsOverSchema
  NeverSilentlyUnrecorded
  LegacyURLIsLastResort
  PortsAreAsAsked
PROPERTY
  ShutdownEnds
