CONSTANTS
  Sources = {stdout, stderr}
  Widths = {1, 3, 4}
  ScanLimit = 3
  StoreLimit = 3
  MarkerWidth = 2
  Absent = Absent
  MaxLines = 2
  PipeSize = 1
  SocketSize = 1
SPECIFICATION Spec
CHECK_DEADLOCK FALSE
INVARIANTS
  TypeOK
  DoneIsLast
  KeptIsTail
PROPERTIES
  ImplementsMergedLog
  StreamEnds
