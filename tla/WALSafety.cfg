CONSTANTS
  c1 = c1
  c2 = c2
  Restorer = restorer
  Callers = {c1, c2, restorer}
  small = small
  big = big
  Data = {small, big}
  Size <- MCSize
  MaxSegments = 2
  MaxSegmentSize = 2
  StartSegment = 8
  MaxSeqNo = 13
  MaxSegNo = 14
SPECIFICATION Spec
SYMMETRY Symmetry
INVARIANTS
  TypeOK
  LogOrdered
  NoAckedEntryDropped
  AckedBelowNext
  IInv
PROPERTY
  FilesOnlyGrow
