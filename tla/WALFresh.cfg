CONSTANTS
  c1 = c1
  c2 = c2
  Restorer = restorer
  Callers = {c1, c2, restorer}
  small = small
  big = big
  Data = {small, big}
  Size <- MCSize
  MaxSegments = 2
  MaxSegmentSize = 2
  StartSegment = 0
  MaxSeqNo = 4
  MaxSegNo = 5
SPECIFICATION FairSpec
INVARIANTS
  NoAckedEntryDropped
  AckedBelowNext
PROPERTY AppendReturns
