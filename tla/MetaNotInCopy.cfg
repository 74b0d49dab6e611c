CONSTANTS
  h1 = h1
  h2 = h2
  Restorer = restorer
  Callers = {h1, h2, restorer}
  Names = {a, b}
  m1 = m1
  m2 = m2
  Metas = {m1}
  None = None
  Data <- MCAdds
  Size <- MCSize
  Length <- MCLength
  MaxSegments = 9
  MaxSegmentSize = 2
  StartSegment = 1
  MaxSeqNo = 4
  MaxSegNo = 7
  MaxCrashes = 1
  MaxSnapshots = 1
SPECIFICATION MetaSpec
INVARIANTS
  Durable
