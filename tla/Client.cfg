CONSTANTS
  c1 = c1
  c2 = c2
  i1 = i1
  i2 = i2
  i3 = i3
  i4 = i4
  s1 = s1
  r1 = r1
  n1 = n1
  NoFile = NoFile
  Conns = {c1, c2}
  Inodes = {i1, i2, i3, i4}
  Senders = {s1}
  Readers = {r1}
  Names = {n1}
  Hole = 0
  Foreign = 3
  Blocks <- MCBlocks
  Files <- MCFiles
  Contents <- MCContents
  Ids <- MCIds
  Hash <- MCHash
  Requests = {}
  ChunkSize = 2
  MaxChunks = 2
  MaxPayloadLen = 3
  MaxWorkers = 1
  MaxRetries = 1
  BufferSize = 2
  MaxFaults = 1
  MaxCrashes = 1
SPECIFICATION FairSpec
CHECK_DEADLOCK FALSE

INVARIANTS
  ReadExact
  ClientLink
PROPERTIES
  SentIsStored
  CallsReturn
