CONSTANTS
  c1 = c1
  c2 = c2
  c3 = c3
  i1 = i1
  i2 = i2
  i3 = i3
  i4 = i4
  NoFile = NoFile
  Conns = {c1, c2, c3}
  Inodes = {i1, i2, i3, i4}
  Hole = 0
  Foreign = 3
  Blocks <- MCBlocks
  Contents <- MCContents
  Ids <- MCIds
  Hash <- MCHash
  Requests <- MCRequests
  MaxPayloadLen = 3
  MaxCrashes = 1
SPECIFICATION ServerSpec
SYMMETRY Symmetry
CHECK_DEADLOCK FALSE
INVARIANT ChunkIntact
