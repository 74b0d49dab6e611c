CONSTANTS
  c1 = c1
  c2 = c2
  g1 = g1
  x1 = x1
  x2 = x2
  NoConn = NoConn
  Conns = {c1, c2}
  Creators = {g1}
  ChanCap = 1
  Users = {x1, x2}
  MaxFaults = 1
SPECIFICATION FairSpec
CHECK_DEADLOCK FALSE
INVARIANTS
  PoolTypeOK
  AcceptedServed
  CloseMeansQuiet
  OneOwner
  NoneForgotten
  ConnInv
PROPERTIES
  LoopsEnd
  PoolCallsReturn
  ClosedPoolFreesServer
