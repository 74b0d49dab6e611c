CONSTANTS
  j1 = j1
  j2 = j2
  j3 = j3
  w1 = w1
  w2 = w2
  w3 = w3
  x1 = x1
  x2 = x2
  NoJob = NoJob
  Jobs = {j1, j2, j3}
  Workers = {w1, w2, w3}
  Closers = {}
  MinWorkers = 1
  MaxWorkers = 2
  MaxRetries = 0
  BufferSize = 2
SPECIFICATION Spec
SYMMETRY Symmetry
CHECK_DEADLOCK FALSE
INVARIANT QueueServed
