CONSTANTS
  j1 = j1
  j2 = j2
  j3 = j3
  w1 = w1
  w2 = w2
  w3 = w3
  x1 = x1
  x2 = x2
  NoJob = NoJob
  Jobs = {j1, j2}
  Workers = {w1, w2}
  Closers = {x1}
  MinWorkers = 0
  MaxWorkers = 1
  MaxRetries = 1
  BufferSize = 1
SPECIFICATION FairSpec
CHECK_DEADLOCK FALSE
PROPERTIES
  ImplementsQueue
  Answered
  SubmitReturns
  ShutdownReturns
