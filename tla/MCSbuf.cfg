CONSTANTS
  w1 = w1
  w2 = w2
  w3 = w3
  Workers <- MCWorkers
  Conns <- MCConns
  NoConn = 0
  SBUFSIZE = 2
  MAX_ACCEPT = 5
SPECIFICATION FairSpec
CHECK_DEADLOCK FALSE
INVARIANTS BufferRight
PROPERTIES FifoSpec ConnectionsLeave AcceptResumes
