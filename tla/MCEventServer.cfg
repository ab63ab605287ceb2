CONSTANTS
  c1 = c1
  c2 = c2
  listenfd = listenfd
  None = None
  Clients <- MCClients
  FD_SETSIZE = 2
  MAX_COUNT = 1
SPECIFICATION Spec
INVARIANTS PoolRight RoundComplete 
PROPERTIES Answered Accepted
