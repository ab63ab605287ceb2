CONSTANTS
  p1 = p1
  p2 = p2
  p3 = p3
  f1 = f1
  f2 = f2
  e1 = e1
  e2 = e2
  s1 = s1
  s2 = s2
  k1 = k1
  k2 = k2
  k3 = k3
  Procs <- MCProcs
  Names <- MCNames
  Entries <- MCEntries
  Sectors <- MCSectors
  Inodes <- MCInodes
  None = None
  MAX_FD = 2
  MAX_CALLS = 2
SPECIFICATION Spec
SYMMETRY Symmetry
INVARIANTS CountsRight OpensShareInode 
CHECK_DEADLOCK FALSE
