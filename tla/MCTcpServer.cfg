\* A torn pool is the end of what the program's behaviour is defined for.
SPECIFICATION Spec
CONSTANTS
  Conns = {c1, c2, c3}
  Peers <- MCPeers
  LittleEndian = TRUE
  Workers = {w1, w2}
  Main = main
  None = none
SYMMETRY Symmetry
INVARIANTS
  TypeOK
  PoolServes
  HandlersHaveTheirObject
CHECK_DEADLOCK FALSE
