SPECIFICATION Spec
CONSTANTS
  r = r
  w = w
  Buffers <- MCBuffers
  Byte = {0, 1}
  Zero = 0
  InitSize = 1
  ExtraSize = 2
  MaxSize = 3
  MaxChunk = 2
INVARIANTS
  TypeOK
PROPERTIES
  ImplementsFifo
