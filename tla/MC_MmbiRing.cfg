CONSTANTS
  RING_BUFFER_SIZE <- MC_RING_BUFFER_SIZE
  Bytes <- MC_Bytes
  MaxLen <- MC_MaxLen
  ZeroByte = ZeroByte

SPECIFICATION Spec
INVARIANT TypeOK
INVARIANT CursorsAgreeWithCount
PROPERTY FifoRefinement
