\* Frame ownership with the callback releasing views it cannot enqueue.
CONSTANTS
  Buffers <- TwoBuffers
  MaxFrame = 5
  EvtCap = 1
  ReleaseOnFull = TRUE
SPECIFICATION Spec
INVARIANT TypeOK ExclusiveBuffer
PROPERTY BufferEventuallyReturned
CHECK_DEADLOCK FALSE
