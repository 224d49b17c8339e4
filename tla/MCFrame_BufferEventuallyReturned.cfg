\* On QUEUE_FULL the callback drops the view without releasing it, as the
\* release hook is only to be called from the core thread.
CONSTANTS
  Buffers <- TwoBuffers
  MaxFrame = 5
  EvtCap = 1
  ReleaseOnFull = FALSE
SPECIFICATION Spec

PROPERTY BufferEventuallyReturned
CHECK_DEADLOCK FALSE
