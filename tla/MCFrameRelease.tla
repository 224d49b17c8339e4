--------------------------- MODULE MCFrameRelease ---------------------------
EXTENDS FrameRelease

\* Two buffers, so one can be reused while a view of the other is still
\* held; a one-slot evt_queue, so a second frame meets QUEUE_FULL.
TwoBuffers == {"b1", "b2"}
=============================================================================
