----------------------------- MODULE MCCoreLoop -----------------------------
EXTENDS CoreLoop

\* Two instances, so shutdown stops and closes more than one in order, and
\* three commands, so one can be queued, one checked and one rejected when
\* shutdown arrives.
TwoDevs == {1, 2}

\* Instance 1 is held warm on disengage; instance 2 is torn down at once.
WarmFirst == {1}
=============================================================================
