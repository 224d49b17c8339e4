----------------------------- MODULE MCRegistry -----------------------------
EXTENDS Registry

\* Two instances: one can end while its records are retained (a detached
\* root) as the other stays live.  Three native_ids let both lineages hold
\* records and one hold two; two suffice for the liveness run.
TwoOwners    == {1, 2}
ThreeNatives == 1..3
TwoNatives   == 1..2
=============================================================================
