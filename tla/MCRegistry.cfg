\* Registry and publish step with the retention timer scheduled: safety,
\* retention liveness and the refinement of the snapshot channel.
CONSTANTS
  Natives <- TwoNatives
  Owners <- TwoOwners
  SweepTimer = TRUE
SPECIFICATION Spec
INVARIANT TypeOK
PROPERTY SnapshotRefinement ExpiredEventuallyUnpublished
CHECK_DEADLOCK FALSE
