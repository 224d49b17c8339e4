\* Retention sweep only before a publish (no scheduled timer): an expired
\* record stays published while nothing else makes the snapshot dirty.
CONSTANTS
  Natives <- TwoNatives
  Owners <- TwoOwners
  SweepTimer = FALSE
SPECIFICATION Spec
PROPERTY ExpiredEventuallyUnpublished
CHECK_DEADLOCK FALSE
