\* Two cameras, both members of the rig: arming, the shared rig capture,
\* device captures beside it, member teardown and re-engage.
CONSTANTS
  camA = camA
  camB = camB
  HwIds <- TwoCams
  RigMembers <- TwoCams
  Intents <- OneIntent
  MaxInstance = 3
  MaxStream = 0
  MaxCapture = 1
  EvtCap = 3
SYMMETRY CamSymmetry
SPECIFICATION Spec
INVARIANT QuiescentAgreement
INVARIANT RigCaptureConsistent
INVARIANT CompletedAfterEveryMember
CHECK_DEADLOCK FALSE
