\* One camera (a one-member rig): engage/teardown, streams, replace,
\* preemption by device and rig capture, provider failures.
CONSTANTS
  camA = camA
  camB = camB
  HwIds <- OneCam
  RigMembers <- OneCam
  Intents <- BothIntents
  MaxInstance = 1
  MaxStream = 2
  MaxCapture = 1
  EvtCap = 2
SPECIFICATION Spec
INVARIANT TypeOK
INVARIANT QuiescentAgreement
INVARIANT RigCaptureConsistent
CHECK_DEADLOCK FALSE
