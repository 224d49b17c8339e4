\* Spec 8.8 against disengage and re-engage of a member during a rig capture.
CONSTANTS
  camA = camA
  camB = camB
  HwIds <- TwoCams
  RigMembers <- TwoCams
  Intents <- OneIntent
  MaxInstance = 3
  MaxStream = 0
  MaxCapture = 1
  EvtCap = 4
SPECIFICATION Spec
INVARIANT RigCaptureCoversMembers
CHECK_DEADLOCK FALSE
