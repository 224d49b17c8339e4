\* Stale start: start_stream confirmed after a capture was accepted on the device.
CONSTANTS
  camA = camA
  camB = camB
  HwIds <- OneCam
  RigMembers <- OneCam
  Intents <- OneIntent
  MaxInstance = 1
  MaxStream = 1
  MaxCapture = 1
  EvtCap = 2
SPECIFICATION Spec
INVARIANT NoStreamDuringCapture
CHECK_DEADLOCK FALSE
