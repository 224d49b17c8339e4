\* Double start: two start_stream calls before the first is confirmed.
CONSTANTS
  camA = camA
  camB = camB
  HwIds <- OneCam
  RigMembers <- OneCam
  Intents <- OneIntent
  MaxInstance = 1
  MaxStream = 1
  MaxCapture = 1
  EvtCap = 2
SPECIFICATION Spec
INVARIANT QuiescentStreamAgreement
CHECK_DEADLOCK FALSE
