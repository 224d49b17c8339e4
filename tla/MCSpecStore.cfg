\* Spec stores over one camera: CameraSpec[camA] and ImagingSpec patched
\* with both modes while the camera is engaged, capturing and torn down;
\* every accepted capture still ends under the composed specification.
CONSTANTS
  camA = camA
  camB = camB
  HwIds <- OneCam
  RigMembers <- OneCam
  Intents <- OneIntent
  MaxInstance = 1
  MaxStream = 0
  MaxCapture = 1
  EvtCap = 2
  Values <- TwoValues
  MaxPatch = 3
SPECIFICATION StoreSpec
INVARIANT StoreTypeOK
INVARIANT NoPendingWhenSafe
INVARIANT StoreConverged
INVARIANT ProviderSpecStable
CHECK_DEADLOCK FALSE
PROPERTY CaptureEventuallyEnds
