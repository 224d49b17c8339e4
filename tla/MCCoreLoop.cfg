\* The core loop, warm scheduling and shutdown: two instances (one with
\* warm_hold_ms > 0), three commands, warm hold of one tick, clock to 1.
CONSTANTS
  Devs <- TwoDevs
  MaxCmd = 3
  CmdCap = 1
  WarmHold <- WarmFirst
  Hold = 1
  MaxTime = 1
SPECIFICATION Spec
INVARIANT TypeOK PublishedConverged ExitClean
PROPERTY LoopEventuallyExits WarmHoldHonoured WarmEventuallyEnds CommandAnsweredWhileRunning
CHECK_DEADLOCK FALSE
