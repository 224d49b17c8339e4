\* Every command is replied: commands still in cmd_queue when shutdown is
\* requested are never drained by the shutdown sequence.
CONSTANTS
  Devs <- TwoDevs
  MaxCmd = 3
  CmdCap = 1
  WarmHold <- WarmFirst
  Hold = 1
  MaxTime = 1
SPECIFICATION Spec
PROPERTY CommandEventuallyReplied
CHECK_DEADLOCK FALSE
