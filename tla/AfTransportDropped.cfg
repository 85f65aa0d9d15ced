CONSTANTS
  sdb = sdb
  Disks = {sdb}
  DEVICE_NAME = sdb
  Ops = {"ISSD_FILECOPY"}
  MaxPackets = 2
  MaxCmds = 2
  PromptMain = FALSE
  IoctlMayFail = FALSE
  BackupMayFail = FALSE
SPECIFICATION Spec
INVARIANT TruthfulResult
\* commands are bounded
CHECK_DEADLOCK FALSE
