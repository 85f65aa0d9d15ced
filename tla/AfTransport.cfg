CONSTANTS
  sdb = sdb
  Disks = {sdb}
  DEVICE_NAME = sdb
  Ops = {"ISSD_FILECOPY", "ISSD_MERGE"}
  MaxPackets = 2
  MaxCmds = 3
  PromptMain = FALSE
  IoctlMayFail = TRUE
  BackupMayFail = TRUE
SPECIFICATION FairSpec
INVARIANTS TypeOK TruthfulUnlessLost WholeCommand
PROPERTY EndsUnlessGivenUp
\* commands are bounded
CHECK_DEADLOCK FALSE
