CONSTANTS
  sdb = sdb
  sdc = sdc
  Disks = {sdb, sdc}
  Parts = {0, 9}
  shm_num_items = 2
  num_process_routine = 2
  MaxReqs = 3
  MaxAlarms = 0
  MaxKills = 1
  MallocMayFail = TRUE
  Results = {TRUE, FALSE}
SPECIFICATION FairSpec
INVARIANT NoLostWakeup
PROPERTIES EveryRequestAnswered
\* requests are bounded, and a thread may be blocked for ever by a killed client
CHECK_DEADLOCK FALSE
