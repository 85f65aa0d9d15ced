CONSTANTS
  sdb = sdb
  sdc = sdc
  sdd = sdd
  sde = sde
  sdf = sdf
  Disks = {sdb, sdc, sdd, sde, sdf}
  Parts = {1}
  shm_num_items = 1
  num_process_routine = 2
  MaxReqs = 5
  MaxAlarms = 2
  MaxKills = 0
  MallocMayFail = FALSE
  Results = {TRUE}
SPECIFICATION Spec
SYMMETRY Symmetry
INVARIANTS MapSound RoutineUnlessFull
PROPERTY SerialPerDisk
\* requests are bounded, and an overfull map leaves the main thread undefined
CHECK_DEADLOCK FALSE
