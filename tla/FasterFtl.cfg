SPECIFICATION Spec
CONSTANTS
  NUM_BANKS = 2
  bank = 1
  VBLKS_PER_BANK = 19
  PAGES_PER_BLK = 4
  SECTORS_PER_PAGE = 2
  DATA_BLK_PER_BANK = 3
  ISOL_BLK_PER_BANK = 5
  COR_REF_THRESHOLD = 1
  bad = {9}
  Flush = Flush
  Plain = Plain
  Mark = Mark
  Erased = Erased
  TablePages <- OnePage
  Workload <- MixedLoad
INVARIANTS ReadsLatest NoReprogram TablesSound StopsOnlyIsolation
\* the workload is bounded, and an ASSERT stops the firmware
CHECK_DEADLOCK FALSE
