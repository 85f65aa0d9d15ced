SPECIFICATION Spec
CONSTANTS
  NUM_BANKS = 2
  VBLKS_PER_BANK = 10
  PAGES_PER_BLK = 4
  SECTORS_PER_PAGE = 2
  NUM_REGION = 2
  NUM_LPAGES = 7
  MAP_ENTRIES = 7
  INFO_ENTRIES = 10
  Plain = Plain
  Mark = Mark
  Erased = Erased
  scan_list <- ScanList
  erase_failed <- EraseFailed
  Workload <- LightLoad
  MaxFlushes = 6
INVARIANT NoReprogram
\* writes and flushes are bounded
CHECK_DEADLOCK FALSE
