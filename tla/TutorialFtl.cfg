CONSTANTS
  NUM_BANKS = 2
  VBLKS_PER_BANK = 4
  PAGES_PER_VBLK = 2
  SECTORS_PER_PAGE = 3
  NUM_LPAGES = 2
  NUM_WR_BUFFERS = 3
  NUM_RD_BUFFERS = 2
  Erased = Erased
  Cleared = Cleared
  Buffers <- MCBuffers
  Data <- MCData
  scan_list <- ScanList
  Writes <- MCWrites
  Reads <- MCReads
  Copies <- MCCopies
  MaxOps = 4
SPECIFICATION FairSpec
INVARIANTS StoredLatest ReadsLatest ProgramsSound
PROPERTIES CallsReturn
\* calls are bounded, and a full device stops the firmware
CHECK_DEADLOCK FALSE
