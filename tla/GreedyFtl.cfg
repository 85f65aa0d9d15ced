SPECIFICATION Spec
CONSTANTS
  NUM_BANKS = 2
  VBLKS_PER_BANK = 7
  PAGES_PER_BLK = 4
  SECTORS_PER_PAGE = 2
  NUM_LPAGES = 3
  MAPBLKS_PER_BANK = 1
  MAP_ENTRIES = 2
  format_mark_page_offset = 2
  Plain = Plain
  Mark = Mark
  Erased = Erased
  scan_list <- OneBad
  Writes <- HostWrites
INVARIANTS ReadsLatest MetadataAgrees MapLogged AssertsHoldUnlessAliased
PROPERTY NoReprogram
