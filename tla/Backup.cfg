CONSTANTS
  Blocks = {1, 2, 3, 4, 5}
  SECTORS_PER_BLOCK = 2
  BYTES_PER_SECTOR = 2
  SECTORS_PER_PAGE = 4
  ISSD_CNT_PAGES = 1
  part_start = 3
  max_fileExt_num = 5
  MAX_FILE_BLOCK_LEN = 3
  MaxBlocks = 4
  MaxMergeBlocks = 2
  MaxOldBlocks = 1
  MaxAppends = 1
  AppendSizes = {1, 4}
  Ops = {"ISSD_FILECOPY", "ISSD_MERGE"}
SPECIFICATION FairSpec
INVARIANTS ExtentsExact CopyExact OnlyOutputWritten CopyInBounds
PROPERTIES CommandEnds
\* the model is of one command, which ends
CHECK_DEADLOCK FALSE
