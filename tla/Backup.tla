------------------------------- MODULE Backup -------------------------------
(***************************************************************************)
(* A file copy inside the SSD from end to end: issd_compute and            *)
(* issd_createCmd (issd_compute.c, PCModule2) turn an input and an output  *)
(* file into lists of sector extents, and do_issd_backup (issd.c) on the   *)
(* device copies the sectors of one list to the other, in chunks as large  *)
(* as the computing buffer.                                                *)
(*                                                                         *)
(* The file system (external) gives each logical block of a file a block   *)
(* of the partition, 0 for a hole, and allocates the output in any order.  *)
(* Another process may append to the input while the command is built.     *)
(* Every sector of the disk holds its own number to begin with, so that a  *)
(* sector tells where its content comes from.  The transport of the        *)
(* command is AfTransport, the reads and writes of pages TutorialFtl.      *)
(***************************************************************************)
EXTENDS Integers, Sequences, SequencesExt, FiniteSets, FiniteSetsExt

CONSTANTS
  Blocks,             \* blocks of the partition that files may use
  SECTORS_PER_BLOCK,  \* 1 << (fs_blkbits - 9)
  BYTES_PER_SECTOR,
  SECTORS_PER_PAGE,
  ISSD_CNT_PAGES,     \* pages of the computing buffer
  part_start,         \* first sector of the partition
  max_fileExt_num,    \* extents for which a command has room
  MAX_FILE_BLOCK_LEN, \* length of blockList
  MaxBlocks,          \* bound: blocks of the input of a copy, to begin with
  MaxMergeBlocks,     \* bound: blocks of the inputs of a merge together
  MaxOldBlocks,       \* bound: blocks of an output file that exists already
  MaxAppends,         \* bound: appends to the input while the command is built
  AppendSizes,        \* bound: bytes of an append
  Ops

ASSUME BlocksNat == Blocks \subseteq Nat \ {0} /\ Blocks # {} /\ IsFiniteSet(Blocks)
ASSUME SizesPositive ==
  {SECTORS_PER_BLOCK, BYTES_PER_SECTOR, SECTORS_PER_PAGE, ISSD_CNT_PAGES,
   max_fileExt_num, MAX_FILE_BLOCK_LEN} \subseteq Nat \ {0}
ASSUME PartitionAfterStart == part_start \in Nat /\ part_start >= SECTORS_PER_BLOCK
ASSUME AppendsPositive == AppendSizes \subseteq Nat \ {0}
ASSUME BoundsNat == {MaxBlocks, MaxMergeBlocks, MaxOldBlocks, MaxAppends} \subseteq Nat
ASSUME BackupOps == Ops \subseteq {"ISSD_FILECOPY", "ISSD_MERGE"}

VARIABLES
  pc,         \* where issd_compute, and then do_issd_backup, is
  op,         \* opType
  files,      \* the files of the command, the output last: blocks and size in bytes
  oldSize,    \* history: size of the output file before the call
  cur,        \* curFileIdx
  blockList,  \* what extractBlocks has found
  cmd,        \* afCommand_t: fileSize, file_ext_offset, fileExtArr, isOK
  bk,         \* the locals of do_issd_backup
  buffer,     \* sectors of the computing buffer
  disk,       \* sectors of the device
  appends     \* appends so far

hostVars == <<op, files, oldSize, cur, blockList, appends>>
devVars  == <<bk, buffer, disk>>
vars     == <<pc, hostVars, cmd, devVars>>

blksize   == SECTORS_PER_BLOCK * BYTES_PER_SECTOR
CeilDiv(a, b)      == (a + b - 1) \div b
get_nr_blocks(size) == CeilDiv(size, blksize)
Hole      == 0                \* FIBMAP of a logical block that has none
NumFiles(o) == IF o = "ISSD_MERGE" THEN 3 ELSE 2
Out       == NumFiles(op) - 1 \* index of the output file
NoFile    == [blocks |-> <<>>, size |-> 0]

Sectors   == 0 .. part_start + (Max(Blocks) + 1) * SECTORS_PER_BLOCK - 1
BufSectors == 0 .. ISSD_CNT_PAGES * SECTORS_PER_PAGE - 1
Junk      == -1               \* a sector of the buffer that was never read

\* The sector of the disk that holds sector i of a file with these blocks
SectorOf(bs, i) == part_start + bs[(i \div SECTORS_PER_BLOCK) + 1] * SECTORS_PER_BLOCK
                              + (i % SECTORS_PER_BLOCK)

InUse     == (UNION {Range(files[f].blocks) : f \in DOMAIN files}) \ {Hole}
NoSharing(bs) == \A i, j \in DOMAIN bs : i # j /\ bs[i] # Hole => bs[i] # bs[j]
BlockSeqs(n)  == {bs \in UNION {[1 .. k -> Blocks \cup {Hole}] : k \in 0 .. n} : NoSharing(bs)}
SizesFor(bs)  == IF bs = <<>> THEN {0} ELSE (Len(bs) - 1) * blksize + 1 .. Len(bs) * blksize

NoBk == [i |-> 0, k |-> 0, start |-> 0, off |-> 0, rd |-> 0, wr |-> 0, buf |-> 0,
         index |-> 0, offset |-> 0]

Init ==
  /\ pc = "size"
  /\ op \in Ops
  /\ \E all \in BlockSeqs(IF op = "ISSD_MERGE" THEN MaxMergeBlocks ELSE MaxBlocks),
        old \in BlockSeqs(MaxOldBlocks), n \in 0 .. MaxBlocks :
       /\ n <= Len(all) /\ (op = "ISSD_FILECOPY" => n = Len(all))
       /\ op = "ISSD_MERGE" => old = <<>> /\ Hole \notin Range(all)    \* a bound
       /\ Hole \notin Range(old) /\ NoSharing(all \o old)
       /\ \E s0 \in SizesFor(SubSeq(all, 1, n)), s1 \in SizesFor(SubSeq(all, n + 1, Len(all))) :
            LET in0 == [blocks |-> SubSeq(all, 1, n), size |-> s0]
                in1 == [blocks |-> SubSeq(all, n + 1, Len(all)), size |-> s1]
                out == [blocks |-> old, size |-> Len(old) * blksize]
            IN  files = [f \in 0 .. NumFiles(op) - 1 |->
                           IF f = 0 THEN in0 ELSE IF f = NumFiles(op) - 1 THEN out ELSE in1]
       /\ oldSize = Len(old) * blksize
  /\ cur = 0
  /\ blockList = <<>>
  /\ cmd = [fileSize |-> [f \in DOMAIN files |-> 0], isOK |-> FALSE,
            file_ext_offset |-> [f \in 0 .. NumFiles(op) |-> 0], fileExtArr |-> <<>>]
  /\ bk = NoBk
  /\ buffer = [s \in BufSectors |-> Junk]
  /\ disk = [s \in Sectors |-> s]
  /\ appends = 0

-----------------------------------------------------------------------------
(* The host: issd_compute *)

\* Another process appends n bytes to the first input file.  Appends that come
\* later than line 211 change nothing that the command holds.
Append0(n) ==
  /\ cur = 0 /\ pc \in {"size", "extract", "post"}
  /\ appends < MaxAppends
  /\ LET f == files[0]
         more == get_nr_blocks(f.size + n) - Len(f.blocks)
     IN  /\ get_nr_blocks(f.size + n) <= MAX_FILE_BLOCK_LEN
         /\ \E new \in {bs \in [1 .. more -> Blocks \ InUse] : NoSharing(bs)} :
              files' = [files EXCEPT ![0] = [blocks |-> f.blocks \o new, size |-> f.size + n]]
  /\ appends' = appends + 1
  /\ UNCHANGED <<pc, op, oldSize, cur, blockList, cmd, devVars>>

\* getLbaExts: fileSize[curFileIdx] = get_fileSize(fd)
GetSize ==
  /\ pc = "size"
  /\ cmd' = [cmd EXCEPT !.fileSize[cur] = files[cur].size]
  /\ pc' = "extract"
  /\ UNCHANGED <<hostVars, devVars>>

\* extractBlocks: the blocks of the file as it is now; the rest of the list is -1
FileBlocks == [i \in 1 .. MAX_FILE_BLOCK_LEN |->
                 IF i <= Len(files[cur].blocks) THEN files[cur].blocks[i] ELSE -1]

ExtractBlocks ==
  /\ pc = "extract"
  /\ get_nr_blocks(files[cur].size) <= MAX_FILE_BLOCK_LEN
  /\ blockList' = FileBlocks
  /\ pc' = "post"
  /\ UNCHANGED <<op, files, oldSize, cur, cmd, appends, devVars>>

\* Every failure of issd_createCmd makes issd_compute unlink the output
Unlink ==
  /\ files' = [files EXCEPT ![Out] = NoFile]
  /\ pc' = "failed"
  /\ UNCHANGED <<op, oldSize, cur, blockList, appends, cmd, devVars>>

FileTooLarge ==
  /\ pc = "extract"
  /\ get_nr_blocks(files[cur].size) > MAX_FILE_BLOCK_LEN
  /\ Unlink

\* A run of consecutive blocks begins at i
BeginsNot(bs, i)  == i = 1                               \* mutant: always one extent
Begins(bs, i)     == i = 1 \/ bs[i] # bs[i - 1] + 1

\* Where the runs of consecutive blocks begin, in order
Starts(bs, n) ==
  LET begins == {i \in 1 .. n : Begins(bs, i)}
  IN  [j \in 1 .. Cardinality(begins) |->
         CHOOSE i \in begins : Cardinality({h \in begins : h < i}) = j - 1]

\* postProcess: one extent per run of consecutive blocks
Extents(bs, n) ==
  LET starts == Starts(bs, n)
      Next1(j) == IF j = Len(starts) THEN n + 1 ELSE starts[j + 1]
  IN  [j \in DOMAIN starts |->
         [lba |-> part_start + bs[starts[j]] * SECTORS_PER_BLOCK,
          len |-> (Next1(j) - starts[j]) * SECTORS_PER_BLOCK]]

TooManyExtentsNever(offset, exts) == FALSE                    \* mutant
TooManyExtents(offset, exts) == exts # <<>> /\ offset + Len(exts) >= max_fileExt_num

NewExtents == Extents(blockList, get_nr_blocks(files[cur].size))

PostProcess ==
  /\ pc = "post"
  /\ ~ TooManyExtents(cmd.file_ext_offset[cur], NewExtents)
  /\ cmd' = [cmd EXCEPT !.fileExtArr = @ \o NewExtents,
                        !.file_ext_offset[cur + 1] = cmd.file_ext_offset[cur] + Len(NewExtents)]
  /\ cur' = IF cur = Out THEN cur ELSE cur + 1
  /\ pc' = CASE cur = Out     -> "read"
             [] cur = Out - 1 -> "fallocate"
             [] OTHER         -> "size"
  /\ UNCHANGED <<op, files, oldSize, blockList, appends, devVars>>

TooMany ==
  /\ pc = "post"
  /\ TooManyExtents(cmd.file_ext_offset[cur], NewExtents)
  /\ Unlink

wlengthNoTail ==                      \* mutant: only whole blocks are allocated
  (cmd.fileSize[0] \div blksize) * blksize
\* issd_createCmd: length of the output
wlength == CASE op = "ISSD_FILECOPY" -> cmd.fileSize[0]
             [] op = "ISSD_MERGE"    -> cmd.fileSize[0] + cmd.fileSize[1] + blksize

\* open(O_CREAT) without O_TRUNC, then fallocate: an output that exists keeps its
\* blocks, and its size when it is longer
Fallocate ==
  /\ pc = "fallocate"
  /\ wlength > 0
  /\ LET f == files[Out]
         size == IF f.size > wlength THEN f.size ELSE wlength
     IN  \E new \in {bs \in [1 .. get_nr_blocks(size) - Len(f.blocks) -> Blocks \ InUse] : NoSharing(bs)} :
           files' = [files EXCEPT ![Out] = [blocks |-> f.blocks \o new, size |-> size]]
  /\ pc' = "size"
  /\ UNCHANGED <<op, oldSize, cur, blockList, appends, cmd, devVars>>

\* No space, or nothing to allocate (EINVAL for an empty input)
FallocateFails ==
  /\ pc = "fallocate"
  /\ Unlink

\* issd_waitFinish has seen isOK; truncate
Truncate ==
  /\ pc = "wait"
  /\ cmd.isOK
  /\ files' = [files EXCEPT ![Out].size = cmd.fileSize[Out]]
  /\ pc' = "done"
  /\ UNCHANGED <<op, oldSize, cur, blockList, appends, cmd, devVars>>

-----------------------------------------------------------------------------
(* The device: do_issd_backup *)

rd_bio_offset == cmd.file_ext_offset[0]
wr_bio_offset == cmd.file_ext_offset[1]
nr_rd_bios    == wr_bio_offset - rd_bio_offset
nr_wr_bios    == cmd.file_ext_offset[2] - wr_bio_offset
RdExt(i)      == cmd.fileExtArr[rd_bio_offset + i + 1]
WrExt(i)      == cmd.fileExtArr[wr_bio_offset + i + 1]

rd_sectorsAligned(lba, num) ==       \* mutant: the offset in the page is forgotten
  IF num > ISSD_CNT_PAGES * SECTORS_PER_PAGE
  THEN ISSD_CNT_PAGES * SECTORS_PER_PAGE ELSE num

\* Sectors of the next chunk: the rest of the extent, or as much as the buffer holds
rd_sectors(lba, num) ==
  LET need_pages == CeilDiv(lba + num, SECTORS_PER_PAGE) - lba \div SECTORS_PER_PAGE
  IN  IF need_pages > ISSD_CNT_PAGES
      THEN ISSD_CNT_PAGES * SECTORS_PER_PAGE - (lba % SECTORS_PER_PAGE)
      ELSE num

OffsetEndUnclipped(start, rd) == start + rd * BYTES_PER_SECTOR        \* mutant
OffsetEndShort(start, rd) ==         \* mutant: the last sector, partly filled, is forgotten
  LET end == start + rd * BYTES_PER_SECTOR
      whole == (cmd.fileSize[0] \div BYTES_PER_SECTOR) * BYTES_PER_SECTOR
  IN  IF end >= whole THEN whole ELSE end

\* read_file_offset_end
OffsetEnd(start, rd) ==
  LET end == start + rd * BYTES_PER_SECTOR
  IN  IF end >= cmd.fileSize[0] THEN cmd.fileSize[0] ELSE end

\* One turn of the loop over the extents of the input, up to the writes
ReadChunk ==
  /\ pc = "read" /\ op = "ISSD_FILECOPY"
  /\ bk.i < nr_rd_bios
  /\ LET e   == RdExt(bk.i)
         lba == e.lba + bk.k
         off == lba % SECTORS_PER_PAGE
         rd  == rd_sectors(lba, e.len - bk.k)
         end == OffsetEnd(bk.start, rd)
         wr  == CeilDiv(end - bk.start, BYTES_PER_SECTOR)
         last == bk.k + rd = e.len
     IN  /\ buffer' = [s \in BufSectors |-> IF s \in off .. off + rd - 1
                                            THEN disk[lba + s - off] ELSE buffer[s]]
         /\ bk' = [bk EXCEPT !.i = IF last THEN @ + 1 ELSE @,
                             !.k = IF last THEN 0 ELSE @ + rd,
                             !.start = end, !.off = off, !.rd = rd,
                             !.wr = wr, !.buf = off]
         /\ pc' = IF wr = 0 THEN "read" ELSE "write"
  /\ UNCHANGED <<hostVars, cmd, disk>>

\* issd_read_sectors meets a page that was never written: do_issd_backup returns -1,
\* nobody looks at it, isOK stays 0 and issd_waitFinish polls for ever
ReadFails ==
  /\ pc = "read" /\ op = "ISSD_FILECOPY"
  /\ bk.i < nr_rd_bios
  /\ pc' = "hung"
  /\ UNCHANGED <<hostVars, cmd, devVars>>

BufferAt(s) == IF s \in BufSectors THEN buffer[s] ELSE Junk

AdvanceLate(e, n) ==                 \* mutant: > for >= when an extent is full
  [bk EXCEPT !.offset = @ + n]
\* The position in the output after n more sectors of extent e
Advance(e, n) ==
  IF bk.offset + n = e.len THEN [bk EXCEPT !.index = @ + 1, !.offset = 0]
                           ELSE [bk EXCEPT !.offset = @ + n]

\* One turn of the loop over the extents of the output.  The guard is the ASSERT, which
\* stops the firmware when it fails.
WriteExtent ==
  /\ pc = "write"
  /\ bk.index < nr_wr_bios
  /\ LET e    == WrExt(bk.index)
         left == e.len - bk.offset
         n    == IF bk.wr >= left THEN left ELSE bk.wr
         lba  == e.lba + bk.offset
     IN  /\ disk' = [s \in Sectors |-> IF s \in lba .. lba + n - 1
                                       THEN BufferAt(bk.buf + s - lba) ELSE disk[s]]
         /\ bk' = [Advance(e, n) EXCEPT !.wr = @ - n, !.buf = @ + n]
         /\ pc' = IF bk.wr = n THEN "read" ELSE "write"
  /\ UNCHANGED <<hostVars, cmd, buffer>>

\* write_dram_32(&(afCmd->isOK), 1)
BackupDone ==
  /\ pc = "read" /\ op = "ISSD_FILECOPY"
  /\ bk.i = nr_rd_bios
  /\ cmd' = [cmd EXCEPT !.isOK = TRUE]
  /\ pc' = "wait"
  /\ UNCHANGED <<hostVars, devVars>>

\* issd_process_cmd knows no other opType
InvalidCommand ==
  /\ pc = "read" /\ op # "ISSD_FILECOPY"
  /\ pc' = "hung"
  /\ UNCHANGED <<hostVars, cmd, devVars>>

Host   == GetSize \/ ExtractBlocks \/ FileTooLarge \/ PostProcess \/ TooMany
          \/ Fallocate \/ FallocateFails \/ Truncate
Device == ReadChunk \/ ReadFails \/ WriteExtent \/ BackupDone \/ InvalidCommand

Next == Host \/ Device \/ \E n \in AppendSizes : Append0(n)

Spec == Init /\ [][Next]_vars
\* The server's routine and the firmware keep running; nobody need append
FairSpec == Spec /\ WF_vars(Host) /\ WF_vars(Device)

-----------------------------------------------------------------------------
(* Properties *)

\* The variables keep their types.
TypeOK ==
  /\ pc \in {"size", "extract", "post", "fallocate", "read", "write", "wait",
             "done", "failed", "hung"}
  /\ \A f \in DOMAIN files : /\ get_nr_blocks(files[f].size) = Len(files[f].blocks)
                             /\ NoSharing(files[f].blocks)
  /\ cur \in DOMAIN files
  /\ Len(cmd.fileExtArr) <= max_fileExt_num
  /\ bk.index \in 0 .. max_fileExt_num /\ bk.wr \in Nat /\ bk.k \in Nat
  /\ disk \in [Sectors -> Sectors \cup {Junk}]

ExtsOf(f) == SubSeq(cmd.fileExtArr, cmd.file_ext_offset[f] + 1, cmd.file_ext_offset[f + 1])
ExtSectors(e) == [k \in 1 .. e.len |-> e.lba + k - 1]

\* The extents of every file of a command that is sent list the sectors of the file, in
\* order, for all the bytes in fileSize, in as few extents as possible: whatever the
\* fragmentation, the holes, the part of the array that the files before take up, and
\* an append between the three calls of get_fileSize (issd_createCmd, postProcess).
ExtentsExact ==
  pc = "read" /\ bk = NoBk =>
    \A f \in DOMAIN files :
      LET exts == ExtsOf(f)
          secs == FlattenSeq([j \in DOMAIN exts |-> ExtSectors(exts[j])])
      IN  /\ Len(secs) >= CeilDiv(cmd.fileSize[f], BYTES_PER_SECTOR)
          /\ \A i \in 0 .. CeilDiv(cmd.fileSize[f], BYTES_PER_SECTOR) - 1 :
               secs[i + 1] = SectorOf(files[f].blocks, i)
          /\ \A j \in 1 .. Len(exts) - 1 : exts[j].lba + exts[j].len # exts[j + 1].lba

CopySectors == 0 .. CeilDiv(cmd.fileSize[0], BYTES_PER_SECTOR) - 1

\* When issd_compute reports success, the output holds, sector by sector, what the input
\* held when its size was taken, and is as long (or as long as it was before, if that is
\* longer: it is not truncated when it is opened).  A hole comes out as block 0 of the
\* partition, which FIBMAP names for it.
CopyExact ==
  pc = "done" =>
    /\ \A i \in CopySectors :
         disk[SectorOf(files[Out].blocks, i)] = SectorOf(files[0].blocks, i)
    /\ files[Out].size = IF oldSize > cmd.fileSize[0] THEN oldSize ELSE cmd.fileSize[0]

\* At no moment has do_issd_backup written to a sector that is not one of the sectors of
\* the output that the copy needs, nor anything there but the sector of the input.
OnlyOutputWritten ==
  \A s \in Sectors : disk[s] # s =>
    \E i \in CopySectors : /\ s = SectorOf(files[Out].blocks, i)
                           /\ disk[s] = SectorOf(files[0].blocks, i)

\* A chunk fits in the computing buffer, where the command buffer and the write buffer
\* are its neighbours, and the writes take no sector of it that the chunk did not fill.
ChunkInBuffer ==
  /\ bk.off + bk.rd <= ISSD_CNT_PAGES * SECTORS_PER_PAGE
  /\ pc = "write" => bk.buf >= bk.off /\ bk.buf + bk.wr <= bk.off + bk.rd

\* The ASSERT of do_issd_backup holds: the output has an extent left while there are
\* sectors to be written.
OutputHasRoom == pc = "write" => bk.index < nr_wr_bios

\* The copy stays inside its buffer, inside the extents of the output and inside the
\* array of the command.
CopyInBounds == TypeOK /\ ChunkInBuffer /\ OutputHasRoom

\* The command is built and carried out, or given up: neither loop of do_issd_backup
\* goes round for ever.
CommandEnds == <>(pc \in {"done", "failed", "hung"})
=============================================================================
