---------------------------- MODULE BackupProofs ----------------------------
(***************************************************************************)
(* Proofs about Backup: the command lists the sectors of every file in     *)
(* order, the device stays inside its buffer and inside the lists, writes  *)
(* nothing but sectors of the input to their places in the output, and a   *)
(* copy that is reported done is exact, for every partition, size of block *)
(* and of sector, computing buffer, room for extents, file with or without *)
(* holes and fragments, and sequence of appends to the input.              *)
(*                                                                         *)
(* The inductive invariant IInv has three parts. The files share no block  *)
(* and have as many as their size needs (FilesOk). The extents of a file   *)
(* in the command are those of the first m blocks that it had when         *)
(* extractBlocks ran, m enough for the size that was sent, though          *)
(* postProcess may go over more than m (CmdOk, ListedAs). The device has   *)
(* read as far as (i, k) and written as far as (index, offset): both are   *)
(* positions in a file, start and wr follow from them, the buffer holds    *)
(* the sectors between them, and those before hold what they should while  *)
(* the rest of the disk is untouched (DevOk, Copying).                     *)
(*                                                                         *)
(* ExtentsTile is what connects the host and the device: the extents of a  *)
(* list of blocks, one after the other, are the sectors of the file.       *)
(***************************************************************************)
EXTENDS Backup, NumberLemmas, FiniteSetTheorems, SequenceTheorems, TLAPS

\* Short names of the sizes
SPB == SECTORS_PER_BLOCK
BPS == BYTES_PER_SECTOR

\* What extractBlocks makes of m blocks of a file, in blockList
Seen(bs, m) == [i \in 1 .. MAX_FILE_BLOCK_LEN |-> IF i <= m THEN bs[i] ELSE -1]

\* The device has the command
Sent     == pc \in {"read", "write", "wait", "done", "hung"}
\* The command has the size of file f; it has its extents
Sized(f) == f < cur \/ Sent \/ (pc \in {"extract", "post"} /\ f = cur)
Listed(f) == f < cur \/ Sent

\* A file has the blocks that its size needs, and none twice
FileOk(f) ==
  /\ f \in [blocks : Seq(Blocks \cup {Hole}), size : Nat]
  /\ get_nr_blocks(f.size) = Len(f.blocks)
  /\ NoSharing(f.blocks)

\* No block of f is a block of g
Apart(f, g) ==
  \A i \in DOMAIN f.blocks, j \in DOMAIN g.blocks :
    f.blocks[i] # Hole => f.blocks[i] # g.blocks[j]

\* The files are well formed and apart, and the output has no hole
FilesOk ==
  /\ files = [f \in 0 .. Out |-> files[f]]
  /\ \A f \in 0 .. Out : FileOk(files[f])
  /\ \A f, g \in 0 .. Out : f # g => Apart(files[f], files[g])
  /\ Hole \notin Range(files[Out].blocks)

\* Types of the command
CmdTypes ==
  /\ cmd \in [fileSize : [0 .. Out -> Nat], isOK : BOOLEAN,
              file_ext_offset : [0 .. Out + 1 -> Nat],
              fileExtArr : Seq([lba : Int, len : Int])]
  /\ cmd.file_ext_offset[0] = 0
  /\ Len(cmd.fileExtArr) <= max_fileExt_num

\* The extents of file f are those of m of its blocks, of which the command has no
\* more bytes than they hold
ListedAs(f, m) ==
  LET n    == Len(files[f].blocks)
      exts == Extents(Seen(files[f].blocks, m), n)
      off  == cmd.file_ext_offset
  IN  /\ get_nr_blocks(cmd.fileSize[f]) <= m
      /\ n <= MAX_FILE_BLOCK_LEN
      /\ off[f + 1] = off[f] + Len(exts)
      /\ off[f + 1] <= Len(cmd.fileExtArr)
      /\ \A j \in 1 .. Len(exts) : cmd.fileExtArr[off[f] + j] = exts[j]

\* How much of the command there is, and what blockList holds in between
CmdOk ==
  /\ (Sent \/ pc = "fallocate") => cur = Out
  /\ \A f \in 0 .. Out : Sized(f) => cmd.fileSize[f] <= files[f].size
  /\ Sized(Out) => cmd.fileSize[Out] = files[Out].size
  /\ Len(cmd.fileExtArr) = cmd.file_ext_offset[IF Sent THEN Out + 1 ELSE cur]
  /\ \A f \in 0 .. Out : Listed(f) => \E m \in 0 .. Len(files[f].blocks) : ListedAs(f, m)
  /\ pc = "post" =>
       /\ Len(files[cur].blocks) <= MAX_FILE_BLOCK_LEN
       /\ \E m \in 0 .. Len(files[cur].blocks) :
            blockList = Seen(files[cur].blocks, m) /\ get_nr_blocks(cmd.fileSize[cur]) <= m

\* The output is as long as it was, and from the fallocate on at least wlength
OutputSize ==
  files[Out].size = IF cur # Out \/ pc = "fallocate" \/ oldSize > wlength THEN oldSize ELSE wlength

\* Sectors to be copied
N == CeilDiv(cmd.fileSize[0], BPS)
\* The lesser of two numbers
Least(a, b) == IF a <= b THEN a ELSE b

\* The sector of a file at which extent j of Extents(bs, n) begins, counted from 0
Pos(bs, n) == LET starts == Starts(bs, n)
              IN  [j \in 0 .. Len(starts) |->
                     IF j = Len(starts) THEN n * SPB ELSE (starts[j + 1] - 1) * SPB]

\* The first w sectors of the output hold those of the input, the rest of the disk is as it was
Copied(w) ==
  LET in == files[0].blocks  out == files[Out].blocks
  IN  /\ \A i \in 0 .. w - 1 : disk[SectorOf(out, i)] = SectorOf(in, i)
      /\ \A s \in Sectors : (\A i \in 0 .. w - 1 : s # SectorOf(out, i)) => disk[s] = s

\* Sectors written so far
Written(wpos) == wpos[bk.index] + bk.offset

\* Where the copy is: p sectors read, w written
Copying(rpos, wpos) ==
  LET p == rpos[bk.i] + bk.k
      w == Written(wpos)
      fs == cmd.fileSize[0]
  IN  /\ bk.i \in 0 .. nr_rd_bios /\ bk.index \in 0 .. nr_wr_bios
      /\ IF bk.i = nr_rd_bios THEN bk.k = 0 ELSE bk.k < RdExt(bk.i).len
      /\ IF bk.index = nr_wr_bios THEN bk.offset = 0 ELSE bk.offset < WrExt(bk.index).len
      /\ bk.start = Least(p * BPS, fs)
      /\ w + bk.wr = Least(p, N)
      /\ IF pc = "write" THEN bk.wr > 0 ELSE bk.wr = 0
      /\ pc \in {"wait", "done"} => w = N
      /\ bk.off <= bk.buf /\ bk.buf + bk.wr <= bk.off + bk.rd
      /\ bk.off + bk.rd <= ISSD_CNT_PAGES * SECTORS_PER_PAGE
      /\ pc = "write" => \A t \in 0 .. bk.wr - 1 : buffer[bk.buf + t] = SectorOf(files[0].blocks, w + t)
      /\ Copied(w)

\* Positions of the extents of the output, and of the input with m blocks seen
OutPos == Pos(Seen(files[Out].blocks, Len(files[Out].blocks)), Len(files[Out].blocks))
InPos(m) == Pos(Seen(files[0].blocks, m), Len(files[0].blocks))

\* Types of the device's variables
DevTypes ==
  /\ bk \in [{"i", "k", "start", "off", "rd", "wr", "buf", "index", "offset"} -> Nat]
  /\ buffer \in [BufSectors -> Sectors \cup {Junk}]
  /\ disk \in [Sectors -> Sectors \cup {Junk}]

\* A copy is where Copying says; without one nothing has moved
DevOk ==
  IF Sent /\ op = "ISSD_FILECOPY"
  THEN \E m \in 0 .. Len(files[0].blocks) : ListedAs(0, m) /\ Copying(InPos(m), OutPos)
  ELSE bk = NoBk /\ disk = [s \in Sectors |-> s] /\ pc \notin {"write", "wait", "done"}

\* The state of issd_compute
Control ==
  /\ pc \in {"size", "extract", "post", "fallocate", "read", "write", "wait",
             "done", "failed", "hung"}
  /\ op \in {"ISSD_FILECOPY", "ISSD_MERGE"} /\ cur \in 0 .. Out /\ oldSize \in Nat

\* The inductive invariant
IInv ==
  /\ Control
  /\ FilesOk
  /\ CmdTypes
  /\ pc # "failed" => CmdOk /\ OutputSize
  /\ DevTypes
  /\ DevOk

-----------------------------------------------------------------------------
(* Division, rounded up *)

\* The quotient rounded up is the least q whose multiple is large enough.
LEMMA CeilLe ==
  ASSUME NEW a \in Int, NEW b \in Nat \ {0}, NEW q \in Int
  PROVE  /\ CeilDiv(a, b) \in Int
         /\ CeilDiv(a, b) <= q <=> a <= q * b
<1> DEFINE c == CeilDiv(a, b)
           r == (a + b - 1) % b
<1>1. c \in Int /\ a + b - 1 = b * c + r /\ r \in 0 .. b - 1
  <2>1. a + b - 1 \in Int
    OBVIOUS
  <2> QED
    BY <2>1, DivMod DEF CeilDiv
<1> HIDE DEF c, r
<1>2. b * c \in Int /\ b * q \in Int /\ q * b = b * q
  BY <1>1, SMTT(30)
<1>3. CASE c <= q
  <2>1. b * c <= b * q
    <3>1. q - c \in Nat
      BY <1>1, <1>3
    <3>2. b * (q - c) >= 0
      BY <3>1, SMTT(30)
    <3> QED
      BY <1>1, <3>2, SMTT(30)
  <2> QED
    BY <1>1, <1>2, <1>3, <2>1 DEF c
<1>4. CASE ~(c <= q)
  <2>1. b * c >= b * q + b
    <3>1. c - q - 1 \in Nat
      BY <1>1, <1>4
    <3>2. b * (c - q - 1) >= 0
      BY <3>1, SMTT(30)
    <3> QED
      BY <1>1, <3>2, SMTT(30)
  <2> QED
    BY <1>1, <1>2, <1>4, <2>1 DEF c
<1> QED
  BY <1>3, <1>4

\* Whole multiples pass through the rounding.
LEMMA CeilShift ==
  ASSUME NEW a \in Int, NEW b \in Nat \ {0}, NEW q \in Int
  PROVE  CeilDiv(a - q * b, b) = CeilDiv(a, b) - q
<1> DEFINE c == CeilDiv(a, b)
           e == a - q * b
           d == CeilDiv(e, b)
<1>0. q * b \in Int
  BY SMTT(30)
<1>1. e \in Int
  BY <1>0
<1>2. c \in Int /\ d \in Int
  BY <1>1, CeilLe
<1> HIDE DEF c, d
<1>3. (c - q) * b = c * b - q * b /\ (d + q) * b = d * b + q * b /\ c * b \in Int /\ d * b \in Int
  BY <1>2, SMTT(30)
<1>4. a <= c * b
  BY <1>2, CeilLe DEF c
<1>5. e <= d * b
  <2> HIDE DEF e
  <2> QED BY <1>1, <1>2, CeilLe DEF d
<1>6. e <= (c - q) * b /\ a <= (d + q) * b
  BY <1>0, <1>3, <1>4, <1>5
<1>7. d <= c - q
  <2>1. c - q \in Int
    BY <1>2
  <2> HIDE DEF e
  <2> QED BY <1>1, <2>1, <1>6, CeilLe DEF d
<1>8. c <= d + q
  <2>1. d + q \in Int
    BY <1>2
  <2> QED BY <2>1, <1>6, CeilLe DEF c
<1>9. d = c - q
  BY <1>2, <1>7, <1>8
<1> QED
  BY <1>9 DEF c, d

\* Division rounded up of 0 and of multiples, its type and its order.
LEMMA CeilBasics ==
  ASSUME NEW b \in Nat \ {0}
  PROVE  /\ CeilDiv(0, b) = 0
         /\ \A q \in Int : CeilDiv(q * b, b) = q
         /\ \A a \in Nat : CeilDiv(a, b) \in Nat
         /\ \A a, c \in Int : a <= c => CeilDiv(a, b) <= CeilDiv(c, b)
<1>1. CeilDiv(0, b) = 0
  <2>1. 0 + b - 1 \in 0 .. b - 1
    OBVIOUS
  <2>2. (0 + b - 1) \div b = 0
    BY <2>1, ModSmall
  <2> QED
    BY <2>2 DEF CeilDiv
<1>2. ASSUME NEW q \in Int PROVE CeilDiv(q * b, b) = q
  <2>1. q * b \in Int
    BY SMTT(30)
  <2>2. CeilDiv(q * b - q * b, b) = CeilDiv(q * b, b) - q /\ CeilDiv(q * b, b) \in Int
    BY <2>1, CeilShift, CeilLe
  <2>3. q * b - q * b = 0
    BY <2>1
  <2> QED
    BY <2>2, <2>3, <1>1
<1>3. ASSUME NEW a \in Int, NEW c \in Int, a <= c PROVE CeilDiv(a, b) <= CeilDiv(c, b)
  <2> DEFINE d == CeilDiv(c, b)
  <2>1. d \in Int
    BY CeilLe
  <2>2. c <= d * b
    BY <2>1, CeilLe
  <2>3. d * b \in Int
    BY <2>1, SMTT(30)
  <2> HIDE DEF d
  <2>4. a <= d * b
    BY <1>3, <2>2, <2>3
  <2>5. CeilDiv(a, b) <= d
    BY <2>1, <2>4, CeilLe
  <2> QED
    BY <2>5 DEF d
<1>4. ASSUME NEW a \in Nat PROVE CeilDiv(a, b) \in Nat
  <2>1. CeilDiv(0, b) <= CeilDiv(a, b) /\ CeilDiv(a, b) \in Int
    BY <1>3, CeilLe
  <2> QED
    BY <2>1, <1>1
<1> QED
  BY <1>1, <1>2, <1>3, <1>4

\* The constants, and bytes in blocks and in sectors.
LEMMA Sizes ==
  /\ SPB \in Nat \ {0} /\ BPS \in Nat \ {0} /\ SECTORS_PER_PAGE \in Nat \ {0}
  /\ ISSD_CNT_PAGES \in Nat \ {0} /\ max_fileExt_num \in Nat \ {0}
  /\ MAX_FILE_BLOCK_LEN \in Nat \ {0}
  /\ part_start \in Nat /\ part_start >= SPB
  /\ blksize \in Nat \ {0} /\ blksize = SPB * BPS
  /\ ISSD_CNT_PAGES * SECTORS_PER_PAGE \in Nat
<1>1. /\ SPB \in Nat \ {0} /\ BPS \in Nat \ {0} /\ SECTORS_PER_PAGE \in Nat \ {0}
      /\ ISSD_CNT_PAGES \in Nat \ {0} /\ max_fileExt_num \in Nat \ {0}
      /\ MAX_FILE_BLOCK_LEN \in Nat \ {0}
      /\ part_start \in Nat /\ part_start >= SPB
  BY SizesPositive, PartitionAfterStart DEF SPB, BPS
<1>2. SPB * BPS \in Nat \ {0}
  BY <1>1, SMTT(30)
<1>3. ISSD_CNT_PAGES * SECTORS_PER_PAGE \in Nat
  BY <1>1, SMTT(30)
<1> QED
  BY <1>1, <1>2, <1>3 DEF blksize, SPB, BPS

\* The sectors of a file fit in as many blocks as get_nr_blocks says.
LEMMA BlocksHoldSectors ==
  ASSUME NEW fs \in Nat, NEW m \in Nat
  PROVE  /\ get_nr_blocks(fs) \in Nat
         /\ get_nr_blocks(fs) <= m => CeilDiv(fs, BPS) <= m * SPB
<1>1. get_nr_blocks(fs) \in Nat
  BY Sizes, CeilBasics DEF get_nr_blocks
<1>2. ASSUME get_nr_blocks(fs) <= m PROVE CeilDiv(fs, BPS) <= m * SPB
  <2>1. fs <= m * blksize
    BY <1>2, Sizes, CeilLe DEF get_nr_blocks
  <2>2. m * blksize = (m * SPB) * BPS /\ m * SPB \in Int
    <3>1. m * (SPB * BPS) = (m * SPB) * BPS /\ m * SPB \in Int
      BY Sizes, SMTT(30)
    <3> QED
      BY <3>1, Sizes
  <2>3. fs <= (m * SPB) * BPS
    BY <2>1, <2>2
  <2> DEFINE k == m * SPB
  <2>4. k \in Int
    BY <2>2
  <2> HIDE DEF k
  <2>5. CeilDiv(fs, BPS) <= k
    BY <2>3, <2>4, Sizes, CeilLe DEF k
  <2> QED
    BY <2>5 DEF k
<1> QED
  BY <1>1, <1>2

-----------------------------------------------------------------------------
(* A chunk of the copy *)

\* Multiplication by a positive number.
LEMMA ScaleMono ==
  ASSUME NEW a \in Int, NEW b \in Int, NEW c \in Nat \ {0}
  PROVE  /\ a * c \in Int /\ (a + b) * c = a * c + b * c
         /\ a <= b <=> a * c <= b * c
<1>1. a * c \in Int /\ (a + b) * c = a * c + b * c /\ b * c \in Int
  BY SMTT(30)
<1>2. ASSUME a <= b PROVE a * c <= b * c
  <2>1. b - a \in Nat
    BY <1>2
  <2>2. (b - a) * c >= 0 /\ (b - a) * c = b * c - a * c
    BY <2>1, SMTT(30)
  <2> QED
    BY <1>1, <2>2
<1>3. ASSUME ~(a <= b) PROVE ~(a * c <= b * c)
  <2>1. a - b \in Nat /\ a - b >= 1
    BY <1>3
  <2>2. (a - b) * c >= c /\ (a - b) * c = a * c - b * c
    BY <2>1, SMTT(30)
  <2> QED
    BY <1>1, <2>2
<1> QED
  BY <1>1, <1>2, <1>3

\* The byte and the sector that read_file_offset_end and wr_sectors say: as far as p
\* sectors and then rd more go, but never past the end of the file.
LEMMA ChunkSectors ==
  ASSUME NEW fs \in Nat, NEW p \in Nat, NEW rd \in Nat,
         NEW start, start = Least(p * BPS, fs),
         NEW end, end = IF start + rd * BPS >= fs THEN fs ELSE start + rd * BPS
  PROVE  /\ end = Least((p + rd) * BPS, fs) /\ end \in Nat
         /\ LET Q == CeilDiv(fs, BPS)
            IN  CeilDiv(end - start, BPS) = Least(p + rd, Q) - Least(p, Q)
<1> DEFINE Q == CeilDiv(fs, BPS)
           pb == p * BPS
           rb == rd * BPS
<1>0. BPS \in Nat \ {0} /\ Q \in Int
  BY Sizes, CeilLe
<1>1. pb \in Nat /\ rb \in Nat /\ (p + rd) * BPS = pb + rb /\ p + rd \in Nat
  <2>1. pb \in Nat /\ rb \in Nat
    BY <1>0, SMTT(30)
  <2>2. (p + rd) * BPS = pb + rb
    BY <1>0, ScaleMono
  <2> QED
    BY <2>1, <2>2
<1>2. Q <= p <=> fs <= pb
  BY <1>0, CeilLe
<1>3. Q <= p + rd <=> fs <= pb + rb
  BY <1>0, <1>1, CeilLe
<1>4. CeilDiv(fs - pb, BPS) = Q - p
  BY <1>0, CeilShift
<1>5. CeilDiv(rb, BPS) = rd /\ CeilDiv(0, BPS) = 0
  BY <1>0, CeilBasics
<1>6. start = Least(pb, fs) /\ end = IF start + rb >= fs THEN fs ELSE start + rb
  OBVIOUS
<1> HIDE DEF Q, pb, rb
<1>7. end = Least(pb + rb, fs) /\ end \in Nat
  BY <1>1, <1>6 DEF Least
<1>8. CeilDiv(end - start, BPS) = Least(p + rd, Q) - Least(p, Q)
  <2>1. CASE fs <= pb
    <3>1. end = fs /\ start = fs
      BY <2>1, <1>1, <1>6 DEF Least
    <3>2. end - start = 0
      BY <3>1
    <3>3. Least(p + rd, Q) = Q /\ Least(p, Q) = Q
      BY <2>1, <1>0, <1>1, <1>2, <1>3 DEF Least
    <3> QED
      BY <3>2, <3>3, <1>0, <1>5
  <2>2. CASE fs > pb /\ fs <= pb + rb
    <3>1. end = fs /\ start = pb
      BY <2>2, <1>1, <1>6 DEF Least
    <3>2. Least(p + rd, Q) = Q /\ Least(p, Q) = p
      BY <2>2, <1>0, <1>1, <1>2, <1>3 DEF Least
    <3> QED
      BY <3>1, <3>2, <1>4
  <2>3. CASE fs > pb + rb
    <3>1. end = pb + rb /\ start = pb
      BY <2>3, <1>1, <1>6 DEF Least
    <3>2. end - start = rb
      BY <3>1, <1>1
    <3>3. Least(p + rd, Q) = p + rd /\ Least(p, Q) = p
      BY <2>3, <1>0, <1>1, <1>2, <1>3 DEF Least
    <3> QED
      BY <3>2, <3>3, <1>5, <1>1
  <2> QED
    BY <2>1, <2>2, <2>3, <1>1
<1> QED
  BY <1>1, <1>7, <1>8 DEF Q

\* A chunk has a sector at least, none that the extent has not, and fits in the buffer.
LEMMA ChunkFits ==
  ASSUME NEW lba \in Nat, NEW num \in Nat \ {0}
  PROVE  /\ rd_sectors(lba, num) \in 1 .. num
         /\ lba % SECTORS_PER_PAGE \in Nat
         /\ (lba % SECTORS_PER_PAGE) + rd_sectors(lba, num) <= ISSD_CNT_PAGES * SECTORS_PER_PAGE
<1> DEFINE S == SECTORS_PER_PAGE
           C == ISSD_CNT_PAGES
           q == lba \div S
           off == lba % S
           c == CeilDiv(lba + num, S)
           cs == C * S
<1>0. S \in Nat \ {0} /\ C \in Nat \ {0} /\ cs \in Nat
  BY Sizes
<1>1. lba = S * q + off /\ q \in Int /\ off \in 0 .. S - 1
  BY <1>0, DivMod
<1>2. q + C \in Int /\ c \in Int /\ (c <= q + C <=> lba + num <= (q + C) * S)
  <2>1. q + C \in Int /\ lba + num \in Int
    BY <1>0, <1>1
  <2> QED
    BY <2>1, <1>0, CeilLe
<1>3. (q + C) * S = S * q + cs /\ S * q \in Int
  BY <1>0, <1>1, SMTT(30)
<1>4. cs >= S
  BY <1>0, SMTT(30)
<1>5. rd_sectors(lba, num) = IF c - q > C THEN cs - off ELSE num
  BY DEF rd_sectors
<1> HIDE DEF q, off, c, cs, S, C
<1>6. c - q > C <=> off + num > cs
  BY <1>0, <1>1, <1>2, <1>3
<1>7. /\ rd_sectors(lba, num) \in 1 .. num
      /\ off \in Nat
      /\ off + rd_sectors(lba, num) <= cs
  BY <1>0, <1>1, <1>4, <1>5, <1>6
<1> QED
  BY <1>7 DEF off, cs, S, C

-----------------------------------------------------------------------------
(* Sectors of a file *)

\* Sector r of block q of a file.
LEMMA SectorAt ==
  ASSUME NEW bs, NEW q \in Nat, NEW r \in 0 .. SPB - 1
  PROVE  /\ SectorOf(bs, q * SPB + r) = part_start + bs[q + 1] * SPB + r
         /\ q * SPB + r \in Nat
<1>1. SPB \in Nat \ {0} /\ q * SPB = SPB * q /\ q * SPB \in Nat
  BY Sizes, SMTT(30)
<1>2. (SPB * q + r) \div SPB = q /\ (SPB * q + r) % SPB = r
  BY <1>1, DivModUnique
<1> QED
  BY <1>1, <1>2 DEF SectorOf, SPB

\* Every sector of a file is in one of its blocks.
LEMMA SplitSector ==
  ASSUME NEW i \in Nat, NEW n \in Nat, i < n * SPB
  PROVE  \E q \in 0 .. n - 1, r \in 0 .. SPB - 1 : i = q * SPB + r
<1> DEFINE q == i \div SPB  r == i % SPB
<1>1. SPB \in Nat \ {0}
  BY Sizes
<1>2. i = SPB * q + r /\ q \in Int /\ r \in 0 .. SPB - 1
  BY <1>1, DivMod
<1>3. SPB * q = q * SPB /\ q * SPB \in Int /\ n * SPB \in Int
  BY <1>1, <1>2, SMTT(30)
<1> HIDE DEF q, r
<1>4. q < n
  <2>1. q * SPB < n * SPB
    BY <1>1, <1>2, <1>3
  <2> QED
    BY <2>1, <1>1, <1>2, ScaleMono
<1>5. q >= 0
  <2> SUFFICES ASSUME q <= -1 PROVE FALSE
    BY <1>2
  <2>1. q * SPB <= (-1) * SPB
    BY <1>1, <1>2, ScaleMono
  <2>2. (-1) * SPB = - SPB
    BY <1>1, SMTT(30)
  <2> QED
    BY <2>1, <2>2, <1>1, <1>2, <1>3
<1> QED
  BY <1>2, <1>3, <1>4, <1>5

\* Sectors of two blocks, or at two places of one, are two sectors.
LEMMA BlockSectorsDiffer ==
  ASSUME NEW b \in Int, NEW c \in Int, NEW r \in 0 .. SPB - 1, NEW t \in 0 .. SPB - 1,
         part_start + b * SPB + r = part_start + c * SPB + t
  PROVE  b = c /\ r = t
<1>1. SPB \in Nat \ {0} /\ part_start \in Nat
  BY Sizes
<1>2. b * SPB = SPB * b /\ c * SPB = SPB * c /\ b * SPB \in Int /\ c * SPB \in Int
  BY <1>1, SMTT(30)
<1>3. SPB * b + r = SPB * c + t
  BY <1>1, <1>2
<1>4. (SPB * b + r) \div SPB = b /\ (SPB * b + r) % SPB = r
  BY <1>1, DivModUnique
<1>5. (SPB * c + t) \div SPB = c /\ (SPB * c + t) % SPB = t
  BY <1>1, DivModUnique
<1> QED
  BY <1>3, <1>4, <1>5

-----------------------------------------------------------------------------
(* The sectors of the disk *)

\* The partition has a last block.
LEMMA MaxBlock ==
  /\ Max(Blocks) \in Blocks
  /\ \A b \in Blocks : b <= Max(Blocks)
<1>0. Blocks \in SUBSET Int /\ IsFiniteSet(Blocks) /\ Blocks # {}
  BY BlocksNat
<1>1. Cardinality(Blocks) \in Nat /\ Cardinality(Blocks) # 0
  BY <1>0, FS_CardinalityType, FS_EmptySet
<1>2. PICK p \in Blocks : Cardinality({x \in Blocks : x < p}) = Cardinality(Blocks) - 1
  <2>1. Cardinality(Blocks) - 1 \in 0 .. Cardinality(Blocks) - 1
    BY <1>1
  <2> QED
    BY <1>0, <2>1, CountBelow
<1>3. \A q \in Blocks : p >= q
  <2> SUFFICES ASSUME NEW q \in Blocks, p < q PROVE FALSE
    BY <1>0
  <2>1. Cardinality({x \in Blocks : x < p}) < Cardinality({x \in Blocks : x < q})
    BY <1>0, CountBelow
  <2>2. Cardinality({x \in Blocks : x < q}) \in 0 .. Cardinality(Blocks) - 1
    BY <1>0, CountBelow
  <2> QED
    BY <1>1, <1>2, <2>1, <2>2
<1>4. Max(Blocks) \in Blocks /\ \A q \in Blocks : Max(Blocks) >= q
  <2>1. \E x \in Blocks : \A y \in Blocks : x >= y
    BY <1>3
  <2> QED
    BY <2>1 DEF Max
<1> QED
  BY <1>4, <1>0

\* What blockList may hold lies on the disk: blocks of the partition, 0 for a hole, and
\* -1 for what was not there when the list was made.
LEMMA OnDisk ==
  ASSUME NEW b \in Blocks \cup {0, -1}, NEW r \in 0 .. SPB - 1
  PROVE  part_start + b * SPB + r \in Sectors
<1>1. SPB \in Nat \ {0} /\ part_start \in Nat /\ part_start >= SPB
  BY Sizes
<1>2. Max(Blocks) \in Nat /\ b \in Int /\ -1 <= b /\ b <= Max(Blocks)
  <2>1. Max(Blocks) \in Nat
    BY MaxBlock, BlocksNat
  <2>2. CASE b \in Blocks
    <3>1. b \in Nat /\ b <= Max(Blocks)
      BY <2>2, MaxBlock, BlocksNat
    <3> QED
      BY <2>1, <3>1
  <2>3. CASE b \in {0, -1}
    BY <2>1, <2>3
  <2> QED
    BY <2>2, <2>3
<1> DEFINE M == Max(Blocks)
<1> HIDE DEF M
<1>3. (-1) * SPB <= b * SPB /\ b * SPB <= M * SPB /\ b * SPB \in Int
  <2>1. M \in Int
    BY <1>2 DEF M
  <2> QED
    BY <1>1, <1>2, <2>1, ScaleMono DEF M
<1>4. (-1) * SPB = - SPB /\ (M + 1) * SPB = M * SPB + SPB /\ M * SPB \in Int
  BY <1>1, <1>2, SMTT(30) DEF M
<1>5. Sectors = 0 .. part_start + (M + 1) * SPB - 1
  BY DEF Sectors, M, SPB
<1> QED
  BY <1>1, <1>3, <1>4, <1>5

-----------------------------------------------------------------------------
(* Extents *)

\* st are the places of 1 .. n, in order, where runs of consecutive blocks begin
StartsOk(st, bs, n) ==
  /\ st \in Seq(1 .. n)
  /\ \A j \in 1 .. Len(st) : Begins(bs, st[j])
  /\ \A i, j \in 1 .. Len(st) : i < j => st[i] < st[j]
  /\ \A i \in 1 .. n : Begins(bs, i) => \E j \in 1 .. Len(st) : st[j] = i

\* Starts lists the first blocks of the runs, in order.
LEMMA StartsFacts ==
  ASSUME NEW bs, NEW n \in Nat
  PROVE  StartsOk(Starts(bs, n), bs, n)
<1> DEFINE B == {i \in 1 .. n : Begins(bs, i)}
           At(i) == Cardinality({h \in B : h < i})
           c == Cardinality(B)
           st == [j \in 1 .. c |-> CHOOSE i \in B : At(i) = j - 1]
<1>1. Starts(bs, n) = st
  BY DEF Starts
<1>2. B \in SUBSET Int /\ IsFiniteSet(B)
  <2>1. B \in SUBSET (1 .. n) /\ IsFiniteSet(1 .. n)
    BY FS_Interval
  <2> HIDE DEF B
  <2>2. IsFiniteSet(B)
    BY <2>1, FS_Subset
  <2> QED
    BY <2>1, <2>2
<1>3. /\ c \in Nat
      /\ \A p \in B : At(p) \in 0 .. c - 1 /\ \A q \in B : p < q => At(p) < At(q)
      /\ \A k \in 0 .. c - 1 : \E p \in B : At(p) = k
  <2> HIDE DEF B
  <2> QED
    BY <1>2, CountBelow
<1>4. \A i \in B : i \in 1 .. n /\ Begins(bs, i)
  OBVIOUS
<1>5. \A i \in 1 .. n : Begins(bs, i) => i \in B
  OBVIOUS
<1> HIDE DEF B, At, c
<1>6. ASSUME NEW j \in 1 .. c PROVE st[j] \in B /\ At(st[j]) = j - 1
  <2>1. j - 1 \in 0 .. c - 1
    BY <1>3
  <2>2. \E i \in B : At(i) = j - 1
    BY <1>3, <2>1
  <2> QED
    BY <2>2
<1>7. Len(st) = c /\ st \in Seq(1 .. n)
  <2>1. \A j \in 1 .. c : st[j] \in 1 .. n
    BY <1>4, <1>6
  <2>2. st \in [1 .. c -> 1 .. n]
    BY <2>1
  <2> HIDE DEF st
  <2> QED
    BY <2>2, <1>3, IsASeq, LenProperties
<1> HIDE DEF st
<1>8. ASSUME NEW i \in 1 .. c, NEW j \in 1 .. c, i < j PROVE st[i] < st[j]
  <2>1. st[i] \in B /\ st[j] \in B /\ At(st[i]) = i - 1 /\ At(st[j]) = j - 1
    BY <1>6
  <2>2. ~(st[j] < st[i]) /\ st[j] # st[i]
    BY <2>1, <1>3, <1>8
  <2>3. st[i] \in Int /\ st[j] \in Int
    BY <2>1, <1>4
  <2> QED
    BY <2>2, <2>3
<1>9. ASSUME NEW i \in B PROVE \E j \in 1 .. c : st[j] = i
  <2>1. At(i) \in 0 .. c - 1
    BY <1>3
  <2> DEFINE j == At(i) + 1
  <2>2. j \in 1 .. c /\ At(i) = j - 1
    BY <2>1, <1>3
  <2> HIDE DEF j
  <2>3. st[j] \in B /\ At(st[j]) = At(i)
    BY <1>6, <2>2
  <2>4. ~(st[j] < i) /\ ~(i < st[j])
    BY <1>3, <2>1, <2>3
  <2>5. st[j] \in Int /\ i \in Int
    BY <1>4, <2>3
  <2>6. st[j] = i
    BY <2>4, <2>5
  <2> QED
    BY <2>2, <2>6
<1>10. \A j \in 1 .. c : Begins(bs, st[j])
  BY <1>4, <1>6
<1> QED
  BY <1>1, <1>5, <1>7, <1>8, <1>9, <1>10 DEF StartsOk

\* Where the run after run j begins
StartsNext(st, n, j) == IF j = Len(st) THEN n + 1 ELSE st[j + 1]

\* The first run begins at the first block, and no run inside another.
LEMMA StartsCover ==
  ASSUME NEW bs, NEW n \in Nat, NEW st, StartsOk(st, bs, n)
  PROVE  /\ Len(st) \in Nat /\ (Len(st) = 0 <=> n = 0) /\ (n > 0 => st[1] = 1)
         /\ \A j \in 1 .. Len(st) :
              /\ st[j] \in 1 .. n /\ StartsNext(st, n, j) \in st[j] + 1 .. n + 1
              /\ \A i \in st[j] + 1 .. StartsNext(st, n, j) - 1 : ~ Begins(bs, i)
<1>1. /\ Len(st) \in Nat /\ \A j \in 1 .. Len(st) : st[j] \in 1 .. n
      /\ \A i, j \in 1 .. Len(st) : i < j => st[i] < st[j]
      /\ \A i \in 1 .. n : Begins(bs, i) => \E j \in 1 .. Len(st) : st[j] = i
  <2>1. Len(st) \in Nat /\ st \in [1 .. Len(st) -> 1 .. n]
    BY LenProperties DEF StartsOk
  <2> QED
    BY <2>1 DEF StartsOk
<1>2. n = 0 => Len(st) = 0
  BY <1>1
<1>3. ASSUME n > 0 PROVE Len(st) > 0 /\ st[1] = 1
  <2>1. PICK j \in 1 .. Len(st) : st[j] = 1
    BY <1>1, <1>3 DEF Begins
  <2>2. ~(1 < j)
    BY <1>1, <2>1
  <2>3. j = 1
    BY <1>1, <2>2
  <2> QED
    BY <1>1, <2>1, <2>3
<1>4. ASSUME NEW j \in 1 .. Len(st)
      PROVE  /\ StartsNext(st, n, j) \in st[j] + 1 .. n + 1
             /\ \A i \in st[j] + 1 .. StartsNext(st, n, j) - 1 : ~ Begins(bs, i)
  <2> DEFINE x == StartsNext(st, n, j)
  <2>1. x \in st[j] + 1 .. n + 1
    <3>1. CASE j = Len(st)
      BY <1>1, <3>1 DEF StartsNext
    <3>2. CASE j # Len(st)
      <4>1. j + 1 \in 1 .. Len(st) /\ j < j + 1
        BY <1>1, <3>2
      <4>2. st[j] < st[j + 1] /\ st[j + 1] \in 1 .. n /\ st[j] \in 1 .. n
        BY <1>1, <4>1
      <4> QED
        BY <4>2, <3>2 DEF StartsNext
    <3> QED
      BY <3>1, <3>2
  <2>2. ASSUME NEW i \in st[j] + 1 .. x - 1, Begins(bs, i) PROVE FALSE
    <3>0. st[j] \in 1 .. n /\ i \in Int /\ st[j] < i /\ i < x /\ i <= n
      BY <1>1, <2>1
    <3>1. PICK l \in 1 .. Len(st) : st[l] = i
      BY <1>1, <2>2, <3>0
    <3>2. j < l
      <4>1. ~(l < j) /\ l # j
        BY <1>1, <3>0, <3>1
      <4> QED
        BY <4>1, <1>1
    <3>3. j # Len(st) /\ j + 1 \in 1 .. Len(st)
      BY <1>1, <3>2
    <3>4. st[j + 1] <= i
      <4>1. j + 1 = l \/ j + 1 < l
        BY <3>2
      <4>2. st[j + 1] \in 1 .. n
        BY <1>1, <3>3
      <4> QED
        BY <1>1, <3>1, <3>3, <4>1, <4>2, <3>0
    <3>5. x = st[j + 1]
      BY <3>3 DEF StartsNext
    <3> QED
      BY <3>0, <3>4, <3>5, <1>1, <3>3
  <2> QED
    BY <2>1, <2>2
<1> QED
  BY <1>1, <1>2, <1>3, <1>4

\* The blocks of a run are consecutive.
LEMMA RunIsConsecutive ==
  ASSUME NEW bs, NEW a \in Nat \ {0}, NEW x \in Nat,
         \A i \in a .. x - 1 : bs[i] \in Int,
         \A i \in a + 1 .. x - 1 : ~ Begins(bs, i)
  PROVE  \A d \in Nat : a + d < x => bs[a + d] = bs[a] + d
<1> DEFINE X == {d \in Nat : a + d < x /\ bs[a + d] # bs[a] + d}
<1> SUFFICES ASSUME X # {} PROVE FALSE
  OBVIOUS
<1>1. PICK d \in X : \A e \in X : d <= e
  <2>1. X \in SUBSET Nat
    OBVIOUS
  <2> HIDE DEF X
  <2> QED
    BY <2>1, LeastNat
<1>2. d \in Nat /\ a + d < x /\ bs[a + d] # bs[a] + d
  OBVIOUS
<1>3. d # 0
  <2>1. a \in a .. x - 1 \/ d # 0
    BY <1>2
  <2>2. a + 0 = a /\ (bs[a] \in Int => bs[a] + 0 = bs[a])
    OBVIOUS
  <2> QED
    BY <2>1, <2>2, <1>2
<1>4. d - 1 \in Nat /\ a + (d - 1) < x /\ d - 1 \notin X
  <2>1. d - 1 \in Nat /\ ~(d <= d - 1)
    BY <1>2, <1>3
  <2>2. a + (d - 1) < x
    BY <1>2
  <2> HIDE DEF X
  <2> QED
    BY <2>1, <2>2, <1>1
<1>5. bs[a + (d - 1)] = bs[a] + (d - 1)
  BY <1>4
<1>6. a + d \in a + 1 .. x - 1 /\ a + d # 1 /\ (a + d) - 1 = a + (d - 1) /\ a \in a .. x - 1
  BY <1>2, <1>3
<1>7. bs[a + d] = bs[a + (d - 1)] + 1
  <2>1. ~ Begins(bs, a + d)
    BY <1>6
  <2> QED
    BY <2>1, <1>6 DEF Begins
<1>8. bs[a] \in Int
  BY <1>6
<1> QED
  BY <1>2, <1>5, <1>7, <1>8

\* The extents exts cover the n blocks in bs, one after the other from sector 0, and extent j
\* ends before sector pos[j]
Tiles(exts, pos, bs, n) ==
  /\ exts \in Seq([lba : Nat, len : Nat \ {0}])
  /\ pos \in [0 .. Len(exts) -> Nat]
  /\ pos[0] = 0 /\ pos[Len(exts)] = n * SPB
  /\ \A j \in 1 .. Len(exts) :
       /\ pos[j] = pos[j - 1] + exts[j].len /\ pos[j] <= n * SPB
       /\ \A k \in 0 .. exts[j].len - 1 :
            /\ exts[j].lba + k = SectorOf(bs, pos[j - 1] + k)
            /\ exts[j].lba + k \in Sectors

\* No extent continues the one before it
Unmerged(exts) == \A j \in 1 .. Len(exts) - 1 : exts[j].lba + exts[j].len # exts[j + 1].lba

\* Whatever extractBlocks enters into blockList is a number.
LEMMA BlockInt == \A b \in Blocks \cup {0, -1} : b \in Int
<1> SUFFICES ASSUME NEW b \in Blocks \cup {0, -1} PROVE b \in Int
  OBVIOUS
<1>1. CASE b \in Blocks
  BY <1>1, BlocksNat
<1>2. CASE b \in {0, -1}
  BY <1>2
<1> QED
  BY <1>1, <1>2

\* One extent of a run that begins at block a of the list and ends before block x.
LEMMA RunTile ==
  ASSUME NEW bs, NEW a \in Nat \ {0}, NEW x \in Nat, a < x,
         \A i \in a .. x - 1 : bs[i] \in Blocks \cup {0, -1},
         \A i \in a + 1 .. x - 1 : ~ Begins(bs, i),
         NEW k \in Nat, k < (x - a) * SPB
  PROVE  /\ part_start + bs[a] * SPB + k = SectorOf(bs, (a - 1) * SPB + k)
         /\ part_start + bs[a] * SPB + k \in Sectors
<1>1. SPB \in Nat \ {0}
  BY Sizes
<1>2. PICK d \in 0 .. (x - a) - 1, r \in 0 .. SPB - 1 : k = d * SPB + r
  <2>1. x - a \in Nat
    OBVIOUS
  <2> QED
    BY <2>1, SplitSector
<1>3. d \in Nat /\ a + d < x /\ r \in Int
  BY <1>1, <1>2
<1>4. bs[a + d] = bs[a] + d /\ bs[a] \in Int
  <2>1. \A i \in a .. x - 1 : bs[i] \in Int
    BY BlockInt
  <2>2. a \in a .. x - 1
    OBVIOUS
  <2> QED
    BY <2>1, <2>2, <1>3, RunIsConsecutive
<1>5. a + d \in a .. x - 1 /\ (a - 1) + d \in Nat /\ ((a - 1) + d) + 1 = a + d
  BY <1>3
<1>6. SectorOf(bs, ((a - 1) + d) * SPB + r) = part_start + bs[a + d] * SPB + r
  BY <1>2, <1>5, SectorAt
<1>7. ((a - 1) + d) * SPB + r = (a - 1) * SPB + k
  <2>1. ((a - 1) + d) * SPB = (a - 1) * SPB + d * SPB /\ (a - 1) * SPB \in Int /\ d * SPB \in Int
    <3>1. a - 1 \in Int /\ d \in Int
      BY <1>3
    <3> QED
      BY <1>1, <3>1, ScaleMono
  <2> QED
    BY <2>1, <1>2, <1>3
<1>8. part_start + bs[a + d] * SPB + r = part_start + bs[a] * SPB + k
  <2>1. (bs[a] + d) * SPB = bs[a] * SPB + d * SPB /\ bs[a] * SPB \in Int /\ d * SPB \in Int
    BY <1>1, <1>3, <1>4, ScaleMono
  <2>2. part_start \in Int
    BY Sizes
  <2> QED
    BY <2>1, <2>2, <1>2, <1>3, <1>4
<1>9. part_start + bs[a + d] * SPB + r \in Sectors
  <2>1. bs[a + d] \in Blocks \cup {0, -1}
    BY <1>5
  <2> HIDE DEF Sectors
  <2> QED
    BY <2>1, <1>2, OnDisk
<1> QED
  BY <1>6, <1>7, <1>8, <1>9

\* Starts, extents and positions, one by one.
LEMMA ExtentsShape ==
  ASSUME NEW bs, NEW n \in Nat
  PROVE  LET st == Starts(bs, n)  exts == Extents(bs, n)  pos == Pos(bs, n)
         IN  /\ StartsOk(st, bs, n)
             /\ Len(exts) = Len(st) /\ DOMAIN exts = 1 .. Len(exts) /\ Len(exts) \in Nat
             /\ exts = [j \in 1 .. Len(exts) |-> exts[j]]
             /\ pos = [j \in 0 .. Len(exts) |-> pos[j]]
             /\ pos[0] = 0 /\ pos[Len(exts)] = n * SPB
             /\ \A j \in 1 .. Len(exts) :
                  /\ exts[j] = [lba |-> part_start + bs[st[j]] * SPB,
                                len |-> (StartsNext(st, n, j) - st[j]) * SPB]
                  /\ pos[j] = (StartsNext(st, n, j) - 1) * SPB
                  /\ pos[j - 1] = (st[j] - 1) * SPB
<1> DEFINE st == Starts(bs, n)
           exts == Extents(bs, n)
           pos == Pos(bs, n)
           L == Len(st)
<1>1. StartsOk(st, bs, n)
  BY StartsFacts
<1>2. /\ L \in Nat /\ (L = 0 <=> n = 0) /\ (n > 0 => st[1] = 1) /\ DOMAIN st = 1 .. L
      /\ st \in Seq(1 .. n)
  <2>1. st \in Seq(1 .. n)
    BY <1>1 DEF StartsOk
  <2> HIDE DEF st
  <2> QED
    BY <1>1, <2>1, StartsCover, LenProperties
<1>3. exts = [j \in 1 .. L |-> [lba |-> part_start + bs[st[j]] * SPB,
                                len |-> (StartsNext(st, n, j) - st[j]) * SPB]]
  BY <1>2 DEF Extents, StartsNext, SPB
<1>4. pos = [j \in 0 .. L |-> IF j = L THEN n * SPB ELSE (st[j + 1] - 1) * SPB]
  BY DEF Pos
<1> HIDE DEF st, exts, pos, L
<1>5. Len(exts) = L /\ DOMAIN exts = 1 .. L
  <2>1. DOMAIN exts = 1 .. L
    BY <1>3
  <2>2. \A T : exts \in [1 .. L -> T] => Len(exts) = L
    <3> SUFFICES ASSUME NEW T, exts \in [1 .. L -> T] PROVE Len(exts) = L
      OBVIOUS
    <3>1. exts \in Seq(T)
      BY <1>2, IsASeq
    <3> QED
      BY <3>1, <2>1, <1>2, LenProperties
  <2>3. exts \in [1 .. L -> {exts[j] : j \in 1 .. L}]
    BY <1>3
  <2> QED
    BY <2>1, <2>2, <2>3
<1>6. pos[0] = 0 /\ pos[L] = n * SPB
  <2>1. pos[L] = n * SPB
    BY <1>2, <1>4
  <2>2. CASE L = 0
    <3>1. n = 0 /\ 0 * SPB = 0
      BY <2>2, <1>2, Sizes
    <3> QED
      BY <2>1, <2>2, <3>1
  <2>3. CASE L # 0
    <3>1. pos[0] = (st[0 + 1] - 1) * SPB
      BY <2>3, <1>2, <1>4
    <3>2. n > 0
      BY <2>3, <1>2
    <3>3. st[0 + 1] = 1
      BY <3>2, <1>2
    <3>4. (1 - 1) * SPB = 0
      BY Sizes
    <3> QED
      BY <3>1, <3>3, <3>4, <2>1
  <2> QED
    BY <2>2, <2>3
<1>7. ASSUME NEW j \in 1 .. L
      PROVE  /\ pos[j] = (StartsNext(st, n, j) - 1) * SPB
             /\ pos[j - 1] = (st[j] - 1) * SPB
  <2>1. j \in 0 .. L /\ j - 1 \in 0 .. L /\ j - 1 # L /\ (j - 1) + 1 = j
    BY <1>2
  <2>2. pos[j - 1] = (st[j] - 1) * SPB
    BY <2>1, <1>4
  <2>3. pos[j] = IF j = L THEN n * SPB ELSE (st[j + 1] - 1) * SPB
    BY <2>1, <1>4
  <2>4. (n + 1) - 1 = n
    OBVIOUS
  <2> QED
    BY <2>2, <2>3, <2>4 DEF StartsNext, L
<1>8. exts = [j \in 1 .. L |-> exts[j]] /\ pos = [j \in 0 .. L |-> pos[j]]
  BY <1>3, <1>4
<1> QED
  BY <1>1, <1>2, <1>3, <1>5, <1>6, <1>7, <1>8 DEF st, exts, pos, L

\* postProcess turns any list of blocks into extents that tile it.
LEMMA ExtentsTile ==
  ASSUME NEW bs, NEW n \in Nat, \A i \in 1 .. n : bs[i] \in Blocks \cup {0, -1}
  PROVE  Tiles(Extents(bs, n), Pos(bs, n), bs, n) /\ Unmerged(Extents(bs, n))
<1> DEFINE st == Starts(bs, n)
           exts == Extents(bs, n)
           pos == Pos(bs, n)
           L == Len(exts)
           x(j) == StartsNext(st, n, j)
<1>1. SPB \in Nat \ {0} /\ part_start \in Nat /\ part_start >= SPB
  BY Sizes
<1>2. /\ StartsOk(st, bs, n)
      /\ L = Len(st) /\ L \in Nat /\ DOMAIN exts = 1 .. L
      /\ exts = [j \in 1 .. L |-> exts[j]]
      /\ pos = [j \in 0 .. L |-> pos[j]]
      /\ pos[0] = 0 /\ pos[L] = n * SPB
      /\ \A j \in 1 .. L :
           /\ exts[j] = [lba |-> part_start + bs[st[j]] * SPB, len |-> (x(j) - st[j]) * SPB]
           /\ pos[j] = (x(j) - 1) * SPB
           /\ pos[j - 1] = (st[j] - 1) * SPB
  BY ExtentsShape
<1> HIDE DEF st, exts, pos
<1>3. \A j \in 1 .. L : /\ st[j] \in 1 .. n /\ x(j) \in st[j] + 1 .. n + 1
                        /\ \A i \in st[j] + 1 .. x(j) - 1 : ~ Begins(bs, i)
  BY <1>2, StartsCover
<1> HIDE DEF L, x
<1>4. ASSUME NEW j \in 1 .. L
      PROVE  /\ exts[j].len \in Nat \ {0} /\ exts[j].lba \in Nat
             /\ exts[j].lba = part_start + bs[st[j]] * SPB
             /\ exts[j].len = (x(j) - st[j]) * SPB
             /\ pos[j] = pos[j - 1] + exts[j].len /\ pos[j] <= n * SPB
             /\ pos[j] \in Nat /\ pos[j - 1] \in Nat
  <2>1. st[j] \in 1 .. n /\ x(j) \in st[j] + 1 .. n + 1
    BY <1>3
  <2>2. exts[j].lba = part_start + bs[st[j]] * SPB /\ exts[j].len = (x(j) - st[j]) * SPB
    BY <1>2
  <2> DEFINE a == st[j]
             b == x(j)
  <2>3. a \in 1 .. n /\ b \in a + 1 .. n + 1
    BY <2>1
  <2>3a. exts[j].lba = part_start + bs[a] * SPB /\ exts[j].len = (b - a) * SPB
         /\ pos[j] = (b - 1) * SPB /\ pos[j - 1] = (a - 1) * SPB
    BY <1>2, <2>2
  <2> HIDE DEF a, b
  <2>4. b - a \in Nat \ {0} /\ a - 1 \in Nat /\ b - 1 \in Nat /\ b - 1 <= n
    BY <2>3
  <2>5. (b - a) * SPB \in Nat \ {0} /\ (a - 1) * SPB \in Nat /\ (b - 1) * SPB \in Nat
    BY <2>4, <1>1, SMTT(30)
  <2>6. (b - 1) * SPB = (a - 1) * SPB + (b - a) * SPB
    <3>1. b - 1 = (a - 1) + (b - a) /\ a - 1 \in Int /\ b - a \in Int
      BY <2>3
    <3> QED
      BY <1>1, <3>1, ScaleMono
  <2>7. (b - 1) * SPB <= n * SPB
    BY <1>1, <2>4, ScaleMono
  <2>8. exts[j].lba \in Nat
    <3>1. bs[a] \in Blocks \cup {0, -1} /\ 0 \in 0 .. SPB - 1
      BY <2>3, <1>1
    <3>2. part_start + bs[a] * SPB + 0 \in Sectors
      BY <3>1, OnDisk
    <3>3. bs[a] * SPB \in Int
      <4>1. bs[a] \in Int
        BY <3>1, BlockInt
      <4> QED
        BY <4>1, <1>1, SMTT(30)
    <3>4. \A s \in Sectors : s \in Nat
      BY DEF Sectors
    <3>5. part_start + bs[a] * SPB + 0 = part_start + bs[a] * SPB
      BY <3>3, <1>1
    <3> QED
      BY <3>2, <3>4, <3>5, <2>3a
  <2> QED
    BY <2>2, <2>3a, <2>5, <2>6, <2>7, <2>8
<1>5. ASSUME NEW j \in 1 .. L, NEW k \in 0 .. exts[j].len - 1
      PROVE  /\ exts[j].lba + k = SectorOf(bs, pos[j - 1] + k)
             /\ exts[j].lba + k \in Sectors
  <2> DEFINE a == st[j]
             b == x(j)
  <2>1. /\ a \in 1 .. n /\ b \in a + 1 .. n + 1
        /\ \A i \in a + 1 .. b - 1 : ~ Begins(bs, i)
    BY <1>3
  <2>2. exts[j].lba = part_start + bs[a] * SPB /\ exts[j].len = (b - a) * SPB
        /\ pos[j - 1] = (a - 1) * SPB
    BY <1>2
  <2>3. exts[j].len \in Nat
    BY <1>4
  <2> HIDE DEF a, b
  <2>4. k \in Nat /\ k < (b - a) * SPB
    BY <2>2, <2>3
  <2>5. a \in Nat \ {0} /\ b \in Nat /\ a < b /\ \A i \in a .. b - 1 : i \in 1 .. n
    BY <2>1
  <2>6. /\ part_start + bs[a] * SPB + k = SectorOf(bs, (a - 1) * SPB + k)
        /\ part_start + bs[a] * SPB + k \in Sectors
    <3>1. \A i \in a .. b - 1 : bs[i] \in Blocks \cup {0, -1}
      BY <2>5
    <3> QED
      BY <3>1, <2>1, <2>4, <2>5, RunTile
  <2> QED
    BY <2>2, <2>6
<1>6. exts \in Seq([lba : Nat, len : Nat \ {0}])
  <2>1. \A j \in 1 .. L : exts[j] \in [lba : Nat, len : Nat \ {0}]
    <3> SUFFICES ASSUME NEW j \in 1 .. L PROVE exts[j] \in [lba : Nat, len : Nat \ {0}]
      OBVIOUS
    <3>1. exts[j] = [lba |-> exts[j].lba, len |-> exts[j].len]
      <4>1. exts[j] = [lba |-> part_start + bs[st[j]] * SPB, len |-> (x(j) - st[j]) * SPB]
        BY <1>2
      <4> QED
        BY <4>1
    <3> QED
      BY <3>1, <1>4
  <2>2. exts \in [1 .. L -> [lba : Nat, len : Nat \ {0}]]
    BY <2>1, <1>2
  <2> QED
    BY <2>2, <1>2, IsASeq
<1>7. pos \in [0 .. L -> Nat]
  <2>1. \A j \in 0 .. L : pos[j] \in Nat
    <3> SUFFICES ASSUME NEW j \in 0 .. L PROVE pos[j] \in Nat
      OBVIOUS
    <3>1. j = 0 \/ j \in 1 .. L
      BY <1>2
    <3>2. pos[0] \in Nat
      BY <1>2
    <3> QED
      BY <3>1, <3>2, <1>4
  <2> QED
    BY <2>1, <1>2
<1>8. Unmerged(exts)
  <2> SUFFICES ASSUME NEW j \in 1 .. L - 1 PROVE exts[j].lba + exts[j].len # exts[j + 1].lba
    BY DEF Unmerged, L
  <2>0. j \in 1 .. L /\ j + 1 \in 1 .. L /\ j # L
    BY <1>2
  <2> DEFINE a == st[j]
             b == st[j + 1]
  <2>1. x(j) = b
    BY <2>0, <1>2 DEF x, StartsNext
  <2>2. /\ a \in 1 .. n /\ b \in a + 1 .. n + 1 /\ b \in 1 .. n
        /\ \A i \in a + 1 .. b - 1 : ~ Begins(bs, i)
    BY <1>3, <2>0, <2>1
  <2>3. Begins(bs, b)
    BY <1>2, <2>0 DEF StartsOk
  <2>4. exts[j].lba = part_start + bs[a] * SPB /\ exts[j].len = (b - a) * SPB
        /\ exts[j + 1].lba = part_start + bs[b] * SPB
    BY <1>4, <2>0, <2>1
  <2> HIDE DEF a, b
  <2>5. bs[a + ((b - 1) - a)] = bs[a] + ((b - 1) - a) /\ bs[a] \in Int /\ bs[b] \in Int
    <3>1. \A i \in a .. b - 1 : bs[i] \in Int
      <4>1. \A i \in a .. b - 1 : i \in 1 .. n
        BY <2>2
      <4> QED
        BY <4>1, BlockInt
    <3>2. (b - 1) - a \in Nat /\ a + ((b - 1) - a) < b /\ a \in Nat \ {0} /\ b \in Nat
      BY <2>2
    <3>3. a \in a .. b - 1
      BY <2>2
    <3>4. bs[b] \in Int
      BY <2>2, BlockInt
    <3>5. \A d \in Nat : a + d < b => bs[a + d] = bs[a] + d
      BY <3>1, <3>2, <2>2, RunIsConsecutive
    <3> QED
      BY <3>1, <3>2, <3>3, <3>4, <3>5
  <2>6. bs[b - 1] = bs[a] + (b - 1 - a)
    BY <2>2, <2>5
  <2>7. bs[b] # bs[a] + (b - a)
    <3>1. b # 1
      BY <2>2
    <3>2. bs[b] # bs[b - 1] + 1
      BY <2>3, <3>1 DEF Begins
    <3> QED
      BY <3>2, <2>2, <2>5, <2>6
  <2>8. (bs[a] + (b - a)) * SPB = bs[a] * SPB + (b - a) * SPB /\ bs[a] * SPB \in Int
        /\ (b - a) * SPB \in Int
    <3>1. b - a \in Int
      BY <2>2
    <3>2. bs[a] * SPB \in Int /\ (bs[a] + (b - a)) * SPB = bs[a] * SPB + (b - a) * SPB
      BY <3>1, <2>5, <1>1, ScaleMono
    <3>3. (b - a) * SPB \in Int
      BY <3>1, <1>1, ScaleMono
    <3> QED
      BY <3>2, <3>3
  <2> DEFINE u == bs[a] + (b - a)
  <2>9. u \in Int
    BY <2>2, <2>5
  <2>10. SUFFICES ASSUME exts[j].lba + exts[j].len = exts[j + 1].lba PROVE FALSE
    OBVIOUS
  <2>11. part_start + u * SPB + 0 = part_start + bs[b] * SPB + 0
    <3>1. bs[b] * SPB \in Int
      BY <2>5, <1>1, ScaleMono
    <3> QED
      BY <2>4, <2>8, <2>10, <1>1, <3>1
  <2> HIDE DEF u
  <2>12. 0 \in 0 .. SPB - 1
    BY <1>1
  <2>13. u = bs[b]
    BY <2>5, <2>9, <2>11, <2>12, BlockSectorsDiffer
  <2> QED
    BY <2>13, <2>7 DEF u
<1>9. Tiles(exts, pos, bs, n)
  BY <1>2, <1>4, <1>5, <1>6, <1>7 DEF Tiles, L
<1> QED
  BY <1>8, <1>9 DEF exts, pos

\* g concatenates the sequences of ss one by one
Continues(g, ss) == g = [i \in 1 .. Len(ss) |-> IF i = 1 THEN ss[i] ELSE g[i - 1] \o ss[i]]

\* What FlattenSeq computes is any function that goes on as it does.
LEMMA FlattenIs ==
  ASSUME NEW ss, NEW L \in Nat, Len(ss) = L, L # 0,
         NEW g, Continues(g, ss)
  PROVE  FlattenSeq(ss) = g[L]
<1>0. g = [i \in 1 .. L |-> IF i = 1 THEN ss[i] ELSE g[i - 1] \o ss[i]]
  BY DEF Continues
<1> DEFINE P(f) == f = [i \in 1 .. Len(ss) |-> IF i = 1 THEN ss[i] ELSE f[i - 1] \o ss[i]]
           f == CHOOSE fl : P(fl)
<1>1. FlattenSeq(ss) = f[Len(ss)]
  BY DEF FlattenSeq
<1>2. P(g)
  BY <1>0
<1>3. P(f)
  <2> HIDE DEF P
  <2> QED
    BY <1>2
<1>4. f = [i \in 1 .. L |-> IF i = 1 THEN ss[i] ELSE f[i - 1] \o ss[i]]
  BY <1>3
<1> HIDE DEF f
<1> DEFINE X == {i \in 1 .. L : f[i] # g[i]}
<1>5. X = {}
  <2> SUFFICES ASSUME X # {} PROVE FALSE
    OBVIOUS
  <2>1. PICK i \in X : \A h \in X : i <= h
    <3>1. X \in SUBSET Nat
      OBVIOUS
    <3> HIDE DEF X
    <3> QED
      BY <3>1, LeastNat
  <2>2. i \in 1 .. L /\ f[i] # g[i]
    OBVIOUS
  <2>3. f[i] = (IF i = 1 THEN ss[i] ELSE f[i - 1] \o ss[i])
    BY <2>2, <1>4
  <2>4. g[i] = (IF i = 1 THEN ss[i] ELSE g[i - 1] \o ss[i])
    BY <2>2, <1>0
  <2>5. i # 1 /\ f[i - 1] # g[i - 1]
    BY <2>2, <2>3, <2>4
  <2>6. i - 1 \in 1 .. L
    BY <2>2, <2>5
  <2>7. i - 1 \in X
    BY <2>5, <2>6
  <2>8. i <= i - 1
    <3> HIDE DEF X
    <3> QED
      BY <2>1, <2>7
  <2> QED
    BY <2>2, <2>8
<1>6. f[L] = g[L]
  <2>1. L \in 1 .. L
    OBVIOUS
  <2> QED
    BY <1>5, <2>1
<1> QED
  BY <1>1, <1>6

\* The extents, one after the other, list the sectors of the blocks.
LEMMA TilesFlatten ==
  ASSUME NEW exts, NEW pos, NEW bs, NEW n \in Nat, Tiles(exts, pos, bs, n)
  PROVE  LET secs == FlattenSeq([j \in DOMAIN exts |-> ExtSectors(exts[j])])
         IN  /\ Len(secs) = n * SPB
             /\ \A i \in 0 .. n * SPB - 1 : secs[i + 1] = SectorOf(bs, i)
<1> DEFINE L == Len(exts)
           ss == [j \in DOMAIN exts |-> ExtSectors(exts[j])]
           upto(p) == [k \in 1 .. p |-> SectorOf(bs, k - 1)]
           g == [i \in 1 .. L |-> upto(pos[i])]
<1>0. n * SPB \in Nat
  BY Sizes, SMTT(30)
<1>1. /\ L \in Nat /\ DOMAIN exts = 1 .. L
      /\ \A j \in 1 .. L : exts[j] \in [lba : Nat, len : Nat \ {0}]
      /\ \A j \in 0 .. L : pos[j] \in Nat
      /\ pos[0] = 0 /\ pos[L] = n * SPB
  <2>1. exts \in Seq([lba : Nat, len : Nat \ {0}])
    BY DEF Tiles
  <2>2. L \in Nat /\ DOMAIN exts = 1 .. L /\ exts \in [1 .. L -> [lba : Nat, len : Nat \ {0}]]
    BY <2>1, LenProperties
  <2> QED
    BY <2>2 DEF Tiles
<1>2. \A j \in 1 .. L :
        /\ pos[j] = pos[j - 1] + exts[j].len /\ pos[j - 1] \in Nat /\ pos[j] \in Nat
        /\ exts[j].len \in Nat /\ exts[j].lba \in Nat
        /\ \A k \in 0 .. exts[j].len - 1 : exts[j].lba + k = SectorOf(bs, pos[j - 1] + k)
  <2> SUFFICES ASSUME NEW j \in 1 .. L
               PROVE  /\ pos[j] = pos[j - 1] + exts[j].len /\ pos[j - 1] \in Nat /\ pos[j] \in Nat
                      /\ exts[j].len \in Nat /\ exts[j].lba \in Nat
                      /\ \A k \in 0 .. exts[j].len - 1 : exts[j].lba + k = SectorOf(bs, pos[j - 1] + k)
    OBVIOUS
  <2>1. j - 1 \in 0 .. L /\ j \in 0 .. L
    BY <1>1
  <2>2. exts[j] \in [lba : Nat, len : Nat \ {0}]
    BY <1>1
  <2>3. pos[j - 1] \in Nat /\ pos[j] \in Nat
    BY <1>1, <2>1
  <2> QED
    BY <2>2, <2>3 DEF Tiles
<1>3. Len(ss) = L
  <2>1. ss = [j \in 1 .. L |-> ExtSectors(exts[j])]
    BY <1>1
  <2>2. ss \in [1 .. L -> {ExtSectors(exts[j]) : j \in 1 .. L}]
    BY <2>1
  <2> HIDE DEF ss, L
  <2> QED
    BY <2>2, <1>1, IsASeq, LenProperties
<1> HIDE DEF L
<1>4. \A p \in Nat : Len(upto(p)) = p /\ upto(p) \in Seq({SectorOf(bs, i) : i \in Nat})
  <2> SUFFICES ASSUME NEW p \in Nat
               PROVE  Len(upto(p)) = p /\ upto(p) \in Seq({SectorOf(bs, i) : i \in Nat})
    OBVIOUS
  <2>1. upto(p) \in [1 .. p -> {SectorOf(bs, i) : i \in Nat}]
    OBVIOUS
  <2>2. DOMAIN upto(p) = 1 .. p
    OBVIOUS
  <2> HIDE DEF upto
  <2> QED
    BY <2>1, <2>2, IsASeq, LenProperties
<1>5. CASE L = 0
  <2>1. FlattenSeq(ss) = ss /\ n * SPB = 0
    BY <1>1, <1>3, <1>5 DEF FlattenSeq
  <2> HIDE DEF ss
  <2> QED
    BY <2>1, <1>3, <1>5 DEF ss
<1>6. CASE L # 0
  <2>1. ASSUME NEW j \in 1 .. L PROVE upto(pos[j]) = IF j = 1 THEN ss[j] ELSE g[j - 1] \o ss[j]
    <3>1. /\ ss[j] = [k \in 1 .. exts[j].len |-> exts[j].lba + k - 1]
      BY <1>1 DEF ExtSectors
    <3>2. /\ pos[j] = pos[j - 1] + exts[j].len /\ pos[j - 1] \in Nat /\ pos[j] \in Nat
          /\ exts[j].len \in Nat /\ exts[j].lba \in Nat
      BY <1>2
    <3>3. ASSUME NEW k \in 1 .. exts[j].len
          PROVE  ss[j][k] = SectorOf(bs, pos[j - 1] + (k - 1))
      <4>1. k - 1 \in 0 .. exts[j].len - 1 /\ exts[j].lba + k - 1 = exts[j].lba + (k - 1)
        BY <3>2
      <4> QED
        BY <4>1, <3>1, <1>2
    <3> HIDE DEF ss
    <3>4. CASE j = 1
      <4>1. pos[j] = exts[j].len /\ pos[j - 1] = 0
        <5>1. j - 1 = 0
          BY <3>4
        <5> QED
          BY <3>2, <5>1, <1>1
      <4>2. ASSUME NEW k \in 1 .. exts[j].len PROVE ss[j][k] = SectorOf(bs, k - 1)
        <5>1. pos[j - 1] + (k - 1) = k - 1
          BY <4>1
        <5> QED
          BY <5>1, <3>3
      <4>3. ss[j] = [k \in 1 .. exts[j].len |-> ss[j][k]]
        BY <3>1
      <4>4. ss[j] = upto(pos[j])
        BY <4>1, <4>2, <4>3
      <4> QED
        BY <4>4, <3>4
    <3>5. CASE j # 1
      <4>1. j - 1 \in 1 .. L
        BY <3>5, <1>1
      <4>2. g[j - 1] = upto(pos[j - 1])
        BY <4>1
      <4> HIDE DEF g
      <4> DEFINE p == pos[j - 1]  q == exts[j].len
      <4>3. ss[j] \in [1 .. q -> Nat \cup {SectorOf(bs, i) : i \in Nat}] /\ DOMAIN ss[j] = 1 .. q
        <5>1. \A k \in 1 .. q : exts[j].lba + k - 1 \in Nat
          BY <3>2
        <5> QED
          BY <3>1, <5>1
      <4>4. p \in Nat /\ q \in Nat /\ pos[j] = p + q
        BY <3>2
      <4>5. upto(p) \in [1 .. p -> {SectorOf(bs, i) : i \in Nat}] /\ DOMAIN upto(p) = 1 .. p
        <5>1. \A k \in 1 .. p : k - 1 \in Nat
          OBVIOUS
        <5> QED
          BY <5>1
      <4>6. \A k \in 1 .. p : upto(p)[k] = SectorOf(bs, k - 1)
        OBVIOUS
      <4>7. \A k \in 1 .. p + q : upto(p + q)[k] = SectorOf(bs, k - 1)
        OBVIOUS
      <4>8. upto(p + q) = [k \in 1 .. p + q |-> upto(p + q)[k]]
        OBVIOUS
      <4> DEFINE T == Nat \cup {SectorOf(bs, i) : i \in Nat}
                 u == upto(p)
                 v == ss[j]
                 w == upto(p + q)
      <4>9. /\ u \in Seq(T) /\ v \in Seq(T) /\ Len(u) = p /\ Len(v) = q
        <5>1. u \in [1 .. p -> T] /\ v \in [1 .. q -> T] /\ DOMAIN u = 1 .. p /\ DOMAIN v = 1 .. q
          BY <4>3, <4>5
        <5> HIDE DEF u, v, T, p, q
        <5>2. u \in Seq(T) /\ v \in Seq(T)
          BY <5>1, <4>4, IsASeq
        <5>3. Len(u) = p
          BY <5>1, <5>2, <4>4, LenProperties
        <5>4. Len(v) = q
          BY <5>1, <5>2, <4>4, LenProperties
        <5> QED
          BY <5>2, <5>3, <5>4
      <4>10. \A k \in 1 .. q : v[k] = SectorOf(bs, p + (k - 1))
        BY <3>3
      <4> HIDE DEF u, v, w, T, upto, p, q
      <4>11. /\ u \o v \in Seq(T) /\ Len(u \o v) = p + q
             /\ \A k \in 1 .. p + q : (u \o v)[k] = IF k <= p THEN u[k] ELSE v[k - p]
        BY <4>9, <4>4, ConcatProperties
      <4>12. u \o v = [k \in 1 .. p + q |-> (u \o v)[k]]
        <5>1. u \o v \in [1 .. Len(u \o v) -> T]
          BY <4>11, LenProperties
        <5> QED
          BY <5>1, <4>11
      <4>13. ASSUME NEW k \in 1 .. p + q PROVE (u \o v)[k] = w[k]
        <5>1. w[k] = SectorOf(bs, k - 1)
          BY <4>7 DEF w
        <5>2. CASE k <= p
          <6>1. k \in 1 .. p
            BY <5>2, <4>4
          <6> QED
            BY <5>1, <5>2, <6>1, <4>11, <4>6 DEF u
        <5>3. CASE ~(k <= p)
          <6>1. k - p \in 1 .. q /\ p + ((k - p) - 1) = k - 1
            BY <5>3, <4>4
          <6> QED
            BY <5>1, <5>3, <6>1, <4>11, <4>10
        <5> QED
          BY <5>2, <5>3
      <4>14. u \o v = w
        BY <4>12, <4>13, <4>8 DEF w
      <4> QED
        BY <4>14, <4>2, <4>4, <3>5 DEF u, v, w, p
    <3> QED
      BY <3>4, <3>5
  <2>2. g = [i \in 1 .. L |-> IF i = 1 THEN ss[i] ELSE g[i - 1] \o ss[i]]
    <3> HIDE DEF ss, upto
    <3>1. \A i \in 1 .. L : g[i] = upto(pos[i])
      OBVIOUS
    <3>2. g = [i \in 1 .. L |-> g[i]]
      OBVIOUS
    <3> HIDE DEF g
    <3> QED
      BY <3>1, <3>2, <2>1
  <2>3. g[L] = upto(pos[L])
    <3>1. L \in 1 .. L
      BY <1>1, <1>6
    <3> QED
      BY <3>1
  <2>4. FlattenSeq(ss) = g[L]
    <3> HIDE DEF g, ss
    <3>1. Continues(g, ss)
      BY <2>2, <1>3 DEF Continues
    <3> QED
      BY <3>1, <1>1, <1>3, <1>6, FlattenIs
  <2>5. FlattenSeq(ss) = upto(n * SPB)
    <3> HIDE DEF g, ss, upto
    <3> QED
      BY <2>3, <2>4, <1>1
  <2>6. \A i \in 0 .. n * SPB - 1 : upto(n * SPB)[i + 1] = SectorOf(bs, i)
    <3> DEFINE z == n * SPB
    <3>1. z \in Nat
      BY <1>0
    <3> HIDE DEF z
    <3>2. \A i \in 0 .. z - 1 : upto(z)[i + 1] = SectorOf(bs, i)
      <4> SUFFICES ASSUME NEW i \in 0 .. z - 1 PROVE upto(z)[i + 1] = SectorOf(bs, i)
        OBVIOUS
      <4>1. i + 1 \in 1 .. z /\ (i + 1) - 1 = i
        BY <3>1
      <4> QED
        BY <4>1
    <3> QED
      BY <3>2 DEF z
  <2>7. Len(upto(n * SPB)) = n * SPB
    <3> HIDE DEF upto
    <3> QED
      BY <1>0, <1>4
  <2> HIDE DEF ss, g, upto
  <2> QED
    BY <2>5, <2>6, <2>7 DEF ss
<1> QED
  BY <1>5, <1>6

-----------------------------------------------------------------------------
(* The files *)

\* The blocks of a file, as a function.
LEMMA FileFacts ==
  ASSUME NEW f, FileOk(f)
  PROVE  /\ f = [blocks |-> f.blocks, size |-> f.size]
         /\ f.size \in Nat /\ Len(f.blocks) \in Nat
         /\ f.blocks \in Seq(Blocks \cup {Hole})
         /\ DOMAIN f.blocks = 1 .. Len(f.blocks)
         /\ \A i \in 1 .. Len(f.blocks) : f.blocks[i] \in Blocks \cup {Hole}
         /\ get_nr_blocks(f.size) = Len(f.blocks)
<1>1. f \in [blocks : Seq(Blocks \cup {Hole}), size : Nat] /\ get_nr_blocks(f.size) = Len(f.blocks)
  BY DEF FileOk
<1>2. f.blocks \in Seq(Blocks \cup {Hole}) /\ f = [blocks |-> f.blocks, size |-> f.size] /\ f.size \in Nat
  BY <1>1
<1>3. /\ Len(f.blocks) \in Nat /\ DOMAIN f.blocks = 1 .. Len(f.blocks)
      /\ f.blocks \in [1 .. Len(f.blocks) -> Blocks \cup {Hole}]
  BY <1>2, LenProperties
<1> QED
  BY <1>1, <1>2, <1>3

\* File f with the blocks new and the size sz
Bigger(f, new, sz) == [blocks |-> f.blocks \o new, size |-> sz]

\* A file that gets blocks that no file uses.
LEMMA BiggerOk ==
  ASSUME NEW f, FileOk(f), NEW k \in Nat, NEW new \in [1 .. k -> Blocks],
         NoSharing(new), \A i \in 1 .. k : new[i] \notin Range(f.blocks),
         NEW sz \in Nat, get_nr_blocks(sz) = Len(f.blocks) + k
  PROVE  LET b == Bigger(f, new, sz).blocks
             n == Len(f.blocks)
         IN  /\ FileOk(Bigger(f, new, sz)) /\ Len(b) = n + k /\ DOMAIN b = 1 .. n + k
             /\ \A i \in 1 .. n : b[i] = f.blocks[i]
             /\ \A i \in n + 1 .. n + k : b[i] = new[i - n] /\ i - n \in 1 .. k
<1> DEFINE n == Len(f.blocks)
           bs == f.blocks
           b == bs \o new
           S == Blocks \cup {Hole}
<1>1. /\ bs \in Seq(S) /\ n \in Nat /\ DOMAIN bs = 1 .. n /\ NoSharing(bs)
      /\ \A i \in 1 .. n : bs[i] \in S
  BY FileFacts DEF FileOk
<1>2. new \in Seq(S) /\ Len(new) = k /\ DOMAIN new = 1 .. k
  <2>1. new \in [1 .. k -> S] /\ DOMAIN new = 1 .. k
    OBVIOUS
  <2>2. new \in Seq(S)
    BY <2>1, IsASeq
  <2> QED
    BY <2>1, <2>2, LenProperties
<1> HIDE DEF bs
<1>3. /\ b \in Seq(S) /\ Len(b) = n + k
      /\ \A i \in 1 .. n + k : b[i] = IF i <= n THEN bs[i] ELSE new[i - n]
  <2>1. Len(bs) = n
    BY DEF bs
  <2> HIDE DEF S, n
  <2> QED
    BY <1>1, <1>2, <2>1, ConcatProperties
<1>4. DOMAIN b = 1 .. n + k
  BY <1>3, LenProperties
<1> HIDE DEF b, n
<1>5. \A i \in 1 .. n : i \in 1 .. n + k /\ b[i] = bs[i]
  <2>1. \A i \in 1 .. n : i \in 1 .. n + k /\ i <= n
    BY <1>1
  <2> QED
    BY <2>1, <1>3
<1>6. \A i \in n + 1 .. n + k : b[i] = new[i - n] /\ i - n \in 1 .. k
  <2>1. \A i \in n + 1 .. n + k : i \in 1 .. n + k /\ ~(i <= n) /\ i - n \in 1 .. k
    BY <1>1
  <2> QED
    BY <2>1, <1>3
<1>7. NoSharing(b)
  <2> SUFFICES ASSUME NEW i \in 1 .. n + k, NEW j \in 1 .. n + k, i # j, b[i] # Hole
               PROVE  b[i] # b[j]
    BY <1>4 DEF NoSharing
  <2>1. CASE i <= n /\ j <= n
    <3>1. i \in 1 .. n /\ j \in 1 .. n
      BY <2>1, <1>1
    <3> QED
      BY <3>1, <1>5, <1>1 DEF NoSharing
  <2>2. CASE i <= n /\ ~(j <= n)
    <3>1. i \in 1 .. n /\ j \in n + 1 .. n + k
      BY <2>2, <1>1
    <3>2. b[i] = bs[i] /\ b[j] = new[j - n] /\ j - n \in 1 .. k /\ i \in DOMAIN bs
      BY <3>1, <1>5, <1>6, <1>1
    <3>3. new[j - n] \notin Range(bs)
      BY <3>2 DEF bs
    <3> QED
      BY <3>2, <3>3 DEF Range
  <2>3. CASE ~(i <= n) /\ j <= n
    <3>1. j \in 1 .. n /\ i \in n + 1 .. n + k
      BY <2>3, <1>1
    <3>2. b[j] = bs[j] /\ b[i] = new[i - n] /\ i - n \in 1 .. k /\ j \in DOMAIN bs
      BY <3>1, <1>5, <1>6, <1>1
    <3>3. new[i - n] \notin Range(bs)
      BY <3>2 DEF bs
    <3> QED
      BY <3>2, <3>3 DEF Range
  <2>4. CASE ~(i <= n) /\ ~(j <= n)
    <3>1. i \in n + 1 .. n + k /\ j \in n + 1 .. n + k
      BY <2>4, <1>1
    <3>2. b[j] = new[j - n] /\ b[i] = new[i - n] /\ i - n \in 1 .. k /\ j - n \in 1 .. k
      BY <3>1, <1>6
    <3>3. i - n # j - n
      BY <1>1
    <3> QED
      BY <3>2, <3>3, <1>2 DEF NoSharing
  <2> QED
    BY <2>1, <2>2, <2>3, <2>4
<1>8. FileOk(Bigger(f, new, sz)) /\ Bigger(f, new, sz).blocks = b
  BY <1>3, <1>7 DEF FileOk, Bigger, b, bs, n
<1> QED
  BY <1>3, <1>4, <1>5, <1>6, <1>8 DEF n, bs

\* A copy has one input, a merge two.
LEMMA Files ==
  ASSUME op \in {"ISSD_FILECOPY", "ISSD_MERGE"}
  PROVE  Out \in {1, 2} /\ NumFiles(op) = Out + 1
BY DEF Out, NumFiles

\* File f gets k more blocks, new, and the size sz.
Grows(f, k, new, sz) ==
  /\ f \in 0 .. Out /\ k \in Nat /\ sz \in Nat
  /\ new \in [1 .. k -> Blocks \ InUse] /\ NoSharing(new)
  /\ get_nr_blocks(sz) = Len(files[f].blocks) + k
  /\ files' = [files EXCEPT ![f] = [blocks |-> files[f].blocks \o new, size |-> sz]]

\* One file of the command grows by blocks that none uses: every file stays well formed.
LEMMA GrowFile ==
  ASSUME FilesOk, op \in {"ISSD_FILECOPY", "ISSD_MERGE"}, op' = op,
         NEW f, NEW k, NEW new, NEW sz, Grows(f, k, new, sz)
  PROVE  /\ FilesOk'
         /\ files'[f].size = sz /\ Len(files'[f].blocks) = Len(files[f].blocks) + k
         /\ \A i \in 1 .. Len(files[f].blocks) : files'[f].blocks[i] = files[f].blocks[i]
         /\ \A g \in 0 .. Out : g # f => files'[g] = files[g]
<1> DEFINE F == files[f]
           G == Bigger(F, new, sz)
           n == Len(F.blocks)
<1>0. Out' = Out
  BY DEF Out
<1> USE DEF Grows
<1>1. /\ DOMAIN files = 0 .. Out
      /\ \A g \in 0 .. Out : FileOk(files[g])
      /\ \A g, h \in 0 .. Out : g # h => Apart(files[g], files[h])
      /\ Hole \notin Range(files[Out].blocks)
  BY DEF FilesOk
<1>2. files' = [files EXCEPT ![f] = G]
  BY DEF Bigger
<1>3. DOMAIN files' = 0 .. Out /\ files'[f] = G /\ \A g \in 0 .. Out : g # f => files'[g] = files[g]
  BY <1>1, <1>2
<1>4. /\ new \in [1 .. k -> Blocks]
      /\ \A i \in 1 .. k : new[i] # Hole /\ \A g \in 0 .. Out : new[i] \notin Range(files[g].blocks)
  <2>1. \A i \in 1 .. k : new[i] \in Blocks /\ new[i] \notin InUse
    OBVIOUS
  <2>2. \A i \in 1 .. k : new[i] # Hole
    BY <2>1, BlocksNat DEF Hole
  <2>3. \A i \in 1 .. k : \A g \in 0 .. Out : new[i] \notin Range(files[g].blocks)
    <3> SUFFICES ASSUME NEW i \in 1 .. k, NEW g \in 0 .. Out,
                        new[i] \in Range(files[g].blocks)
                 PROVE  FALSE
      OBVIOUS
    <3>1. new[i] \notin InUse /\ new[i] # Hole /\ g \in DOMAIN files
      BY <2>1, <2>2, <1>1
    <3>2. new[i] \in UNION {Range(files[h].blocks) : h \in DOMAIN files}
      BY <3>1
    <3> DEFINE U == UNION {Range(files[h].blocks) : h \in DOMAIN files}
    <3>3. InUse = U \ {Hole}
      BY DEF InUse
    <3>4. new[i] \in U
      BY <3>2
    <3> HIDE DEF U
    <3> QED
      BY <3>1, <3>3, <3>4
  <2>4. new \in [1 .. k -> Blocks]
    OBVIOUS
  <2> QED
    BY <2>2, <2>3, <2>4
<1>5. FileOk(F) /\ F.blocks = files[f].blocks
  BY <1>1
<1>6. /\ FileOk(G) /\ Len(G.blocks) = n + k /\ DOMAIN G.blocks = 1 .. n + k
      /\ \A i \in 1 .. n : G.blocks[i] = F.blocks[i]
      /\ \A i \in n + 1 .. n + k : G.blocks[i] = new[i - n] /\ i - n \in 1 .. k
  <2>1. \A i \in 1 .. k : new[i] \notin Range(F.blocks)
    BY <1>4
  <2> HIDE DEF F
  <2> QED
    BY <1>4, <1>5, <2>1, BiggerOk DEF F
<1>7. n \in Nat /\ DOMAIN F.blocks = 1 .. n
  BY <1>5, FileFacts
<1>7a. G.size = sz
  BY DEF Bigger
<1> HIDE DEF F, G, n
<1>8. \A i \in 1 .. n + k : \/ i \in 1 .. n /\ G.blocks[i] = F.blocks[i]
                            \/ i - n \in 1 .. k /\ G.blocks[i] = new[i - n]
  <2>1. \A i \in 1 .. n + k : i \in 1 .. n \/ i \in n + 1 .. n + k
    BY <1>7
  <2> QED
    BY <2>1, <1>6
<1>9. ASSUME NEW g \in 0 .. Out, g # f PROVE Apart(G, files[g]) /\ Apart(files[g], G)
  <2>1. Apart(F, files[g]) /\ Apart(files[g], F)
    BY <1>1, <1>9 DEF F
  <2>2. \A i \in 1 .. k : new[i] \notin Range(files[g].blocks)
    BY <1>4
  <2>3. Apart(G, files[g])
    <3> SUFFICES ASSUME NEW i \in 1 .. n + k, NEW j \in DOMAIN files[g].blocks,
                        G.blocks[i] # Hole
                 PROVE  G.blocks[i] # files[g].blocks[j]
      BY <1>6 DEF Apart
    <3>1. CASE i \in 1 .. n /\ G.blocks[i] = F.blocks[i]
      BY <3>1, <2>1, <1>7 DEF Apart
    <3>2. CASE i - n \in 1 .. k /\ G.blocks[i] = new[i - n]
      <4>1. new[i - n] \notin Range(files[g].blocks)
        BY <2>2, <3>2
      <4> QED
        BY <4>1, <3>2 DEF Range
    <3> QED
      BY <3>1, <3>2, <1>8
  <2>4. Apart(files[g], G)
    <3> SUFFICES ASSUME NEW i \in 1 .. n + k, NEW j \in DOMAIN files[g].blocks,
                        files[g].blocks[j] # Hole
                 PROVE  files[g].blocks[j] # G.blocks[i]
      BY <1>6 DEF Apart
    <3>1. CASE i \in 1 .. n /\ G.blocks[i] = F.blocks[i]
      BY <3>1, <2>1, <1>7 DEF Apart
    <3>2. CASE i - n \in 1 .. k /\ G.blocks[i] = new[i - n]
      <4>1. new[i - n] \notin Range(files[g].blocks)
        BY <2>2, <3>2
      <4> QED
        BY <4>1, <3>2 DEF Range
    <3> QED
      BY <3>1, <3>2, <1>8
  <2> QED
    BY <2>3, <2>4
<1>10. \A g, h \in 0 .. Out : g # h => Apart(files'[g], files'[h])
  <2> SUFFICES ASSUME NEW g \in 0 .. Out, NEW h \in 0 .. Out, g # h
               PROVE  Apart(files'[g], files'[h])
    OBVIOUS
  <2>1. CASE g = f
    BY <2>1, <1>3, <1>9
  <2>2. CASE h = f
    BY <2>2, <1>3, <1>9
  <2>3. CASE g # f /\ h # f
    BY <2>3, <1>1, <1>3
  <2> QED
    BY <2>1, <2>2, <2>3
<1>11. Hole \notin Range(files'[Out].blocks)
  <2>1. CASE f = Out
    <3>1. Hole \notin Range(F.blocks)
      BY <1>1, <2>1 DEF F
    <3>2. \A i \in 1 .. n + k : G.blocks[i] # Hole
      BY <3>1, <1>4, <1>7, <1>8 DEF Range
    <3> QED
      BY <3>2, <1>3, <1>6, <2>1 DEF Range
  <2>2. CASE f # Out
    <3>1. Out \in 0 .. Out
      BY Files
    <3> QED
      BY <3>1, <2>2, <1>1, <1>3
  <2> QED
    BY <2>1, <2>2
<1>12. \A g \in 0 .. Out : FileOk(files'[g])
  BY <1>1, <1>3, <1>6
<1>13. FilesOk'
  <2>1. Out \in Nat
    BY Files
  <2>2. files' = [g \in 0 .. Out |-> files'[g]]
    BY <1>1, <1>2
  <2> QED
    BY <1>0, <2>1, <2>2, <1>10, <1>11, <1>12 DEF FilesOk, FileOk, Apart
<1> QED
  BY <1>3, <1>6, <1>7a, <1>13 DEF F, n

\* The output is unlinked: every file stays well formed.
LEMMA UnlinkOk ==
  ASSUME FilesOk, op \in {"ISSD_FILECOPY", "ISSD_MERGE"}, op' = op,
         files' = [files EXCEPT ![Out] = NoFile]
  PROVE  FilesOk'
<1>0. Out' = Out /\ Out \in 0 .. Out
  BY Files DEF Out
<1>1. /\ DOMAIN files = 0 .. Out
      /\ \A g \in 0 .. Out : FileOk(files[g])
      /\ \A g, h \in 0 .. Out : g # h => Apart(files[g], files[h])
  BY DEF FilesOk
<1>2. DOMAIN files' = 0 .. Out /\ files'[Out] = NoFile
      /\ \A g \in 0 .. Out : g # Out => files'[g] = files[g]
  BY <1>0, <1>1
<1>3. FileOk(NoFile) /\ DOMAIN NoFile.blocks = {}
  <2>1. get_nr_blocks(0) = 0
    BY Sizes, CeilBasics DEF get_nr_blocks
  <2> QED
    BY <2>1 DEF FileOk, NoFile, NoSharing
<1>4. \A f : Apart(NoFile, f) /\ Apart(f, NoFile)
  BY <1>3 DEF Apart
<1>5. Hole \notin Range(NoFile.blocks)
  BY <1>3 DEF Range
<1>6. \A g \in 0 .. Out : FileOk(files'[g])
  BY <1>1, <1>2, <1>3
<1>7. \A g, h \in 0 .. Out : g # h => Apart(files'[g], files'[h])
  BY <1>1, <1>2, <1>4
<1>8. Hole \notin Range(files'[Out].blocks)
  BY <1>2, <1>5
<1>9. files' = [g \in 0 .. Out |-> files'[g]]
  <2>1. files = [g \in 0 .. Out |-> files[g]]
    BY DEF FilesOk
  <2> QED
    BY <2>1, <1>2
<1> HIDE DEF NoFile
<1> QED
  BY <1>0, <1>9, <1>6, <1>7, <1>8 DEF FilesOk

-----------------------------------------------------------------------------
(* Lists of blocks *)

\* What the list holds, and that it does not change when the file grows.
LEMMA SeenFacts ==
  ASSUME NEW f, FileOk(f), Len(f.blocks) <= MAX_FILE_BLOCK_LEN, NEW m \in 0 .. Len(f.blocks)
  PROVE  /\ \A i \in 1 .. Len(f.blocks) : Seen(f.blocks, m)[i] \in Blocks \cup {0, -1}
         /\ \A i \in 1 .. m : Seen(f.blocks, m)[i] = f.blocks[i]
<1> DEFINE bs == f.blocks  n == Len(bs)  sb == Seen(bs, m)
<1>1. n \in Nat /\ \A i \in 1 .. n : bs[i] \in Blocks \cup {0}
  BY FileFacts DEF Hole
<1>2. MAX_FILE_BLOCK_LEN \in Nat
  BY Sizes
<1>2a. n <= MAX_FILE_BLOCK_LEN /\ m \in 0 .. n
  OBVIOUS
<1> HIDE DEF bs, n
<1>3. \A i \in 1 .. n : i \in 1 .. MAX_FILE_BLOCK_LEN /\ sb[i] = IF i <= m THEN bs[i] ELSE -1
  BY <1>1, <1>2, <1>2a DEF Seen
<1>4. \A i \in 1 .. m : i \in 1 .. n /\ i <= m
  BY <1>1, <1>2a
<1> HIDE DEF sb
<1> QED
  BY <1>1, <1>3, <1>4 DEF sb, bs, n

\* Blocks that are added later are not seen.
LEMMA SeenGrow ==
  ASSUME NEW bs, NEW cs, NEW m \in Nat, \A i \in 1 .. m : cs[i] = bs[i]
  PROVE  Seen(cs, m) = Seen(bs, m)
<1>1. \A i \in 1 .. MAX_FILE_BLOCK_LEN : (IF i <= m THEN cs[i] ELSE -1) = (IF i <= m THEN bs[i] ELSE -1)
  <2>1. \A i \in 1 .. MAX_FILE_BLOCK_LEN : i <= m => i \in 1 .. m
    BY Sizes
  <2> QED
    BY <2>1
<1> QED
  BY <1>1 DEF Seen

\* A file that is listed stays so while its blocks and its part of the command do.
LEMMA ListedStays ==
  ASSUME NEW f, NEW m, ListedAs(f, m), Len(files[f].blocks) \in Nat,
         files'[f].blocks = files[f].blocks,
         cmd'.fileSize[f] = cmd.fileSize[f],
         cmd'.file_ext_offset[f] = cmd.file_ext_offset[f],
         cmd'.file_ext_offset[f + 1] = cmd.file_ext_offset[f + 1],
         cmd.file_ext_offset[f] \in Nat, cmd.file_ext_offset[f + 1] \in Nat,
         Len(cmd.fileExtArr) \in Nat, Len(cmd'.fileExtArr) \in Nat,
         Len(cmd.fileExtArr) <= Len(cmd'.fileExtArr),
         \A j \in 1 .. Len(cmd.fileExtArr) : cmd'.fileExtArr[j] = cmd.fileExtArr[j]
  PROVE  ListedAs(f, m)'
<1> DEFINE n == Len(files[f].blocks)
           exts == Extents(Seen(files[f].blocks, m), n)
           off == cmd.file_ext_offset
           L == Len(exts)
<1>0. L \in Nat
  BY ExtentsShape
<1>1. /\ get_nr_blocks(cmd.fileSize[f]) <= m
      /\ n <= MAX_FILE_BLOCK_LEN
      /\ off[f + 1] = off[f] + L
      /\ off[f + 1] <= Len(cmd.fileExtArr)
      /\ \A j \in 1 .. L : cmd.fileExtArr[off[f] + j] = exts[j]
  BY DEF ListedAs
<1>2. n' = n /\ exts' = exts /\ L' = L
  OBVIOUS
<1>3. /\ get_nr_blocks(cmd'.fileSize[f]) <= m
      /\ n <= MAX_FILE_BLOCK_LEN
      /\ cmd'.file_ext_offset[f + 1] = cmd'.file_ext_offset[f] + L
  BY <1>1
<1> HIDE DEF exts, off
<1>4. cmd'.file_ext_offset[f + 1] <= Len(cmd'.fileExtArr)
  BY <1>1 DEF off
<1>5. \A j \in 1 .. L : off[f] + j \in 1 .. Len(cmd.fileExtArr)
  <2> SUFFICES ASSUME NEW j \in 1 .. L PROVE off[f] + j \in 1 .. Len(cmd.fileExtArr)
    OBVIOUS
  <2> DEFINE a == off[f]  b == off[f + 1]  T == Len(cmd.fileExtArr)
  <2>1. a \in Nat /\ b \in Nat /\ T \in Nat /\ b = a + L /\ b <= T
    BY <1>1 DEF off
  <2> HIDE DEF a, b, T, L
  <2> QED
    BY <2>1, <1>0 DEF a, T
<1>6. \A j \in 1 .. L : cmd'.fileExtArr[cmd'.file_ext_offset[f] + j] = exts[j]
  BY <1>1, <1>5 DEF off
<1> HIDE DEF L
<1> QED
  BY <1>2, <1>3, <1>4, <1>6 DEF ListedAs, exts, off, L

-----------------------------------------------------------------------------
(* The host *)

\* The fields of the command.
LEMMA CmdFacts ==
  ASSUME CmdTypes, op \in {"ISSD_FILECOPY", "ISSD_MERGE"}
  PROVE  /\ cmd = [fileSize |-> cmd.fileSize, isOK |-> cmd.isOK,
                   file_ext_offset |-> cmd.file_ext_offset, fileExtArr |-> cmd.fileExtArr]
         /\ Out \in Nat /\ Out >= 1
         /\ \A f \in 0 .. Out : cmd.fileSize[f] \in Nat
         /\ \A f \in 0 .. Out + 1 : cmd.file_ext_offset[f] \in Nat
         /\ \A f \in 0 .. Out : f \in 0 .. Out + 1 /\ f + 1 \in 0 .. Out + 1
         /\ Len(cmd.fileExtArr) \in Nat
<1>1. cmd \in [fileSize : [0 .. Out -> Nat], isOK : BOOLEAN,
               file_ext_offset : [0 .. Out + 1 -> Nat],
               fileExtArr : Seq([lba : Int, len : Int])]
  BY DEF CmdTypes
<1>2. Out \in {1, 2}
  BY Files
<1>3. /\ cmd.fileSize \in [0 .. Out -> Nat] /\ cmd.file_ext_offset \in [0 .. Out + 1 -> Nat]
      /\ cmd.fileExtArr \in Seq([lba : Int, len : Int])
      /\ cmd = [fileSize |-> cmd.fileSize, isOK |-> cmd.isOK,
                file_ext_offset |-> cmd.file_ext_offset, fileExtArr |-> cmd.fileExtArr]
  BY <1>1
<1>4. Len(cmd.fileExtArr) \in Nat
  BY <1>3, LenProperties
<1> QED
  BY <1>2, <1>3, <1>4

\* A larger file has no fewer blocks.
LEMMA BlocksMono ==
  ASSUME NEW a \in Nat, NEW b \in Nat, a <= b
  PROVE  get_nr_blocks(a) <= get_nr_blocks(b)
<1>1. blksize \in Nat \ {0} /\ a \in Int /\ b \in Int
  BY Sizes
<1>2. CeilDiv(a, blksize) <= CeilDiv(b, blksize)
  BY <1>1, CeilBasics
<1> QED
  BY <1>2 DEF get_nr_blocks

\* Until the command is sent nothing has moved on the device.
LEMMA HostKeepsDevice ==
  ASSUME DevTypes, DevOk, ~ Sent, ~ Sent', UNCHANGED <<bk, buffer, disk>>,
         pc' \notin {"write", "wait", "done"}
  PROVE  DevTypes' /\ DevOk'
<1>1. bk = NoBk /\ disk = [s \in Sectors |-> s]
  BY DEF DevOk
<1>2. DevOk'
  BY <1>1 DEF DevOk
<1>3. DevTypes'
  BY DEF DevTypes
<1> QED
  BY <1>2, <1>3

\* Another process appends to the input.
LEMMA AppendStep ==
  ASSUME IInv, NEW n \in AppendSizes, Append0(n)
  PROVE  IInv'
<1> DEFINE f0 == files[0]
           sz == f0.size + n
           more == get_nr_blocks(sz) - Len(f0.blocks)
<1>1. /\ cur = 0 /\ pc \in {"size", "extract", "post"} /\ get_nr_blocks(sz) <= MAX_FILE_BLOCK_LEN
      /\ UNCHANGED <<pc, op, oldSize, cur, blockList, cmd, bk, buffer, disk>>
  BY DEF Append0, devVars
<1>2. PICK new \in [1 .. more -> Blocks \ InUse] :
        /\ NoSharing(new)
        /\ files' = [files EXCEPT ![0] = [blocks |-> f0.blocks \o new, size |-> sz]]
  BY DEF Append0
<1>3. Control /\ FilesOk /\ CmdTypes /\ CmdOk /\ OutputSize /\ DevTypes /\ DevOk
  BY <1>1 DEF IInv
<1>4. op \in {"ISSD_FILECOPY", "ISSD_MERGE"} /\ op' = op /\ Out' = Out
  BY <1>1, <1>3 DEF Control, Out
<1>5. Out \in Nat /\ Out >= 1 /\ 0 \in 0 .. Out /\ Out \in 0 .. Out
  BY <1>4, Files
<1>6. FileOk(f0) /\ f0.size \in Nat /\ Len(f0.blocks) \in Nat /\ get_nr_blocks(f0.size) = Len(f0.blocks)
  <2>1. FileOk(f0)
    BY <1>3, <1>5 DEF FilesOk
  <2> HIDE DEF f0
  <2> QED
    BY <2>1, FileFacts
<1>7. n \in Nat /\ sz \in Nat /\ f0.size <= sz
  BY <1>6, AppendsPositive
<1>8. more \in Nat /\ get_nr_blocks(sz) = Len(f0.blocks) + more
  <2>1. get_nr_blocks(f0.size) <= get_nr_blocks(sz)
    BY <1>6, <1>7, BlocksMono
  <2>2. get_nr_blocks(sz) \in Nat
    BY <1>7, BlocksHoldSectors
  <2> QED
    BY <1>6, <2>1, <2>2
<1>9. /\ FilesOk'
      /\ files'[0].size = sz /\ Len(files'[0].blocks) = Len(f0.blocks) + more
      /\ \A i \in 1 .. Len(f0.blocks) : files'[0].blocks[i] = f0.blocks[i]
      /\ \A g \in 0 .. Out : g # 0 => files'[g] = files[g]
  <2> HIDE DEF more, sz
  <2>1. files' = [files EXCEPT ![0] = [blocks |-> files[0].blocks \o new, size |-> sz]]
    BY <1>2
  <2>2. /\ FilesOk /\ get_nr_blocks(sz) = Len(files[0].blocks) + more
        /\ more \in Nat /\ sz \in Nat /\ 0 \in 0 .. Out
    BY <1>3, <1>5, <1>7, <1>8
  <2>3. new \in [1 .. more -> Blocks \ InUse] /\ NoSharing(new)
    BY <1>2
  <2>4. Grows(0, more, new, sz)
    BY <2>1, <2>2, <2>3 DEF Grows
  <2>5. /\ FilesOk'
        /\ files'[0].size = sz /\ Len(files'[0].blocks) = Len(files[0].blocks) + more
        /\ \A i \in 1 .. Len(files[0].blocks) : files'[0].blocks[i] = files[0].blocks[i]
        /\ \A g \in 0 .. Out : g # 0 => files'[g] = files[g]
    BY <1>4, <2>2, <2>4, GrowFile
  <2> QED
    BY <2>5
<1> HIDE DEF f0, sz, more
<1>10. ~ Sent /\ ~ Sent' /\ cur' = cur /\ pc' = pc
  BY <1>1 DEF Sent
<1>11. CmdOk'
  <2>1. /\ \A f \in 0 .. Out : Sized(f) => cmd.fileSize[f] <= files[f].size
        /\ Len(cmd.fileExtArr) = cmd.file_ext_offset[cur]
        /\ pc = "post" =>
             \E m \in 0 .. Len(files[cur].blocks) :
               blockList = Seen(files[cur].blocks, m) /\ get_nr_blocks(cmd.fileSize[cur]) <= m
    BY <1>3, <1>10 DEF CmdOk
  <2>2. \A f \in 0 .. Out : Sized(f)' => f = 0 /\ Sized(f)
    BY <1>1, <1>10 DEF Sized
  <2>3. \A f \in 0 .. Out : ~ Listed(f)'
    BY <1>1, <1>10 DEF Listed
  <2>4. ~ Sized(Out)'
    BY <1>1, <1>4, <1>5, <1>10 DEF Sized
  <2>5. \A f \in 0 .. Out : Sized(f)' => cmd'.fileSize[f] <= files'[f].size
    <3> SUFFICES ASSUME Sized(0)' PROVE cmd'.fileSize[0] <= files'[0].size
      BY <2>2
    <3>1. cmd.fileSize[0] <= f0.size /\ cmd' = cmd
      BY <2>1, <2>2, <1>1, <1>5 DEF f0
    <3>2. cmd.fileSize[0] \in Nat
      BY <1>3, <1>4, <1>5, CmdFacts
    <3> QED
      BY <3>1, <3>2, <1>6, <1>7, <1>9
  <2>6. ASSUME pc' = "post"
        PROVE  /\ Len(files'[cur'].blocks) <= MAX_FILE_BLOCK_LEN
               /\ \E m \in 0 .. Len(files'[cur'].blocks) :
                    blockList' = Seen(files'[cur'].blocks, m) /\ get_nr_blocks(cmd'.fileSize[cur']) <= m
    <3>1. cur' = 0 /\ cur = 0 /\ blockList' = blockList /\ cmd' = cmd /\ pc = "post"
      BY <1>1, <2>6
    <3>2. PICK m \in 0 .. Len(f0.blocks) :
            blockList = Seen(f0.blocks, m) /\ get_nr_blocks(cmd.fileSize[0]) <= m
      BY <2>1, <3>1 DEF f0
    <3>3. Seen(files'[0].blocks, m) = Seen(f0.blocks, m)
      <4>1. \A i \in 1 .. m : i \in 1 .. Len(f0.blocks)
        BY <1>6
      <4>2. m \in Nat
        BY <1>6
      <4> QED
        BY <4>1, <4>2, <1>9, SeenGrow
    <3>4. m \in 0 .. Len(files'[0].blocks) /\ Len(files'[0].blocks) <= MAX_FILE_BLOCK_LEN
      BY <1>1, <1>6, <1>8, <1>9 DEF sz
    <3> QED
      BY <3>1, <3>2, <3>3, <3>4
  <2>7. pc' # "fallocate"
    BY <1>1
  <2> QED
    BY <1>1, <1>4, <1>10, <2>1, <2>3, <2>4, <2>5, <2>6, <2>7 DEF CmdOk
<1>12. OutputSize'
  <2>1. files'[Out] = files[Out]
    BY <1>5, <1>9
  <2>2. files[Out].size = oldSize /\ cur # Out
    BY <1>1, <1>3, <1>5 DEF OutputSize
  <2> QED
    BY <2>1, <2>2, <1>1, <1>4 DEF OutputSize
<1>13. Control' /\ CmdTypes' /\ pc # "failed"
  BY <1>1, <1>3, <1>4 DEF Control, CmdTypes
<1>14. DevTypes' /\ DevOk'
  <2>1. pc' \notin {"write", "wait", "done"}
    BY <1>1
  <2> QED
    BY <1>1, <1>3, <1>10, <2>1, HostKeepsDevice
<1> QED
  BY <1>9, <1>11, <1>12, <1>13, <1>14 DEF IInv

\* get_fileSize.
LEMMA GetSizeStep ==
  ASSUME IInv, GetSize
  PROVE  IInv'
<1>1. /\ pc = "size" /\ pc' = "extract"
      /\ cmd' = [cmd EXCEPT !.fileSize[cur] = files[cur].size]
      /\ UNCHANGED <<op, files, oldSize, cur, blockList, appends, bk, buffer, disk>>
  BY DEF GetSize, hostVars, devVars
<1>3. Control /\ FilesOk /\ CmdTypes /\ CmdOk /\ OutputSize /\ DevTypes /\ DevOk
  BY <1>1 DEF IInv
<1>4. op \in {"ISSD_FILECOPY", "ISSD_MERGE"} /\ op' = op /\ Out' = Out /\ cur \in 0 .. Out /\ cur' = cur
  BY <1>1, <1>3 DEF Control, Out
<1>5. Out \in Nat /\ Out >= 1
  BY <1>4, Files
<1>6. files[cur].size \in Nat
  <2>1. FileOk(files[cur])
    BY <1>3, <1>4 DEF FilesOk
  <2> QED
    BY <2>1, FileFacts
<1>7. /\ cmd' = [fileSize |-> [cmd.fileSize EXCEPT ![cur] = files[cur].size], isOK |-> cmd.isOK,
                 file_ext_offset |-> cmd.file_ext_offset, fileExtArr |-> cmd.fileExtArr]
  <2>1. cmd = [fileSize |-> cmd.fileSize, isOK |-> cmd.isOK,
               file_ext_offset |-> cmd.file_ext_offset, fileExtArr |-> cmd.fileExtArr]
    BY <1>3, <1>4, CmdFacts
  <2> QED
    BY <2>1, <1>1
<1>8. CmdTypes /\ cmd.fileSize \in [0 .. Out -> Nat]
  BY <1>3 DEF CmdTypes
<1>9. CmdTypes'
  <2>1. [cmd.fileSize EXCEPT ![cur] = files[cur].size] \in [0 .. Out -> Nat]
    BY <1>4, <1>6, <1>8
  <2>2. cmd' \in [fileSize : [0 .. Out -> Nat], isOK : BOOLEAN,
              file_ext_offset : [0 .. Out + 1 -> Nat],
              fileExtArr : Seq([lba : Int, len : Int])]
    BY <2>1, <1>7, <1>8 DEF CmdTypes
  <2> QED
    BY <2>2, <1>4, <1>7, <1>8 DEF CmdTypes
<1>10. /\ cmd'.fileSize[cur] = files[cur].size
       /\ \A f \in 0 .. Out : f # cur => cmd'.fileSize[f] = cmd.fileSize[f]
       /\ cmd'.file_ext_offset = cmd.file_ext_offset /\ cmd'.fileExtArr = cmd.fileExtArr
  BY <1>4, <1>7, <1>8
<1>11. ~ Sent /\ ~ Sent'
  BY <1>1 DEF Sent
<1>12. CmdOk'
  <2>1. /\ \A f \in 0 .. Out : Sized(f) => cmd.fileSize[f] <= files[f].size
        /\ Len(cmd.fileExtArr) = cmd.file_ext_offset[cur]
        /\ \A f \in 0 .. Out : Listed(f) => \E m \in 0 .. Len(files[f].blocks) : ListedAs(f, m)
    BY <1>3, <1>11 DEF CmdOk
  <2>2. \A f \in 0 .. Out : Sized(f)' => f = cur \/ (f # cur /\ Sized(f))
    BY <1>1, <1>4, <1>5, <1>11 DEF Sized
  <2>3. \A f \in 0 .. Out : Sized(f)' => cmd'.fileSize[f] <= files'[f].size
    <3> SUFFICES ASSUME NEW f \in 0 .. Out, Sized(f)' PROVE cmd'.fileSize[f] <= files'[f].size
      OBVIOUS
    <3>1. CASE f = cur
      BY <3>1, <1>1, <1>6, <1>10
    <3>2. CASE f # cur
      BY <3>2, <2>1, <2>2, <1>1, <1>10
    <3> QED
      BY <3>1, <3>2
  <2>4. Sized(Out)' => cmd'.fileSize[Out] = files'[Out].size
    <3>1. Sized(Out)' => Out = cur
      BY <1>1, <1>4, <1>5, <1>11 DEF Sized
    <3> QED
      BY <3>1, <1>1, <1>10
  <2>5. \A f \in 0 .. Out : Listed(f)' =>
          \E m \in 0 .. Len(files'[f].blocks) : ListedAs(f, m)'
    <3> SUFFICES ASSUME NEW f \in 0 .. Out, Listed(f)'
                 PROVE  \E m \in 0 .. Len(files'[f].blocks) : ListedAs(f, m)'
      OBVIOUS
    <3>1. f < cur /\ Listed(f) /\ f # cur
      BY <1>1, <1>4, <1>5, <1>11 DEF Listed
    <3>2. PICK m \in 0 .. Len(files[f].blocks) : ListedAs(f, m)
      BY <2>1, <3>1
    <3>3. Len(files[f].blocks) \in Nat
      <4>1. FileOk(files[f])
        BY <1>3 DEF FilesOk
      <4> QED
        BY <4>1, FileFacts
    <3>4. /\ cmd.file_ext_offset[f] \in Nat /\ cmd.file_ext_offset[f + 1] \in Nat
          /\ Len(cmd.fileExtArr) \in Nat
      BY <1>3, <1>4, CmdFacts
    <3>5. ListedAs(f, m)'
      <4>1. /\ files'[f].blocks = files[f].blocks /\ cmd'.fileSize[f] = cmd.fileSize[f]
            /\ cmd'.file_ext_offset[f] = cmd.file_ext_offset[f]
            /\ cmd'.file_ext_offset[f + 1] = cmd.file_ext_offset[f + 1]
            /\ cmd'.fileExtArr = cmd.fileExtArr
        BY <1>1, <1>10, <3>1
      <4>2. Len(cmd.fileExtArr) <= Len(cmd.fileExtArr)
        BY <3>4
      <4> QED
        BY <3>2, <3>3, <3>4, <4>1, <4>2, ListedStays
    <3> QED
      BY <3>5, <1>1
  <2>6. pc' # "post" /\ pc' # "fallocate"
    BY <1>1
  <2> QED
    BY <1>4, <1>10, <1>11, <2>1, <2>3, <2>4, <2>5, <2>6 DEF CmdOk
<1>13. OutputSize'
  <2>1. files' = files /\ oldSize' = oldSize /\ pc' # "fallocate" /\ pc # "fallocate"
    BY <1>1
  <2>2. cur = Out => wlength' = wlength
    <3>1. op = "ISSD_MERGE" => Out = 2
      BY DEF Out, NumFiles
    <3>2. cur = Out => 0 \in 0 .. Out /\ 0 # cur
      BY <1>5
    <3>3. cur = Out /\ op = "ISSD_MERGE" => 1 \in 0 .. Out /\ 1 # cur
      BY <3>1
    <3>4. cur = Out => cmd'.fileSize[0] = cmd.fileSize[0]
      BY <1>10, <3>2
    <3>5. cur = Out /\ op = "ISSD_MERGE" => cmd'.fileSize[1] = cmd.fileSize[1]
      BY <1>10, <3>3
    <3> QED
      BY <3>4, <3>5, <1>4 DEF wlength
  <2> QED
    BY <2>1, <2>2, <1>3, <1>4 DEF OutputSize
<1>14. FilesOk' /\ Control'
  BY <1>1, <1>3, <1>4 DEF Control, FilesOk
<1>15. DevTypes' /\ DevOk'
  BY <1>1, <1>3, <1>11, HostKeepsDevice
<1> QED
  BY <1>9, <1>12, <1>13, <1>14, <1>15 DEF IInv

\* The command has the extents of file f
IsListed(f) == \E m \in 0 .. Len(files[f].blocks) : ListedAs(f, m)

\* The extents of a file stay while its blocks, its size and its place in the array do.
LEMMA ListedSame ==
  ASSUME FilesOk, CmdTypes, op \in {"ISSD_FILECOPY", "ISSD_MERGE"},
         NEW f \in 0 .. Out, IsListed(f), files'[f].blocks = files[f].blocks,
         cmd'.fileSize[f] = cmd.fileSize[f],
         cmd'.file_ext_offset[f] = cmd.file_ext_offset[f],
         cmd'.file_ext_offset[f + 1] = cmd.file_ext_offset[f + 1],
         Len(cmd'.fileExtArr) \in Nat,
         Len(cmd.fileExtArr) <= Len(cmd'.fileExtArr),
         \A j \in 1 .. Len(cmd.fileExtArr) : cmd'.fileExtArr[j] = cmd.fileExtArr[j]
  PROVE  IsListed(f)'
<1>1. PICK m \in 0 .. Len(files[f].blocks) : ListedAs(f, m)
  BY DEF IsListed
<1>2. Len(files[f].blocks) \in Nat
  <2>1. FileOk(files[f])
    BY DEF FilesOk
  <2> QED
    BY <2>1, FileFacts
<1>3. /\ cmd.file_ext_offset[f] \in Nat /\ cmd.file_ext_offset[f + 1] \in Nat
      /\ Len(cmd.fileExtArr) \in Nat
  BY CmdFacts
<1>4. ListedAs(f, m)'
  BY <1>1, <1>2, <1>3, ListedStays
<1>5. m \in 0 .. Len(files'[f].blocks)
  OBVIOUS
<1> QED
  BY <1>4, <1>5 DEF IsListed

\* The length of the array is a number.
LEMMA SameLength ==
  ASSUME CmdTypes, op \in {"ISSD_FILECOPY", "ISSD_MERGE"}
  PROVE  Len(cmd.fileExtArr) \in Nat /\ Len(cmd.fileExtArr) <= Len(cmd.fileExtArr)
<1>1. Len(cmd.fileExtArr) \in Nat
  BY CmdFacts
<1> QED
  BY <1>1

\* What CmdOk says of a host that is not yet done.
LEMMA Open ==
  ASSUME ~ Sent
  PROVE  CmdOk <=>
         /\ pc = "fallocate" => cur = Out
         /\ \A f \in 0 .. Out : Sized(f) => cmd.fileSize[f] <= files[f].size
         /\ Sized(Out) => cmd.fileSize[Out] = files[Out].size
         /\ Len(cmd.fileExtArr) = cmd.file_ext_offset[cur]
         /\ \A f \in 0 .. Out : f < cur => IsListed(f)
         /\ pc = "post" =>
              /\ Len(files[cur].blocks) <= MAX_FILE_BLOCK_LEN
              /\ \E m \in 0 .. Len(files[cur].blocks) :
                   blockList = Seen(files[cur].blocks, m) /\ get_nr_blocks(cmd.fileSize[cur]) <= m
BY DEF CmdOk, IsListed, Listed

\* extractBlocks.
LEMMA ExtractStep ==
  ASSUME IInv, ExtractBlocks
  PROVE  IInv'
<1>1. /\ pc = "extract" /\ pc' = "post" /\ blockList' = FileBlocks
      /\ get_nr_blocks(files[cur].size) <= MAX_FILE_BLOCK_LEN
      /\ UNCHANGED <<op, files, oldSize, cur, cmd, appends, bk, buffer, disk>>
  BY DEF ExtractBlocks, devVars
<1>3. Control /\ FilesOk /\ CmdTypes /\ CmdOk /\ OutputSize /\ DevTypes /\ DevOk
  BY <1>1 DEF IInv
<1>4. op \in {"ISSD_FILECOPY", "ISSD_MERGE"} /\ op' = op /\ Out' = Out /\ cur \in 0 .. Out /\ cur' = cur
  BY <1>1, <1>3 DEF Control, Out
<1>5. Out \in Nat /\ Out >= 1
  BY <1>4, Files
<1>6. ~ Sent /\ ~ Sent'
  BY <1>1 DEF Sent
<1>7. FileOk(files[cur])
  BY <1>3, <1>4 DEF FilesOk
<1> DEFINE n == Len(files[cur].blocks)
<1>8. n \in Nat /\ get_nr_blocks(files[cur].size) = n /\ files[cur].size \in Nat
  BY <1>7, FileFacts
<1>9. \A f \in 0 .. Out : Sized(f)' => Sized(f)
  BY <1>1, <1>4, <1>6 DEF Sized
<1>10. Sized(Out)' => Sized(Out)
  BY <1>1, <1>4, <1>6 DEF Sized
<1>11. /\ \A f \in 0 .. Out : Sized(f) => cmd.fileSize[f] <= files[f].size
       /\ Sized(Out) => cmd.fileSize[Out] = files[Out].size
       /\ Len(cmd.fileExtArr) = cmd.file_ext_offset[cur]
       /\ \A f \in 0 .. Out : f < cur => IsListed(f)
  BY <1>3, <1>6, Open
<1>12. \A f \in 0 .. Out : f < cur' => IsListed(f)'
  <2> SUFFICES ASSUME NEW f \in 0 .. Out, f < cur PROVE IsListed(f)'
    BY <1>4
  <2>1. IsListed(f)
    BY <1>11
  <2>2. files' = files /\ cmd' = cmd
    BY <1>1
  <2> QED
    BY <2>1, <2>2, <1>3, <1>4, SameLength, ListedSame
<1>13. blockList' = Seen(files[cur].blocks, n)
  BY <1>1 DEF FileBlocks, Seen
<1>14. get_nr_blocks(cmd.fileSize[cur]) <= n /\ n <= MAX_FILE_BLOCK_LEN
  <2>1. Sized(cur)
    BY <1>1 DEF Sized
  <2>2. cmd.fileSize[cur] <= files[cur].size /\ cmd.fileSize[cur] \in Nat
    BY <2>1, <1>3, <1>4, <1>11, CmdFacts
  <2> QED
    BY <2>2, <1>1, <1>8, BlocksMono
<1>15. CmdOk'
  <2>1. \A f \in 0 .. Out' : Sized(f)' => cmd'.fileSize[f] <= files'[f].size
    BY <1>1, <1>4, <1>9, <1>11
  <2>2. Sized(Out)' => cmd'.fileSize[Out'] = files'[Out'].size
    BY <1>1, <1>4, <1>10, <1>11
  <2>3. Len(cmd'.fileExtArr) = cmd'.file_ext_offset[cur']
    BY <1>1, <1>11
  <2>4. n \in 0 .. n
    BY <1>8
  <2>5. /\ Len(files'[cur'].blocks) <= MAX_FILE_BLOCK_LEN
        /\ \E m \in 0 .. Len(files'[cur'].blocks) :
             blockList' = Seen(files'[cur'].blocks, m) /\ get_nr_blocks(cmd'.fileSize[cur']) <= m
    BY <2>4, <1>1, <1>13, <1>14
  <2>6. pc' # "fallocate"
    BY <1>1
  <2>7. (CmdOk <=>
         /\ pc = "fallocate" => cur = Out
         /\ \A f \in 0 .. Out : Sized(f) => cmd.fileSize[f] <= files[f].size
         /\ Sized(Out) => cmd.fileSize[Out] = files[Out].size
         /\ Len(cmd.fileExtArr) = cmd.file_ext_offset[cur]
         /\ \A f \in 0 .. Out : f < cur => IsListed(f)
         /\ pc = "post" =>
              /\ Len(files[cur].blocks) <= MAX_FILE_BLOCK_LEN
              /\ \E m \in 0 .. Len(files[cur].blocks) :
                   blockList = Seen(files[cur].blocks, m) /\ get_nr_blocks(cmd.fileSize[cur]) <= m)'
    BY <1>6 DEF CmdOk, IsListed, Listed
  <2> QED
    BY <2>1, <2>2, <2>3, <2>5, <2>6, <2>7, <1>4, <1>12
<1>16. OutputSize'
  <2>1. wlength' = wlength
    BY <1>1 DEF wlength
  <2> QED
    BY <2>1, <1>1, <1>3, <1>4 DEF OutputSize
<1>17. FilesOk' /\ Control' /\ CmdTypes'
  BY <1>1, <1>3, <1>4 DEF Control, FilesOk, CmdTypes
<1>18. DevTypes' /\ DevOk'
  BY <1>1, <1>3, <1>6, HostKeepsDevice
<1> QED
  BY <1>15, <1>16, <1>17, <1>18 DEF IInv

\* Every failure unlinks the output.
LEMMA UnlinkStep ==
  ASSUME IInv, ~ Sent, Unlink
  PROVE  IInv'
<1>1. /\ pc' = "failed" /\ files' = [files EXCEPT ![Out] = NoFile]
      /\ UNCHANGED <<op, oldSize, cur, blockList, appends, cmd, bk, buffer, disk>>
  BY DEF Unlink, devVars
<1>2. Control /\ FilesOk /\ CmdTypes /\ DevTypes /\ DevOk
  BY DEF IInv
<1>3. op \in {"ISSD_FILECOPY", "ISSD_MERGE"} /\ op' = op /\ Out' = Out
  BY <1>1, <1>2 DEF Control, Out
<1>4. FilesOk'
  BY <1>1, <1>2, <1>3, UnlinkOk
<1>5. ~ Sent'
  BY <1>1 DEF Sent
<1>6. DevTypes' /\ DevOk'
  BY <1>1, <1>2, <1>5, HostKeepsDevice
<1>7. Control' /\ CmdTypes'
  BY <1>1, <1>2, <1>3 DEF Control, CmdTypes
<1> QED
  BY <1>1, <1>4, <1>6, <1>7 DEF IInv

\* The same of the next state.
LEMMA OpenNext ==
  ASSUME ~ Sent'
  PROVE  (CmdOk <=>
           /\ pc = "fallocate" => cur = Out
           /\ \A f \in 0 .. Out : Sized(f) => cmd.fileSize[f] <= files[f].size
           /\ Sized(Out) => cmd.fileSize[Out] = files[Out].size
           /\ Len(cmd.fileExtArr) = cmd.file_ext_offset[cur]
           /\ \A f \in 0 .. Out : f < cur => IsListed(f)
           /\ pc = "post" =>
                /\ Len(files[cur].blocks) <= MAX_FILE_BLOCK_LEN
                /\ \E m \in 0 .. Len(files[cur].blocks) :
                     blockList = Seen(files[cur].blocks, m) /\ get_nr_blocks(cmd.fileSize[cur]) <= m)'
BY DEF CmdOk, IsListed, Listed

\* The length of the output.
LEMMA WlengthType ==
  ASSUME CmdTypes, op \in {"ISSD_FILECOPY", "ISSD_MERGE"}
  PROVE  wlength \in Nat /\ (op = "ISSD_FILECOPY" => wlength = cmd.fileSize[0])
<1>1. \A f \in 0 .. Out : cmd.fileSize[f] \in Nat
  BY CmdFacts
<1>2. op = "ISSD_MERGE" => Out = 2
  BY DEF Out, NumFiles
<1>3. cmd.fileSize[0] \in Nat
  BY <1>1, Files
<1>4. op = "ISSD_MERGE" => cmd.fileSize[1] \in Nat
  BY <1>1, <1>2
<1> QED
  BY <1>3, <1>4, Sizes DEF wlength

\* open and fallocate of the output.
LEMMA FallocateStep ==
  ASSUME IInv, Fallocate
  PROVE  IInv'
<1> DEFINE F == files[Out]
           sz == IF F.size > wlength THEN F.size ELSE wlength
           more == get_nr_blocks(sz) - Len(F.blocks)
<1>1. /\ pc = "fallocate" /\ pc' = "size" /\ wlength > 0
      /\ UNCHANGED <<op, oldSize, cur, blockList, appends, cmd, bk, buffer, disk>>
  BY DEF Fallocate, devVars
<1>2. PICK new \in [1 .. more -> Blocks \ InUse] :
        /\ NoSharing(new)
        /\ files' = [files EXCEPT ![Out] = [blocks |-> F.blocks \o new, size |-> sz]]
  BY DEF Fallocate
<1>3. Control /\ FilesOk /\ CmdTypes /\ CmdOk /\ OutputSize /\ DevTypes /\ DevOk
  BY <1>1 DEF IInv
<1>4. op \in {"ISSD_FILECOPY", "ISSD_MERGE"} /\ op' = op /\ Out' = Out /\ cur \in 0 .. Out /\ cur' = cur
  BY <1>1, <1>3 DEF Control, Out
<1>5. Out \in Nat /\ Out >= 1 /\ Out \in 0 .. Out
  BY <1>4, Files
<1>6. ~ Sent /\ ~ Sent'
  BY <1>1 DEF Sent
<1>7. FileOk(F)
  BY <1>3, <1>5 DEF FilesOk
<1>8. Len(F.blocks) \in Nat /\ get_nr_blocks(F.size) = Len(F.blocks) /\ F.size \in Nat
  <2> HIDE DEF F
  <2> QED
    BY <1>7, FileFacts
<1>9. wlength \in Nat
  BY <1>3, <1>4, WlengthType
<1>10. cur = Out /\ F.size = oldSize
  BY <1>1, <1>3 DEF CmdOk, OutputSize
<1> HIDE DEF F
<1>11. sz \in Nat /\ F.size <= sz /\ sz = IF oldSize > wlength THEN oldSize ELSE wlength
  BY <1>8, <1>9, <1>10
<1> HIDE DEF sz
<1>12. more \in Nat /\ get_nr_blocks(sz) = Len(F.blocks) + more
  <2>1. get_nr_blocks(F.size) <= get_nr_blocks(sz)
    BY <1>8, <1>11, BlocksMono
  <2>2. get_nr_blocks(sz) \in Nat
    BY <1>11, BlocksHoldSectors
  <2> QED
    BY <1>8, <2>1, <2>2
<1> HIDE DEF more
<1>13. /\ FilesOk'
       /\ files'[Out].size = sz
       /\ \A g \in 0 .. Out : g # Out => files'[g] = files[g]
  <2> DEFINE o == Out
  <2>1. files' = [files EXCEPT ![o] = [blocks |-> files[o].blocks \o new, size |-> sz]]
    BY <1>2 DEF F
  <2>2. /\ FilesOk /\ get_nr_blocks(sz) = Len(files[o].blocks) + more
        /\ more \in Nat /\ sz \in Nat /\ o \in 0 .. Out
    BY <1>3, <1>5, <1>11, <1>12 DEF F
  <2>3. new \in [1 .. more -> Blocks \ InUse] /\ NoSharing(new)
    BY <1>2
  <2> HIDE DEF o
  <2>4. FilesOk' /\ files'[o].size = sz /\ \A g \in 0 .. Out : g # o => files'[g] = files[g]
    <3>1. Grows(o, more, new, sz)
      BY <2>1, <2>2, <2>3 DEF Grows
    <3> QED
      BY <1>4, <2>2, <3>1, GrowFile
  <2> QED
    BY <2>4 DEF o
<1>14. /\ \A f \in 0 .. Out : Sized(f) => cmd.fileSize[f] <= files[f].size
       /\ Len(cmd.fileExtArr) = cmd.file_ext_offset[cur]
       /\ \A f \in 0 .. Out : f < cur => IsListed(f)
  BY <1>3, <1>6, Open
<1>15. CmdOk'
  <2>1. ASSUME NEW f \in 0 .. Out, Sized(f)' PROVE cmd'.fileSize[f] <= files'[f].size
    <3>1. Sized(f) /\ f # Out
      BY <2>1, <1>1, <1>5, <1>6, <1>10 DEF Sized
    <3> QED
      BY <3>1, <1>1, <1>13, <1>14
  <2>2. ~ Sized(Out)'
    BY <1>1, <1>4, <1>5, <1>6, <1>10 DEF Sized
  <2>3. ASSUME NEW f \in 0 .. Out, f < cur' PROVE IsListed(f)'
    <3>1. IsListed(f) /\ f # Out
      BY <2>3, <1>4, <1>5, <1>10, <1>14
    <3>2. files'[f] = files[f] /\ cmd' = cmd
      BY <3>1, <1>1, <1>13
    <3> QED
      BY <3>1, <3>2, <1>3, <1>4, SameLength, ListedSame
  <2>4. pc' # "post" /\ pc' # "fallocate" /\ Len(cmd'.fileExtArr) = cmd'.file_ext_offset[cur']
    BY <1>1, <1>14
  <2> QED
    BY <2>1, <2>2, <2>3, <2>4, <1>4, <1>6, OpenNext
<1>16. OutputSize'
  <2>1. wlength' = wlength
    BY <1>1 DEF wlength
  <2> QED
    BY <2>1, <1>1, <1>4, <1>10, <1>11, <1>13 DEF OutputSize
<1>17. Control' /\ CmdTypes'
  BY <1>1, <1>3, <1>4 DEF Control, CmdTypes
<1>18. DevTypes' /\ DevOk'
  BY <1>1, <1>3, <1>6, HostKeepsDevice
<1> QED
  BY <1>13, <1>15, <1>16, <1>17, <1>18 DEF IInv

\* Nothing of the host changes, nor of the command but isOK, once it is sent.
LEMMA SentStays ==
  ASSUME Control, FilesOk, CmdTypes, CmdOk, OutputSize, Sent, Sent',
         UNCHANGED <<op, files, oldSize, cur>>,
         cmd' = cmd \/ cmd' = [cmd EXCEPT !.isOK = TRUE]
  PROVE  Control' /\ FilesOk' /\ CmdTypes' /\ CmdOk' /\ OutputSize'
<1>1. Out' = Out /\ op \in {"ISSD_FILECOPY", "ISSD_MERGE"}
  BY DEF Out, Control
<1>2. /\ cmd'.fileSize = cmd.fileSize /\ cmd'.file_ext_offset = cmd.file_ext_offset
      /\ cmd'.fileExtArr = cmd.fileExtArr /\ CmdTypes'
  <2>1. cmd = [fileSize |-> cmd.fileSize, isOK |-> cmd.isOK,
               file_ext_offset |-> cmd.file_ext_offset, fileExtArr |-> cmd.fileExtArr]
    BY <1>1, CmdFacts
  <2>2. CASE cmd' = cmd
    BY <2>2, <1>1 DEF CmdTypes
  <2>3. CASE cmd' = [cmd EXCEPT !.isOK = TRUE]
    <3>1. cmd' = [fileSize |-> cmd.fileSize, isOK |-> TRUE,
                  file_ext_offset |-> cmd.file_ext_offset, fileExtArr |-> cmd.fileExtArr]
      BY <2>1, <2>3
    <3> QED
      BY <3>1, <1>1 DEF CmdTypes
  <2> QED
    BY <2>2, <2>3
<1>3. Control' /\ FilesOk'
  BY <1>1 DEF Control, FilesOk, Sent
<1>4. wlength' = wlength
  BY <1>2 DEF wlength
<1>5. OutputSize'
  <2>1. cur = Out /\ pc # "fallocate" /\ pc' # "fallocate"
    BY DEF CmdOk, Sent
  <2> QED
    BY <2>1, <1>1, <1>4 DEF OutputSize
<1>6. CmdOk'
  <2>1. /\ cur = Out
        /\ \A f \in 0 .. Out : cmd.fileSize[f] <= files[f].size
        /\ cmd.fileSize[Out] = files[Out].size
        /\ Len(cmd.fileExtArr) = cmd.file_ext_offset[Out + 1]
        /\ \A f \in 0 .. Out : IsListed(f)
    BY DEF CmdOk, Sized, Listed, IsListed
  <2>2. \A f \in 0 .. Out : IsListed(f)'
    <3> SUFFICES ASSUME NEW f \in 0 .. Out PROVE IsListed(f)'
      OBVIOUS
    <3>1. IsListed(f)
      BY <2>1
    <3> QED
      BY <3>1, <1>1, <1>2, SameLength, ListedSame
  <2>3. pc' # "post"
    BY DEF Sent
  <2> QED
    BY <2>1, <2>2, <2>3, <1>1, <1>2 DEF CmdOk, IsListed, Sized, Listed
<1> QED
  BY <1>2, <1>3, <1>5, <1>6

-----------------------------------------------------------------------------
(* What the device finds in the command *)

\* cnt extents after the first ones of the array list, from sector 0 of the file and for
\* the N sectors of the copy at least, the sectors of the file with the blocks bs
Lists(first, cnt, pos, bs) ==
  /\ cnt \in Nat /\ first + cnt <= max_fileExt_num
  /\ pos \in [0 .. cnt -> Nat] /\ pos[0] = 0 /\ N <= pos[cnt]
  /\ \A i \in 0 .. cnt - 1 :
       LET e == cmd.fileExtArr[first + i + 1]
       IN  /\ e.lba \in Nat /\ e.len \in Nat \ {0} /\ pos[i + 1] = pos[i] + e.len
           /\ \A k \in 0 .. e.len - 1 :
                /\ e.lba + k \in Sectors
                /\ pos[i] + k < N => e.lba + k = SectorOf(bs, pos[i] + k)

\* The sectors of the copy are on the disk, and all different
Separate(in, out) ==
  /\ \A i, j \in 0 .. N - 1 :
       /\ SectorOf(in, i) # SectorOf(out, j)
       /\ SectorOf(out, i) = SectorOf(out, j) => i = j
  /\ \A i \in 0 .. N - 1 : SectorOf(in, i) \in Sectors /\ SectorOf(out, i) \in Sectors

\* A sector of a block that was seen.
LEMMA SeenSector ==
  ASSUME NEW bs, NEW m \in Nat, m <= MAX_FILE_BLOCK_LEN, NEW i \in Nat, i < m * SPB
  PROVE  SectorOf(Seen(bs, m), i) = SectorOf(bs, i)
<1>1. PICK q \in 0 .. m - 1, r \in 0 .. SPB - 1 : i = q * SPB + r
  BY SplitSector
<1>2. q \in Nat /\ q + 1 \in 1 .. MAX_FILE_BLOCK_LEN /\ q + 1 <= m
  BY Sizes
<1>3. Seen(bs, m)[q + 1] = bs[q + 1]
  BY <1>2 DEF Seen
<1>4. /\ SectorOf(Seen(bs, m), q * SPB + r) = part_start + Seen(bs, m)[q + 1] * SPB + r
      /\ SectorOf(bs, q * SPB + r) = part_start + bs[q + 1] * SPB + r
  BY <1>2, SectorAt
<1> QED
  BY <1>1, <1>3, <1>4

\* The number of sectors that are to be copied.
LEMMA NType ==
  ASSUME CmdTypes, op \in {"ISSD_FILECOPY", "ISSD_MERGE"}
  PROVE  N \in Nat /\ cmd.fileSize[0] \in Nat
<1>1. cmd.fileSize[0] \in Nat
  <2>1. 0 \in 0 .. Out
    BY Files
  <2> QED
    BY <2>1, CmdFacts
<1>2. N \in Nat
  BY <1>1, Sizes, CeilBasics DEF N
<1> QED
  BY <1>1, <1>2

\* The extents of a file that is no shorter than the input list sectors for the copy.
LEMMA ListedLists ==
  ASSUME FilesOk, CmdTypes, op \in {"ISSD_FILECOPY", "ISSD_MERGE"},
         NEW f \in 0 .. Out, NEW m \in 0 .. Len(files[f].blocks), ListedAs(f, m),
         cmd.fileSize[0] <= cmd.fileSize[f]
  PROVE  /\ Lists(cmd.file_ext_offset[f], cmd.file_ext_offset[f + 1] - cmd.file_ext_offset[f],
                  Pos(Seen(files[f].blocks, m), Len(files[f].blocks)), files[f].blocks)
         /\ N <= Len(files[f].blocks) * SPB
<1> DEFINE bs == files[f].blocks
           n == Len(bs)
           sb == Seen(bs, m)
           exts == Extents(sb, n)
           pos == Pos(sb, n)
           first == cmd.file_ext_offset[f]
           cnt == cmd.file_ext_offset[f + 1] - first
           arr == cmd.fileExtArr
<1>1. /\ get_nr_blocks(cmd.fileSize[f]) <= m
      /\ n <= MAX_FILE_BLOCK_LEN
      /\ cmd.file_ext_offset[f + 1] = first + Len(exts)
      /\ first + Len(exts) <= Len(arr)
      /\ \A j \in 1 .. Len(exts) : arr[first + j] = exts[j]
  BY DEF ListedAs
<1>2. FileOk(files[f]) /\ n \in Nat /\ m \in Nat /\ m <= n
  <2>1. FileOk(files[f])
    BY DEF FilesOk
  <2>2. n \in Nat
    BY <2>1, FileFacts
  <2> QED
    BY <2>1, <2>2
<1>3. first \in Nat /\ Len(arr) \in Nat /\ Len(arr) <= max_fileExt_num /\ max_fileExt_num \in Nat
  BY CmdFacts, Sizes DEF CmdTypes
<1>4. \A i \in 1 .. n : sb[i] \in Blocks \cup {0, -1}
  BY <1>1, <1>2, SeenFacts
<1>5. Tiles(exts, pos, sb, n)
  <2> HIDE DEF sb, n
  <2> QED
    BY <1>2, <1>4, ExtentsTile
<1>6. N <= m * SPB /\ N <= n * SPB /\ N \in Nat /\ m * SPB \in Int
  <2>1. cmd.fileSize[0] \in Nat /\ cmd.fileSize[f] \in Nat /\ N \in Nat
    BY NType, CmdFacts
  <2>2. get_nr_blocks(cmd.fileSize[0]) <= get_nr_blocks(cmd.fileSize[f])
    BY <2>1, BlocksMono
  <2>3. get_nr_blocks(cmd.fileSize[0]) \in Nat /\ get_nr_blocks(cmd.fileSize[f]) \in Nat
    BY <2>1, BlocksHoldSectors
  <2>4. get_nr_blocks(cmd.fileSize[0]) <= m
    BY <1>1, <1>2, <2>2, <2>3
  <2>5. N <= m * SPB
    BY <2>1, <2>4, <1>2, BlocksHoldSectors DEF N
  <2>6. m * SPB <= n * SPB /\ m * SPB \in Int /\ n * SPB \in Int
    <3> HIDE DEF n
    <3> QED
      BY <1>2, Sizes, ScaleMono
  <2> QED
    BY <2>1, <2>5, <2>6
<1>7. ASSUME NEW i \in Nat, i < N PROVE SectorOf(sb, i) = SectorOf(bs, i)
  <2>1. i < m * SPB /\ m <= MAX_FILE_BLOCK_LEN
    BY <1>1, <1>2, <1>6, <1>7, Sizes
  <2> QED
    BY <2>1, <1>2, SeenSector
<1> HIDE DEF bs, n, sb, exts, pos, first, arr
<1>8. /\ Len(exts) \in Nat /\ \A j \in 1 .. Len(exts) : exts[j] \in [lba : Nat, len : Nat \ {0}]
  <2>1. exts \in Seq([lba : Nat, len : Nat \ {0}])
    BY <1>5 DEF Tiles
  <2> QED
    BY <2>1, LenProperties
<1>9. cnt = Len(exts) /\ cnt \in Nat /\ first + cnt <= max_fileExt_num
  BY <1>1, <1>3, <1>8
<1> HIDE DEF cnt
<1>10. pos \in [0 .. cnt -> Nat] /\ pos[0] = 0 /\ N <= pos[cnt]
  BY <1>5, <1>6, <1>9 DEF Tiles
<1>11. ASSUME NEW i \in 0 .. cnt - 1
       PROVE  LET e == arr[first + i + 1]
              IN  /\ e.lba \in Nat /\ e.len \in Nat \ {0} /\ pos[i + 1] = pos[i] + e.len
                  /\ \A k \in 0 .. e.len - 1 :
                       /\ e.lba + k \in Sectors
                       /\ pos[i] + k < N => e.lba + k = SectorOf(bs, pos[i] + k)
  <2> DEFINE e == arr[first + i + 1]
  <2>1. i + 1 \in 1 .. Len(exts) /\ (i + 1) - 1 = i /\ first + i + 1 = first + (i + 1) /\ i \in 0 .. cnt
    BY <1>3, <1>9
  <2>2. e = exts[i + 1]
    BY <2>1, <1>1
  <2> HIDE DEF e
  <2>3. e \in [lba : Nat, len : Nat \ {0}]
    BY <2>1, <2>2, <1>8
  <2>4. /\ pos[i + 1] = pos[i] + e.len
        /\ \A k \in 0 .. e.len - 1 : /\ e.lba + k = SectorOf(sb, pos[i] + k)
                                     /\ e.lba + k \in Sectors
    <3> DEFINE j == i + 1
    <3>1. j \in 1 .. Len(exts) /\ e = exts[j] /\ j - 1 = i
      BY <2>1, <2>2
    <3> HIDE DEF j
    <3>2. /\ pos[j] = pos[j - 1] + e.len
          /\ \A k \in 0 .. e.len - 1 : /\ e.lba + k = SectorOf(sb, pos[j - 1] + k)
                                       /\ e.lba + k \in Sectors
      BY <1>5, <3>1 DEF Tiles
    <3>3. /\ pos[j] = pos[i] + e.len
          /\ \A k \in 0 .. e.len - 1 : /\ e.lba + k = SectorOf(sb, pos[i] + k)
                                       /\ e.lba + k \in Sectors
      BY <3>1, <3>2
    <3> QED
      BY <3>3 DEF j
  <2>5. ASSUME NEW k \in 0 .. e.len - 1, pos[i] + k < N
        PROVE  e.lba + k = SectorOf(bs, pos[i] + k)
    <3>1. pos[i] \in Nat /\ k \in Nat
      BY <1>10, <2>1, <2>3
    <3>2. pos[i] + k \in Nat
      BY <3>1
    <3> QED
      BY <3>2, <2>4, <2>5, <1>7
  <2> QED
    BY <2>3, <2>4, <2>5 DEF e
<1>12. Lists(first, cnt, pos, bs)
  BY <1>9, <1>10, <1>11 DEF Lists, arr
<1> QED
  BY <1>6, <1>12 DEF first, cnt, pos, bs, n, sb

\* Where a sector of a file is.
LEMMA SectorSplit ==
  ASSUME NEW f, FileOk(f), NEW i \in Nat, i < Len(f.blocks) * SPB
  PROVE  \E q \in DOMAIN f.blocks, r \in 0 .. SPB - 1 :
           /\ i = (q - 1) * SPB + r
           /\ SectorOf(f.blocks, i) = part_start + f.blocks[q] * SPB + r
           /\ f.blocks[q] \in Blocks \cup {0}
           /\ SectorOf(f.blocks, i) \in Sectors
<1> DEFINE n == Len(f.blocks)
<1>1. n \in Nat /\ DOMAIN f.blocks = 1 .. n /\ \A q \in 1 .. n : f.blocks[q] \in Blocks \cup {0}
  BY FileFacts DEF Hole
<1>2. PICK q \in 0 .. n - 1, r \in 0 .. SPB - 1 : i = q * SPB + r
  BY <1>1, SplitSector
<1>3. SectorOf(f.blocks, i) = part_start + f.blocks[q + 1] * SPB + r
  <2>1. q \in Nat
    BY <1>1
  <2> QED
    BY <1>2, <2>1, SectorAt
<1>4. q + 1 \in 1 .. n /\ (q + 1) - 1 = q
  BY <1>1
<1>5. f.blocks[q + 1] \in Blocks \cup {0}
  BY <1>1, <1>4
<1>6. part_start + f.blocks[q + 1] * SPB + r \in Sectors
  <2>1. f.blocks[q + 1] \in Blocks \cup {0, -1}
    BY <1>5
  <2> HIDE DEF Sectors
  <2> QED
    BY <2>1, OnDisk
<1> DEFINE p == q + 1
<1>7. p \in DOMAIN f.blocks /\ p - 1 = q /\ f.blocks[p] = f.blocks[q + 1]
  BY <1>1, <1>4
<1> HIDE DEF p
<1>8. i = (p - 1) * SPB + r
  BY <1>2, <1>7
<1> QED
  BY <1>3, <1>5, <1>6, <1>7, <1>8

\* No sector of the copy is in both files, or in two places of the output.
LEMMA FilesSeparate ==
  ASSUME FilesOk, op \in {"ISSD_FILECOPY", "ISSD_MERGE"}, N \in Nat,
         N <= Len(files[0].blocks) * SPB, N <= Len(files[Out].blocks) * SPB
  PROVE  Separate(files[0].blocks, files[Out].blocks)
<1> DEFINE in == files[0].blocks  out == files[Out].blocks
<1>1. FileOk(files[0]) /\ FileOk(files[Out]) /\ Apart(files[Out], files[0])
      /\ Hole \notin Range(out)
  <2>1. 0 \in 0 .. Out /\ Out \in 0 .. Out /\ 0 # Out
    BY Files
  <2> QED
    BY <2>1 DEF FilesOk
<1>2. Len(in) \in Nat /\ Len(out) \in Nat /\ Len(in) * SPB \in Int /\ Len(out) * SPB \in Int
  <2>1. Len(in) \in Nat /\ Len(out) \in Nat
    BY <1>1, FileFacts
  <2> HIDE DEF in, out
  <2> QED
    BY <2>1, Sizes, ScaleMono
<1>3. \A i \in 0 .. N - 1 : i \in Nat /\ i < Len(in) * SPB /\ i < Len(out) * SPB
  <2> HIDE DEF in, out
  <2>1. N <= Len(in) * SPB /\ N <= Len(out) * SPB
    BY DEF in, out
  <2> QED
    BY <2>1, <1>2
<1>4. \A i \in 0 .. N - 1 : SectorOf(in, i) \in Sectors /\ SectorOf(out, i) \in Sectors
  <2> SUFFICES ASSUME NEW i \in 0 .. N - 1
               PROVE  SectorOf(in, i) \in Sectors /\ SectorOf(out, i) \in Sectors
    OBVIOUS
  <2> HIDE DEF Sectors
  <2> QED
    BY <1>1, <1>3, SectorSplit
<1>5. ASSUME NEW i \in 0 .. N - 1, NEW j \in 0 .. N - 1
      PROVE  SectorOf(in, i) # SectorOf(out, j)
  <2>1. PICK p \in DOMAIN in, r \in 0 .. SPB - 1 :
          SectorOf(in, i) = part_start + in[p] * SPB + r /\ in[p] \in Blocks \cup {0}
    BY <1>1, <1>3, SectorSplit
  <2>2. PICK q \in DOMAIN out, t \in 0 .. SPB - 1 :
          SectorOf(out, j) = part_start + out[q] * SPB + t /\ out[q] \in Blocks \cup {0}
    BY <1>1, <1>3, SectorSplit
  <2>3. out[q] # Hole
    BY <1>1 DEF Range
  <2>4. out[q] # in[p]
    BY <2>3, <1>1 DEF Apart
  <2>5. in[p] \in Int /\ out[q] \in Int
    BY <2>1, <2>2, BlockInt
  <2> HIDE DEF in, out
  <2> QED
    BY <2>1, <2>2, <2>4, <2>5, BlockSectorsDiffer
<1>6. ASSUME NEW i \in 0 .. N - 1, NEW j \in 0 .. N - 1, SectorOf(out, i) = SectorOf(out, j)
      PROVE  i = j
  <2>1. PICK p \in DOMAIN out, r \in 0 .. SPB - 1 :
          /\ SectorOf(out, i) = part_start + out[p] * SPB + r /\ out[p] \in Blocks \cup {0}
          /\ i = (p - 1) * SPB + r
    <3>1. FileOk(files[Out]) /\ i \in Nat /\ i < Len(files[Out].blocks) * SPB
      BY <1>1, <1>3
    <3>2. \E q \in DOMAIN files[Out].blocks, r \in 0 .. SPB - 1 :
            /\ i = (q - 1) * SPB + r
            /\ SectorOf(files[Out].blocks, i) = part_start + files[Out].blocks[q] * SPB + r
            /\ files[Out].blocks[q] \in Blocks \cup {0}
            /\ SectorOf(files[Out].blocks, i) \in Sectors
      BY <3>1, SectorSplit
    <3> QED
      BY <3>2
  <2>2. PICK q \in DOMAIN out, t \in 0 .. SPB - 1 :
          /\ SectorOf(out, j) = part_start + out[q] * SPB + t /\ out[q] \in Blocks \cup {0}
          /\ j = (q - 1) * SPB + t
    <3>1. FileOk(files[Out]) /\ j \in Nat /\ j < Len(files[Out].blocks) * SPB
      BY <1>1, <1>3
    <3>2. \E q \in DOMAIN files[Out].blocks, u \in 0 .. SPB - 1 :
            /\ j = (q - 1) * SPB + u
            /\ SectorOf(files[Out].blocks, j) = part_start + files[Out].blocks[q] * SPB + u
            /\ files[Out].blocks[q] \in Blocks \cup {0}
            /\ SectorOf(files[Out].blocks, j) \in Sectors
      BY <3>1, SectorSplit
    <3> QED
      BY <3>2
  <2>3. out[p] # Hole
    BY <1>1 DEF Range
  <2>4. out[p] \in Int /\ out[q] \in Int
    BY <2>1, <2>2, BlockInt
  <2>5. NoSharing(out)
    BY <1>1 DEF FileOk
  <2> HIDE DEF in, out
  <2>6. out[p] = out[q] /\ r = t
    BY <2>1, <2>2, <2>4, <1>6, BlockSectorsDiffer
  <2>7. p = q
    BY <2>3, <2>5, <2>6 DEF NoSharing
  <2> QED
    BY <2>1, <2>2, <2>6, <2>7
<1> QED
  BY <1>4, <1>5, <1>6 DEF Separate

\* What the host has done
HostOk == Control /\ FilesOk /\ CmdTypes /\ CmdOk /\ OutputSize

\* The device finds the lists of both files of a copy.
LEMMA CopyLists ==
  ASSUME HostOk, Sent, op = "ISSD_FILECOPY"
  PROVE  /\ N \in Nat /\ Out = 1 /\ IsListed(0)
         /\ \A m \in 0 .. Len(files[0].blocks) :
              ListedAs(0, m) => Lists(rd_bio_offset, nr_rd_bios, InPos(m), files[0].blocks)
         /\ Lists(wr_bio_offset, nr_wr_bios, OutPos, files[1].blocks)
         /\ Separate(files[0].blocks, files[1].blocks)
<1>1. Control /\ FilesOk /\ CmdTypes /\ CmdOk /\ OutputSize
  BY DEF HostOk
<1>2. Out = 1 /\ 0 \in 0 .. Out /\ 1 \in 0 .. Out /\ op \in {"ISSD_FILECOPY", "ISSD_MERGE"}
  BY DEF Out, NumFiles
<1>3. cmd.fileSize[0] \in Nat /\ cmd.fileSize[1] \in Nat /\ N \in Nat
  BY <1>1, <1>2, CmdFacts, NType
<1>4. /\ cmd.fileSize[1] = files[1].size
      /\ IsListed(0) /\ IsListed(1)
  BY <1>1, <1>2 DEF CmdOk, Listed, Sized, IsListed
<1>5. cmd.fileSize[0] <= cmd.fileSize[1]
  <2>1. files[1].size = IF oldSize > wlength THEN oldSize ELSE wlength
    BY <1>1, <1>2 DEF OutputSize, CmdOk, Sent
  <2>2. wlength = cmd.fileSize[0] /\ oldSize \in Nat
    BY <1>1 DEF wlength, Control
  <2> QED
    BY <2>1, <2>2, <1>3, <1>4
<1>6. ASSUME NEW m \in 0 .. Len(files[0].blocks), ListedAs(0, m)
      PROVE  /\ Lists(rd_bio_offset, nr_rd_bios, InPos(m), files[0].blocks)
             /\ N <= Len(files[0].blocks) * SPB
  <2>1. cmd.fileSize[0] <= cmd.fileSize[0]
    BY <1>3
  <2>2. /\ Lists(cmd.file_ext_offset[0], cmd.file_ext_offset[0 + 1] - cmd.file_ext_offset[0],
                 Pos(Seen(files[0].blocks, m), Len(files[0].blocks)), files[0].blocks)
        /\ N <= Len(files[0].blocks) * SPB
    BY <1>1, <1>2, <1>6, <2>1, ListedLists
  <2>3. 0 + 1 = 1
    OBVIOUS
  <2> QED
    BY <2>2, <2>3 DEF rd_bio_offset, nr_rd_bios, wr_bio_offset, InPos
<1>7. PICK m1 \in 0 .. Len(files[1].blocks) : ListedAs(1, m1)
  BY <1>4 DEF IsListed
<1>8. m1 = Len(files[1].blocks)
  <2>1. FileOk(files[1])
    BY <1>1, <1>2 DEF FilesOk
  <2>2. get_nr_blocks(files[1].size) = Len(files[1].blocks) /\ Len(files[1].blocks) \in Nat
    BY <2>1, FileFacts
  <2>3. get_nr_blocks(cmd.fileSize[1]) <= m1
    BY <1>7 DEF ListedAs
  <2> QED
    BY <2>2, <2>3, <1>4
<1>9. /\ Lists(wr_bio_offset, nr_wr_bios, OutPos, files[1].blocks)
      /\ N <= Len(files[1].blocks) * SPB
  <2>1. /\ Lists(cmd.file_ext_offset[1], cmd.file_ext_offset[1 + 1] - cmd.file_ext_offset[1],
                 Pos(Seen(files[1].blocks, m1), Len(files[1].blocks)), files[1].blocks)
        /\ N <= Len(files[1].blocks) * SPB
    BY <1>1, <1>2, <1>5, <1>7, ListedLists
  <2>2. 1 + 1 = 2
    OBVIOUS
  <2> QED
    BY <2>1, <2>2, <1>2, <1>8 DEF nr_wr_bios, wr_bio_offset, OutPos
<1>10. Separate(files[0].blocks, files[1].blocks)
  <2>1. N <= Len(files[0].blocks) * SPB
    BY <1>4, <1>6 DEF IsListed
  <2>2. Separate(files[0].blocks, files[Out].blocks)
    BY <2>1, <1>1, <1>2, <1>3, <1>9, FilesSeparate
  <2> QED
    BY <2>2, <1>2
<1> QED
  BY <1>2, <1>3, <1>4, <1>6, <1>9, <1>10

\* The command has come and nothing has been read or written
ReadyToCopy ==
  /\ HostOk /\ op = "ISSD_FILECOPY"
  /\ pc = "read" /\ bk = NoBk /\ disk = [s \in Sectors |-> s]

\* do_issd_backup begins with nothing read and nothing written.
LEMMA CopyBegins == ReadyToCopy => DevOk
<1> SUFFICES ASSUME ReadyToCopy PROVE DevOk
  OBVIOUS
<1>1. /\ HostOk /\ Sent /\ op = "ISSD_FILECOPY" /\ pc = "read" /\ bk = NoBk
      /\ disk = [s \in Sectors |-> s]
  BY DEF ReadyToCopy, Sent
<1>2. PICK m \in 0 .. Len(files[0].blocks) : ListedAs(0, m)
  BY <1>1, CopyLists DEF IsListed
<1> DEFINE rpos == InPos(m)
           wpos == OutPos
<1>3. /\ N \in Nat /\ Out = 1
      /\ Lists(rd_bio_offset, nr_rd_bios, rpos, files[0].blocks)
      /\ Lists(wr_bio_offset, nr_wr_bios, wpos, files[1].blocks)
  BY <1>1, <1>2, CopyLists
<1> HIDE DEF rpos, wpos
<1>4. /\ nr_rd_bios \in Nat /\ nr_wr_bios \in Nat
      /\ rpos[0] = 0 /\ wpos[0] = 0
      /\ 0 < nr_rd_bios => RdExt(0).len \in Nat \ {0}
      /\ 0 < nr_wr_bios => WrExt(0).len \in Nat \ {0}
  <2>1. 0 < nr_rd_bios /\ nr_rd_bios \in Nat => 0 \in 0 .. nr_rd_bios - 1
    OBVIOUS
  <2>2. 0 < nr_wr_bios /\ nr_wr_bios \in Nat => 0 \in 0 .. nr_wr_bios - 1
    OBVIOUS
  <2> QED
    BY <1>3, <2>1, <2>2 DEF Lists, RdExt, WrExt
<1>5. /\ bk.i = 0 /\ bk.k = 0 /\ bk.start = 0 /\ bk.off = 0 /\ bk.rd = 0 /\ bk.wr = 0
      /\ bk.buf = 0 /\ bk.index = 0 /\ bk.offset = 0
  BY <1>1 DEF NoBk
<1>6. cmd.fileSize[0] \in Nat
  BY <1>1, NType DEF HostOk
<1>7. Written(wpos) = 0
  BY <1>4, <1>5 DEF Written
<1>8. Copied(0)
  <2>1. 0 .. 0 - 1 = {}
    OBVIOUS
  <2> QED
    BY <1>1, <2>1 DEF Copied
<1>9. Least(0, cmd.fileSize[0]) = 0 /\ Least(0, N) = 0 /\ 0 * BPS = 0
  BY <1>3, <1>6, Sizes DEF Least
<1>10. 0 + 0 = 0 /\ 0 <= ISSD_CNT_PAGES * SECTORS_PER_PAGE
  BY Sizes
<1>11. Copying(rpos, wpos)
  <2>1. rpos[bk.i] + bk.k = 0
    BY <1>4, <1>5
  <2>2. bk.i \in 0 .. nr_rd_bios /\ bk.index \in 0 .. nr_wr_bios
    BY <1>4, <1>5
  <2>3. IF bk.i = nr_rd_bios THEN bk.k = 0 ELSE bk.k < RdExt(bk.i).len
    BY <1>4, <1>5
  <2>4. IF bk.index = nr_wr_bios THEN bk.offset = 0 ELSE bk.offset < WrExt(bk.index).len
    BY <1>4, <1>5
  <2> QED
    BY <2>1, <2>2, <2>3, <2>4, <1>1, <1>5, <1>7, <1>8, <1>9, <1>10 DEF Copying
<1> QED
  BY <1>1, <1>2, <1>11 DEF DevOk, rpos, wpos

\* The same of the next state.
LEMMA CopyBeginsNext == ReadyToCopy' => DevOk'
BY CopyBegins, PTL

\* postProcess: the extents of one more file join the command.
LEMMA PostProcessStep ==
  ASSUME IInv, PostProcess
  PROVE  IInv'
<1> DEFINE E == NewExtents
           L == Len(E)
           off == cmd.file_ext_offset
           arr == cmd.fileExtArr
           blocks == files[cur].blocks
           n == Len(blocks)
           Ext == [lba : Int, len : Int]
<1>1. /\ pc = "post" /\ ~ TooManyExtents(off[cur], E)
      /\ cmd' = [cmd EXCEPT !.fileExtArr = arr \o E, !.file_ext_offset[cur + 1] = off[cur] + L]
      /\ cur' = IF cur = Out THEN cur ELSE cur + 1
      /\ pc' = CASE cur = Out     -> "read"
                 [] cur = Out - 1 -> "fallocate"
                 [] OTHER         -> "size"
      /\ UNCHANGED <<op, files, oldSize, blockList, appends, bk, buffer, disk>>
  BY DEF PostProcess, devVars
<1>3. Control /\ FilesOk /\ CmdTypes /\ CmdOk /\ OutputSize /\ DevTypes /\ DevOk
  BY <1>1 DEF IInv
<1>4. op \in {"ISSD_FILECOPY", "ISSD_MERGE"} /\ op' = op /\ Out' = Out /\ cur \in 0 .. Out
  BY <1>1, <1>3 DEF Control, Out
<1>5. Out \in {1, 2} /\ cur \in Int /\ cur + 1 \in 0 .. Out + 1 /\ cur + 1 # 0
  BY <1>4, Files
<1>6. ~ Sent
  BY <1>1 DEF Sent
<1>7. FileOk(files[cur])
  BY <1>3, <1>4 DEF FilesOk
<1>8. n \in Nat /\ get_nr_blocks(files[cur].size) = n
  BY <1>7, FileFacts
<1>9. /\ \A f \in 0 .. Out : Sized(f) => cmd.fileSize[f] <= files[f].size
      /\ Sized(Out) => cmd.fileSize[Out] = files[Out].size
      /\ Len(arr) = off[cur]
      /\ \A f \in 0 .. Out : f < cur => IsListed(f)
      /\ n <= MAX_FILE_BLOCK_LEN
  BY <1>1, <1>3, <1>6, Open
<1>10. PICK m \in 0 .. n : blockList = Seen(blocks, m) /\ get_nr_blocks(cmd.fileSize[cur]) <= m
  BY <1>1, <1>3, <1>6, Open
<1>11. E = Extents(Seen(blocks, m), n)
  BY <1>8, <1>10 DEF NewExtents
<1>12. E \in Seq([lba : Nat, len : Nat \ {0}])
  <2>1. \A i \in 1 .. n : Seen(blocks, m)[i] \in Blocks \cup {0, -1}
    BY <1>7, <1>9, <1>10, SeenFacts
  <2>2. Tiles(E, Pos(Seen(blocks, m), n), Seen(blocks, m), n)
    <3> DEFINE sb == Seen(blocks, m)
    <3>1. \A i \in 1 .. n : sb[i] \in Blocks \cup {0, -1}
      BY <2>1
    <3> HIDE DEF sb, n
    <3>2. Tiles(Extents(sb, n), Pos(sb, n), sb, n)
      BY <1>8, <3>1, ExtentsTile
    <3> QED
      BY <3>2, <1>11 DEF sb
  <2> QED
    BY <2>2 DEF Tiles
<1>13. /\ L \in Nat /\ E \in Seq(Ext)
       /\ E = <<>> <=> L = 0
  <2>1. L \in Nat /\ E \in [1 .. L -> [lba : Nat, len : Nat \ {0}]] /\ (E = <<>> <=> L = 0)
    <3> DEFINE T == [lba : Nat, len : Nat \ {0}]
    <3>1. E \in Seq(T)
      BY <1>12
    <3> HIDE DEF T, E
    <3>2. L \in Nat /\ E \in [1 .. L -> T] /\ (E = <<>> <=> L = 0)
      BY <3>1, LenProperties, EmptySeq
    <3> QED
      BY <3>2 DEF T
  <2> HIDE DEF E
  <2>2. E \in [1 .. L -> Ext]
    <3>1. \A j \in 1 .. L : E[j] \in Ext
      BY <2>1
    <3> QED
      BY <2>1, <3>1
  <2> HIDE DEF L, Ext
  <2>3. E \in Seq(Ext)
    BY <2>1, <2>2, IsASeq
  <2> QED
    BY <2>1, <2>3
<1>14. /\ cmd' = [fileSize |-> cmd.fileSize, isOK |-> cmd.isOK,
                  file_ext_offset |-> [off EXCEPT ![cur + 1] = off[cur] + L],
                  fileExtArr |-> arr \o E]
  <2>1. cmd = [fileSize |-> cmd.fileSize, isOK |-> cmd.isOK,
               file_ext_offset |-> cmd.file_ext_offset, fileExtArr |-> cmd.fileExtArr]
    BY <1>3, <1>4, CmdFacts
  <2> HIDE DEF E, L
  <2> QED
    BY <2>1, <1>1
<1>15. /\ cmd.fileSize \in [0 .. Out -> Nat] /\ cmd.isOK \in BOOLEAN
       /\ off \in [0 .. Out + 1 -> Nat] /\ off[0] = 0
       /\ arr \in Seq(Ext) /\ Len(arr) \in Nat /\ Len(arr) <= max_fileExt_num
       /\ off[cur] \in Nat
  BY <1>3, <1>4, CmdFacts DEF CmdTypes
<1> HIDE DEF E, L, off, arr, Ext
<1>16. /\ arr \o E \in Seq(Ext) /\ Len(arr \o E) = Len(arr) + L
       /\ \A j \in 1 .. Len(arr) + L : (arr \o E)[j] = IF j <= Len(arr) THEN arr[j] ELSE E[j - Len(arr)]
  BY <1>13, <1>15, ConcatProperties DEF L
<1>17. Len(arr) + L <= max_fileExt_num
  <2>1. CASE L = 0
    BY <2>1, <1>15
  <2>2. CASE L # 0
    <3>1. ~(off[cur] + L >= max_fileExt_num)
      BY <2>2, <1>1, <1>13 DEF TooManyExtents, L
    <3> QED
      BY <3>1, <1>9, <1>13, <1>15, Sizes DEF off, arr
  <2> QED
    BY <2>1, <2>2
<1>18. /\ cmd'.fileSize = cmd.fileSize /\ cmd'.fileExtArr = arr \o E
       /\ cmd'.file_ext_offset[cur + 1] = off[cur] + L
       /\ \A f \in 0 .. Out + 1 : f # cur + 1 => cmd'.file_ext_offset[f] = off[f]
  BY <1>14, <1>15, <1>5
<1>19. CmdTypes'
  <2>1. [off EXCEPT ![cur + 1] = off[cur] + L] \in [0 .. Out + 1 -> Nat]
    BY <1>13, <1>15, <1>5
  <2>2. cmd' \in [fileSize : [0 .. Out -> Nat], isOK : BOOLEAN,
              file_ext_offset : [0 .. Out + 1 -> Nat], fileExtArr : Seq(Ext)]
    BY <2>1, <1>14, <1>15, <1>16
  <2>3. cmd'.file_ext_offset[0] = 0
    <3>1. 0 \in 0 .. Out + 1 /\ 0 # cur + 1
      BY <1>5
    <3> QED
      BY <3>1, <1>15, <1>18
  <2>4. Len(cmd'.fileExtArr) <= max_fileExt_num
    BY <1>16, <1>17, <1>18
  <2> QED
    BY <2>2, <2>3, <2>4, <1>4 DEF CmdTypes, Ext
<1>20. /\ Len(cmd'.fileExtArr) \in Nat /\ Len(arr) <= Len(cmd'.fileExtArr)
       /\ \A j \in 1 .. Len(arr) : cmd'.fileExtArr[j] = arr[j]
       /\ Len(cmd'.fileExtArr) = cmd'.file_ext_offset[cur + 1]
  <2>1. \A j \in 1 .. Len(arr) : j \in 1 .. Len(arr) + L /\ j <= Len(arr)
    BY <1>13, <1>15
  <2>2. Len(arr) = off[cur]
    BY <1>9 DEF off, arr
  <2>3. \A j \in 1 .. Len(arr) : (arr \o E)[j] = arr[j]
    BY <2>1, <1>16
  <2> QED
    BY <2>2, <2>3, <1>13, <1>15, <1>16, <1>18
<1>21. \A f : f = cur => IsListed(f)'
  <2>1. \A j \in 1 .. L : cmd'.fileExtArr[off[cur] + j] = E[j]
    <3> SUFFICES ASSUME NEW j \in 1 .. L PROVE cmd'.fileExtArr[off[cur] + j] = E[j]
      OBVIOUS
    <3>1. Len(arr) = off[cur]
      BY <1>9 DEF off, arr
    <3>2. off[cur] + j \in 1 .. Len(arr) + L /\ ~(off[cur] + j <= Len(arr)) /\ (off[cur] + j) - Len(arr) = j
      BY <3>1, <1>13, <1>15
    <3> QED
      BY <3>2, <1>16, <1>18
  <2>2. cmd'.file_ext_offset[cur] = off[cur]
    BY <1>4, <1>5, <1>18
  <2>3. cmd'.file_ext_offset[cur + 1] <= Len(cmd'.fileExtArr)
    BY <1>13, <1>15, <1>18, <1>20
  <2>3a. files' = files
    BY <1>1
  <2> DEFINE c == cur
  <2>4. /\ get_nr_blocks(cmd'.fileSize[c]) <= m /\ n <= MAX_FILE_BLOCK_LEN
        /\ cmd'.file_ext_offset[c + 1] = cmd'.file_ext_offset[c] + Len(E)
        /\ cmd'.file_ext_offset[c + 1] <= Len(cmd'.fileExtArr)
        /\ \A j \in 1 .. Len(E) : cmd'.fileExtArr[cmd'.file_ext_offset[c] + j] = E[j]
    BY <2>1, <2>2, <2>3, <1>9, <1>10, <1>18 DEF L
  <2>5. E = Extents(Seen(files'[c].blocks, m), Len(files'[c].blocks)) /\ n = Len(files'[c].blocks)
    BY <2>3a, <1>11
  <2>6. \A d : d = c => (\E k \in 0 .. Len(files'[d].blocks) : ListedAs(d, k)')
    <3> SUFFICES ASSUME NEW d, d = c PROVE \E k \in 0 .. Len(files'[d].blocks) : ListedAs(d, k)'
      OBVIOUS
    <3>1. ListedAs(d, m)'
      BY <2>4, <2>5 DEF ListedAs
    <3> QED
      BY <3>1, <2>5, <1>10
  <2> QED
    BY <2>6 DEF IsListed
<1>22. ASSUME NEW f \in 0 .. Out, f <= cur PROVE IsListed(f)'
  <2>1. CASE f = cur
    BY <2>1, <1>21
  <2>2. CASE f < cur
    <3>1. f \in 0 .. Out + 1 /\ f + 1 \in 0 .. Out + 1 /\ f # cur + 1 /\ f + 1 # cur + 1
      BY <2>2, <1>5
    <3>2. /\ cmd'.fileSize[f] = cmd.fileSize[f]
          /\ cmd'.file_ext_offset[f] = cmd.file_ext_offset[f]
          /\ cmd'.file_ext_offset[f + 1] = cmd.file_ext_offset[f + 1]
      BY <3>1, <1>18 DEF off
    <3>3. IsListed(f) /\ files' = files
      BY <2>2, <1>1, <1>9
    <3> QED
      BY <3>2, <3>3, <1>3, <1>4, <1>20, ListedSame DEF arr
  <2> QED
    BY <2>1, <2>2, <1>22, <1>5
<1>23. FilesOk' /\ DevTypes' /\ wlength' = wlength
  <2>1. wlength' = wlength
    BY <1>1, <1>18 DEF wlength
  <2> QED
    BY <2>1, <1>1, <1>3, <1>4 DEF FilesOk, DevTypes
<1>24. \A f \in 0 .. Out : f <= cur => cmd'.fileSize[f] <= files'[f].size
  <2> SUFFICES ASSUME NEW f \in 0 .. Out, f <= cur PROVE cmd'.fileSize[f] <= files'[f].size
    OBVIOUS
  <2>1. Sized(f)
    BY <1>1, <1>5 DEF Sized
  <2> QED
    BY <2>1, <1>1, <1>9, <1>18
<1>25. CASE cur # Out
  <2>1. /\ cur' = cur + 1 /\ cur' \in 0 .. Out
        /\ pc' = IF cur = Out - 1 THEN "fallocate" ELSE "size"
    BY <1>1, <1>4, <1>5, <1>25
  <2>2. ~ Sent'
    BY <2>1 DEF Sent
  <2>3. \A f \in 0 .. Out : Sized(f)' => f <= cur
    BY <2>1, <2>2, <1>5 DEF Sized
  <2>4. ~ Sized(Out)'
    BY <2>1, <2>2, <1>4, <1>5 DEF Sized
  <2>5. \A f \in 0 .. Out : f < cur' => IsListed(f)'
    BY <2>1, <1>5, <1>22
  <2>6. Len(cmd'.fileExtArr) = cmd'.file_ext_offset[cur']
    BY <2>1, <1>20
  <2>7. pc' # "post" /\ (pc' = "fallocate" => cur' = Out)
    BY <2>1, <1>5
  <2>8. CmdOk'
    BY <2>2, <2>3, <2>4, <2>5, <2>6, <2>7, <1>4, <1>24, OpenNext
  <2>9. OutputSize'
    <3>1. files[Out].size = oldSize
      BY <1>3, <1>25 DEF OutputSize
    <3>2. cur' # Out \/ pc' = "fallocate"
      BY <2>1, <1>5
    <3> QED
      BY <3>1, <3>2, <1>1, <1>4 DEF OutputSize
  <2>10. DevOk'
    <3>1. pc' \notin {"write", "wait", "done"}
      BY <2>1
    <3> QED
      BY <3>1, <2>2, <1>1, <1>3, <1>6, HostKeepsDevice
  <2>11. Control'
    BY <2>1, <1>1, <1>3, <1>4 DEF Control
  <2> QED
    BY <2>8, <2>9, <2>10, <2>11, <1>19, <1>23 DEF IInv
<1>26. CASE cur = Out
  <2>1. cur' = Out /\ pc' = "read" /\ Sent'
    <3>1. cur' = cur
      BY <1>1, <1>26
    <3>2. pc' = "read"
      BY <1>1, <1>26, <1>5
    <3>3. Sent'
      BY <3>2 DEF Sent
    <3> QED
      BY <3>1, <3>2, <3>3, <1>26
  <2>2. Control'
    BY <2>1, <1>1, <1>3, <1>4 DEF Control
  <2>3. \A f \in 0 .. Out : f <= cur
    BY <1>5, <1>26
  <2>4. CmdOk'
    <3>1. \A f \in 0 .. Out : cmd'.fileSize[f] <= files'[f].size
      BY <2>3, <1>24
    <3>2. Sized(Out)
      BY <1>1, <1>26 DEF Sized
    <3>3. cmd'.fileSize[Out] = files'[Out].size
      BY <3>2, <1>1, <1>9, <1>18
    <3>4. \A f \in 0 .. Out : IsListed(f)'
      BY <2>3, <1>22
    <3>5. Len(cmd'.fileExtArr) = cmd'.file_ext_offset[Out + 1]
      BY <1>20, <1>26
    <3> QED
      BY <2>1, <3>1, <3>3, <3>4, <3>5, <1>4 DEF CmdOk, IsListed
  <2>5. OutputSize'
    BY <2>1, <1>1, <1>3, <1>4, <1>23, <1>26 DEF OutputSize
  <2>6. DevOk'
    <3>1. bk = NoBk /\ disk = [s \in Sectors |-> s]
      BY <1>3, <1>6 DEF DevOk
    <3>2. CASE op = "ISSD_FILECOPY"
      <4>1. ReadyToCopy'
        BY <2>1, <2>2, <2>4, <2>5, <3>1, <3>2, <1>1, <1>19, <1>23 DEF ReadyToCopy, HostOk
      <4> QED
        BY <4>1, CopyBeginsNext
    <3>3. CASE op # "ISSD_FILECOPY"
      BY <3>1, <3>3, <2>1, <1>1, <1>4 DEF DevOk
    <3> QED
      BY <3>2, <3>3
  <2> QED
    BY <2>2, <2>4, <2>5, <2>6, <1>19, <1>23 DEF IInv
<1> QED
  BY <1>25, <1>26

-----------------------------------------------------------------------------
(* The device *)

\* The device changes nothing of the files, and of the command only isOK.
DeviceStep ==
  /\ UNCHANGED <<op, files, oldSize, cur>>
  /\ cmd' = cmd \/ cmd' = [cmd EXCEPT !.isOK = TRUE]

\* A step of the device keeps the lists.
LEMMA SameLists ==
  ASSUME CmdTypes, op \in {"ISSD_FILECOPY", "ISSD_MERGE"}, DeviceStep
  PROVE  /\ cmd'.fileSize = cmd.fileSize /\ cmd'.file_ext_offset = cmd.file_ext_offset
         /\ cmd'.fileExtArr = cmd.fileExtArr
         /\ N' = N /\ rd_bio_offset' = rd_bio_offset /\ wr_bio_offset' = wr_bio_offset
         /\ nr_rd_bios' = nr_rd_bios /\ nr_wr_bios' = nr_wr_bios
         /\ \A i : RdExt(i)' = RdExt(i) /\ WrExt(i)' = WrExt(i)
         /\ \A m : InPos(m)' = InPos(m) /\ (ListedAs(0, m) => ListedAs(0, m)')
         /\ OutPos' = OutPos /\ Out' = Out
<1>1. /\ cmd'.fileSize = cmd.fileSize /\ cmd'.file_ext_offset = cmd.file_ext_offset
      /\ cmd'.fileExtArr = cmd.fileExtArr
  <2>1. cmd = [fileSize |-> cmd.fileSize, isOK |-> cmd.isOK,
               file_ext_offset |-> cmd.file_ext_offset, fileExtArr |-> cmd.fileExtArr]
    BY CmdFacts
  <2>2. CASE cmd' = cmd
    BY <2>2
  <2>3. CASE cmd' = [cmd EXCEPT !.isOK = TRUE]
    BY <2>1, <2>3
  <2> QED
    BY <2>2, <2>3 DEF DeviceStep
<1>2. op' = op /\ files' = files
  BY DEF DeviceStep
<1>3. Out' = Out
  BY <1>2 DEF Out
<1>4. /\ N' = N /\ rd_bio_offset' = rd_bio_offset /\ wr_bio_offset' = wr_bio_offset
      /\ nr_rd_bios' = nr_rd_bios /\ nr_wr_bios' = nr_wr_bios
  BY <1>1 DEF N, rd_bio_offset, wr_bio_offset, nr_rd_bios, nr_wr_bios
<1>5. \A i : RdExt(i)' = RdExt(i) /\ WrExt(i)' = WrExt(i)
  BY <1>1, <1>4 DEF RdExt, WrExt
<1>6. OutPos' = OutPos
  BY <1>2, <1>3 DEF OutPos
<1>7. \A m : InPos(m)' = InPos(m)
  BY <1>2 DEF InPos
<1>8. \A m : ListedAs(0, m) => ListedAs(0, m)'
  BY <1>1, <1>2 DEF ListedAs
<1> QED
  BY <1>1, <1>3, <1>4, <1>5, <1>6, <1>7, <1>8

\* A step of the device keeps what the host did.
LEMMA DeviceKeepsHost ==
  ASSUME IInv, Sent, Sent', DeviceStep
  PROVE  Control' /\ FilesOk' /\ CmdTypes' /\ CmdOk' /\ OutputSize'
<1>1. Control /\ FilesOk /\ CmdTypes /\ CmdOk /\ OutputSize
  BY DEF IInv, Sent
<1> QED
  BY <1>1, SentStays DEF DeviceStep

\* No sector moves in a step that changes pc only.
LEMMA CopyingSame ==
  ASSUME CmdTypes, op \in {"ISSD_FILECOPY", "ISSD_MERGE"}, DeviceStep,
         NEW m, Copying(InPos(m), OutPos), UNCHANGED <<bk, buffer, disk>>,
         pc # "write", pc' # "write",
         pc' \in {"wait", "done"} => Written(OutPos) = N
  PROVE  Copying(InPos(m), OutPos)'
<1>1. /\ cmd'.fileSize = cmd.fileSize
      /\ N' = N /\ nr_rd_bios' = nr_rd_bios /\ nr_wr_bios' = nr_wr_bios
      /\ \A i : RdExt(i)' = RdExt(i) /\ WrExt(i)' = WrExt(i)
      /\ InPos(m)' = InPos(m) /\ OutPos' = OutPos /\ Out' = Out
  BY SameLists
<1>2. bk' = bk /\ disk' = disk /\ files' = files
  BY DEF DeviceStep
<1>3. Written(OutPos)' = Written(OutPos)
  BY <1>1, <1>2 DEF Written
<1>4. \A w : Copied(w)' <=> Copied(w)
  BY <1>1, <1>2 DEF Copied
<1> DEFINE rpos == InPos(m)
           wpos == OutPos
           w == Written(wpos)
<1> HIDE DEF rpos, wpos, w
<1>5. /\ bk.i \in 0 .. nr_rd_bios /\ bk.index \in 0 .. nr_wr_bios
      /\ IF bk.i = nr_rd_bios THEN bk.k = 0 ELSE bk.k < RdExt(bk.i).len
      /\ IF bk.index = nr_wr_bios THEN bk.offset = 0 ELSE bk.offset < WrExt(bk.index).len
      /\ bk.start = Least((rpos[bk.i] + bk.k) * BPS, cmd.fileSize[0])
      /\ w + bk.wr = Least(rpos[bk.i] + bk.k, N)
      /\ bk.wr = 0
      /\ bk.off <= bk.buf /\ bk.buf + bk.wr <= bk.off + bk.rd
      /\ bk.off + bk.rd <= ISSD_CNT_PAGES * SECTORS_PER_PAGE
      /\ Copied(w)
  BY DEF Copying, rpos, wpos, w
<1>6. pc' \in {"wait", "done"} => w = N
  BY DEF w, wpos
<1>7. rpos' = rpos /\ w' = w
  BY <1>1, <1>3 DEF rpos, w, wpos
<1>8. Copied(w)'
  BY <1>4, <1>5, <1>7
<1>9. /\ bk'.i \in 0 .. nr_rd_bios' /\ bk'.index \in 0 .. nr_wr_bios'
      /\ IF bk'.i = nr_rd_bios' THEN bk'.k = 0 ELSE bk'.k < RdExt(bk.i)'.len
      /\ IF bk'.index = nr_wr_bios' THEN bk'.offset = 0 ELSE bk'.offset < WrExt(bk.index)'.len
      /\ bk'.start = Least((rpos'[bk'.i] + bk'.k) * BPS, cmd'.fileSize[0])
      /\ w' + bk'.wr = Least(rpos'[bk'.i] + bk'.k, N')
      /\ bk'.wr = 0
      /\ bk'.off <= bk'.buf /\ bk'.buf + bk'.wr <= bk'.off + bk'.rd
      /\ bk'.off + bk'.rd <= ISSD_CNT_PAGES * SECTORS_PER_PAGE
  BY <1>1, <1>2, <1>5, <1>7
<1>10. pc' \in {"wait", "done"} => w' = N'
  BY <1>1, <1>6, <1>7
<1>11. pc' # "write"
  OBVIOUS
<1> QED
  BY <1>8, <1>9, <1>10, <1>11 DEF Copying, rpos, w, wpos

\* A step of the device between two chunks that moves no sector.
LEMMA PauseStep ==
  ASSUME IInv, Sent, Sent', DeviceStep, UNCHANGED <<bk, buffer, disk>>,
         pc # "write", pc' # "write",
         pc' \in {"wait", "done"} => op = "ISSD_FILECOPY",
         pc' \in {"wait", "done"} /\ pc \notin {"wait", "done"} => bk.i = nr_rd_bios
  PROVE  IInv'
<1>1. Control /\ FilesOk /\ CmdTypes /\ CmdOk /\ OutputSize /\ DevTypes /\ DevOk
  BY DEF IInv, Sent
<1>2. op \in {"ISSD_FILECOPY", "ISSD_MERGE"} /\ op' = op
  BY <1>1 DEF Control, DeviceStep
<1>3. Control' /\ FilesOk' /\ CmdTypes' /\ CmdOk' /\ OutputSize'
  BY DeviceKeepsHost
<1>4. DevTypes'
  BY <1>1 DEF DevTypes
<1>5. DevOk'
  <2>1. CASE op = "ISSD_FILECOPY"
    <3>1. PICK m \in 0 .. Len(files[0].blocks) : ListedAs(0, m) /\ Copying(InPos(m), OutPos)
      BY <1>1, <2>1 DEF DevOk
    <3>2. pc' \in {"wait", "done"} => Written(OutPos) = N
      <4>1. CASE pc \in {"wait", "done"}
        BY <4>1, <3>1 DEF Copying
      <4>2. CASE pc \notin {"wait", "done"} /\ pc' \in {"wait", "done"}
        <5>1. bk.i = nr_rd_bios
          BY <4>2
        <5>2. HostOk
          BY <1>1 DEF HostOk
        <5>3. N \in Nat /\ Lists(rd_bio_offset, nr_rd_bios, InPos(m), files[0].blocks)
              /\ Lists(wr_bio_offset, nr_wr_bios, OutPos, files[1].blocks)
          BY <5>2, <2>1, <3>1, CopyLists
        <5> DEFINE rpos == InPos(m)  w == Written(OutPos)  c == nr_rd_bios
        <5>4. /\ IF bk.i = c THEN bk.k = 0 ELSE bk.k < RdExt(bk.i).len
              /\ w + bk.wr = Least(rpos[bk.i] + bk.k, N) /\ bk.wr = 0
              /\ bk.index \in 0 .. nr_wr_bios
          BY <3>1 DEF Copying
        <5>5. c \in Nat /\ rpos[c] \in Nat /\ N <= rpos[c]
          <6> HIDE DEF rpos, c
          <6>1. c \in Nat /\ rpos \in [0 .. c -> Nat] /\ N <= rpos[c]
            BY <5>3 DEF Lists, rpos, c
          <6>2. c \in 0 .. c
            BY <6>1
          <6> QED
            BY <6>1, <6>2
        <5>6. w \in Nat
          <6>1. OutPos[bk.index] \in Nat
            BY <5>3, <5>4 DEF Lists
          <6>2. bk.offset \in Nat
            BY <1>1 DEF DevTypes
          <6> QED
            BY <6>1, <6>2 DEF Written
        <5> HIDE DEF rpos, w, c
        <5>7. bk.k = 0 /\ bk.i = c
          BY <5>1, <5>4 DEF c
        <5>8. w + 0 = Least(rpos[c] + 0, N)
          BY <5>4, <5>7
        <5>9. w = N
          BY <5>3, <5>5, <5>6, <5>8 DEF Least
        <5> QED
          BY <5>9 DEF w
      <4> QED
        BY <4>1, <4>2
    <3>3. Copying(InPos(m), OutPos)'
      BY <1>1, <1>2, <3>1, <3>2, CopyingSame
    <3>4. ListedAs(0, m)'
      BY <1>1, <1>2, <3>1, SameLists
    <3>5. files' = files
      BY DEF DeviceStep
    <3> QED
      BY <3>3, <3>4, <3>5, <2>1, <1>2 DEF DevOk
  <2>2. CASE op # "ISSD_FILECOPY"
    BY <2>2, <1>1, <1>2 DEF DevOk
  <2> QED
    BY <2>1, <2>2
<1> QED
  BY <1>3, <1>4, <1>5 DEF IInv

\* The steps that move no sector preserve the invariant.
LEMMA QuietSteps ==
  ASSUME IInv, ReadFails \/ InvalidCommand \/ BackupDone \/ Truncate
  PROVE  IInv'
<1>1. CASE ReadFails
  <2>1. /\ pc = "read" /\ pc' = "hung" /\ DeviceStep /\ UNCHANGED <<bk, buffer, disk>>
    BY <1>1 DEF ReadFails, DeviceStep, hostVars, devVars
  <2>2. Sent /\ Sent'
    BY <2>1 DEF Sent
  <2> QED
    BY <2>1, <2>2, PauseStep
<1>2. CASE InvalidCommand
  <2>1. /\ pc = "read" /\ pc' = "hung" /\ DeviceStep /\ UNCHANGED <<bk, buffer, disk>>
    BY <1>2 DEF InvalidCommand, DeviceStep, hostVars, devVars
  <2>2. Sent /\ Sent'
    BY <2>1 DEF Sent
  <2> QED
    BY <2>1, <2>2, PauseStep
<1>3. CASE BackupDone
  <2>1. /\ pc = "read" /\ pc' = "wait" /\ DeviceStep /\ UNCHANGED <<bk, buffer, disk>>
        /\ op = "ISSD_FILECOPY" /\ bk.i = nr_rd_bios
    BY <1>3 DEF BackupDone, DeviceStep, hostVars, devVars
  <2>2. Sent /\ Sent'
    BY <2>1 DEF Sent
  <2> QED
    BY <2>1, <2>2, PauseStep
<1>4. CASE Truncate
  <2>1. /\ pc = "wait" /\ pc' = "done" /\ files' = [files EXCEPT ![Out].size = cmd.fileSize[Out]]
        /\ UNCHANGED <<op, oldSize, cur, cmd, bk, buffer, disk>>
    BY <1>4 DEF Truncate, devVars
  <2>2. Sent /\ Sent' /\ pc # "failed"
    BY <2>1 DEF Sent
  <2>3. files' = files
    <3>1. Control /\ FilesOk /\ CmdOk
      BY <2>2 DEF IInv
    <3>2. Out \in 0 .. Out
      BY <3>1, Files DEF Control
    <3>3. FileOk(files[Out]) /\ DOMAIN files = 0 .. Out
      BY <3>1, <3>2 DEF FilesOk
    <3>4. files[Out] = [blocks |-> files[Out].blocks, size |-> files[Out].size]
      BY <3>3, FileFacts
    <3>5. cmd.fileSize[Out] = files[Out].size
      BY <3>1, <2>2 DEF CmdOk, Sized
    <3> DEFINE F == files[Out]
    <3>6. files' = [files EXCEPT ![Out] = [F EXCEPT !.size = F.size]]
      BY <2>1, <3>5
    <3>7. [F EXCEPT !.size = F.size] = F
      BY <3>4
    <3>8. files' = [files EXCEPT ![Out] = files[Out]]
      BY <3>6, <3>7
    <3>9. files = [f \in 0 .. Out |-> files[f]]
      <4>1. Out \in {1, 2}
        BY <3>1, Files DEF Control
      <4> QED
        BY <3>1 DEF FilesOk
    <3> QED
      BY <3>8, <3>9
  <2>4. op = "ISSD_FILECOPY"
    BY <2>1, <2>2 DEF IInv, DevOk
  <2>5. DeviceStep
    BY <2>1, <2>3 DEF DeviceStep
  <2> QED
    BY <2>1, <2>2, <2>4, <2>5, PauseStep
<1> QED
  BY <1>1, <1>2, <1>3, <1>4

\* What Copying says of the next state when the lists stay, with b for bk'.
Moved(rpos, wpos, b) ==
  LET p == rpos[b.i] + b.k
      w == wpos[b.index] + b.offset
      fs == cmd.fileSize[0]
      in == files[0].blocks  out == files[Out].blocks
  IN  /\ b.i \in 0 .. nr_rd_bios /\ b.index \in 0 .. nr_wr_bios
      /\ IF b.i = nr_rd_bios THEN b.k = 0 ELSE b.k < RdExt(b.i).len
      /\ IF b.index = nr_wr_bios THEN b.offset = 0 ELSE b.offset < WrExt(b.index).len
      /\ b.start = Least(p * BPS, fs)
      /\ w + b.wr = Least(p, N)
      /\ IF pc' = "write" THEN b.wr > 0 ELSE b.wr = 0
      /\ b.off <= b.buf /\ b.buf + b.wr <= b.off + b.rd
      /\ b.off + b.rd <= ISSD_CNT_PAGES * SECTORS_PER_PAGE
      /\ pc' = "write" => \A t \in 0 .. b.wr - 1 : buffer'[b.buf + t] = SectorOf(in, w + t)
      /\ \A i \in 0 .. w - 1 : disk'[SectorOf(out, i)] = SectorOf(in, i)
      /\ \A s \in Sectors : (\A i \in 0 .. w - 1 : s # SectorOf(out, i)) => disk'[s] = s

\* A chunk or a write keeps the place of the copy.
LEMMA CopyingMoves ==
  ASSUME CmdTypes, op \in {"ISSD_FILECOPY", "ISSD_MERGE"}, DeviceStep, NEW m,
         pc' \notin {"wait", "done"}, Moved(InPos(m), OutPos, bk')
  PROVE  Copying(InPos(m), OutPos)'
<1>1. /\ cmd'.fileSize = cmd.fileSize
      /\ N' = N /\ nr_rd_bios' = nr_rd_bios /\ nr_wr_bios' = nr_wr_bios
      /\ InPos(m)' = InPos(m) /\ OutPos' = OutPos /\ Out' = Out
      /\ files' = files
  BY SameLists DEF DeviceStep
<1>2. RdExt(bk.i)' = RdExt(bk'.i) /\ WrExt(bk.index)' = WrExt(bk'.index)
  <2>1. cmd'.fileExtArr = cmd.fileExtArr /\ rd_bio_offset' = rd_bio_offset /\ wr_bio_offset' = wr_bio_offset
    BY SameLists
  <2> QED
    BY <2>1 DEF RdExt, WrExt
<1> DEFINE rpos == InPos(m)
           wpos == OutPos
           w == wpos[bk'.index] + bk'.offset
           p == rpos[bk'.i] + bk'.k
           in == files[0].blocks
           out == files[Out].blocks
<1>3. Written(OutPos)' = w
  BY <1>1 DEF Written
<1>4. Copied(Written(OutPos))'
  <2>1. /\ \A i \in 0 .. w - 1 : disk'[SectorOf(out, i)] = SectorOf(in, i)
        /\ \A s \in Sectors : (\A i \in 0 .. w - 1 : s # SectorOf(out, i)) => disk'[s] = s
    BY DEF Moved
  <2> HIDE DEF w
  <2> QED
    BY <2>1, <1>1, <1>3 DEF Copied
<1>5. /\ bk'.i \in 0 .. nr_rd_bios /\ bk'.index \in 0 .. nr_wr_bios
      /\ IF bk'.i = nr_rd_bios THEN bk'.k = 0 ELSE bk'.k < RdExt(bk'.i).len
      /\ IF bk'.index = nr_wr_bios THEN bk'.offset = 0 ELSE bk'.offset < WrExt(bk'.index).len
      /\ bk'.start = Least(p * BPS, cmd.fileSize[0])
      /\ w + bk'.wr = Least(p, N)
      /\ IF pc' = "write" THEN bk'.wr > 0 ELSE bk'.wr = 0
      /\ bk'.off <= bk'.buf /\ bk'.buf + bk'.wr <= bk'.off + bk'.rd
      /\ bk'.off + bk'.rd <= ISSD_CNT_PAGES * SECTORS_PER_PAGE
      /\ pc' = "write" => \A t \in 0 .. bk'.wr - 1 : buffer'[bk'.buf + t] = SectorOf(in, w + t)
  BY DEF Moved
<1>6. InPos(m)'[bk'.i] + bk'.k = p
  BY <1>1
<1>7. files'[0].blocks = in
  BY <1>1
<1> HIDE DEF p, w, in
<1> QED
  BY <1>1, <1>2, <1>3, <1>4, <1>5, <1>6, <1>7 DEF Copying

\* The device goes on copying.
LEMMA CopyStep ==
  ASSUME IInv, Sent, Sent', DeviceStep, op = "ISSD_FILECOPY", DevTypes',
         pc' \notin {"wait", "done"},
         NEW m \in 0 .. Len(files[0].blocks), ListedAs(0, m), Moved(InPos(m), OutPos, bk')
  PROVE  IInv'
<1>1. Control /\ FilesOk /\ CmdTypes /\ CmdOk /\ OutputSize /\ DevTypes /\ DevOk
  BY DEF IInv, Sent
<1>2. op \in {"ISSD_FILECOPY", "ISSD_MERGE"} /\ op' = op /\ files' = files
  BY <1>1 DEF Control, DeviceStep
<1>3. Control' /\ FilesOk' /\ CmdTypes' /\ CmdOk' /\ OutputSize'
  BY DeviceKeepsHost
<1>4. Copying(InPos(m), OutPos)'
  BY <1>1, <1>2, CopyingMoves
<1>5. ListedAs(0, m)'
  BY <1>1, <1>2, SameLists
<1>6. DevOk'
  BY <1>2, <1>4, <1>5 DEF DevOk
<1> QED
  BY <1>3, <1>6 DEF IInv

\* The fields of bk.
LEMMA BkFacts ==
  ASSUME DevTypes
  PROVE  /\ bk.i \in Nat /\ bk.k \in Nat /\ bk.start \in Nat /\ bk.off \in Nat /\ bk.rd \in Nat
         /\ bk.wr \in Nat /\ bk.buf \in Nat /\ bk.index \in Nat /\ bk.offset \in Nat
         /\ DOMAIN bk = {"i", "k", "start", "off", "rd", "wr", "buf", "index", "offset"}
BY DEF DevTypes

\* A chunk of an extent of the input: where it is in the file and on the disk.
LEMMA ReadStep ==
  ASSUME IInv, ReadChunk
  PROVE  IInv'
<1>1. /\ pc = "read" /\ op = "ISSD_FILECOPY" /\ pc' \in {"read", "write"}
      /\ bk.i < nr_rd_bios /\ DeviceStep /\ disk' = disk
  BY DEF ReadChunk, DeviceStep, hostVars
<1>2. Sent /\ Sent' /\ pc' \notin {"wait", "done"}
  BY <1>1 DEF Sent
<1>3. HostOk /\ Control /\ FilesOk /\ CmdTypes /\ CmdOk /\ OutputSize /\ DevTypes /\ DevOk
  BY <1>2 DEF IInv, Sent, HostOk
<1>4. PICK m \in 0 .. Len(files[0].blocks) : ListedAs(0, m) /\ Copying(InPos(m), OutPos)
  BY <1>1, <1>2, <1>3 DEF DevOk
<1> DEFINE rpos == InPos(m)
           wpos == OutPos
           in   == files[0].blocks
           out  == files[1].blocks
           fs   == cmd.fileSize[0]
           i    == bk.i
           k    == bk.k
           e    == RdExt(bk.i)
           c    == nr_rd_bios
           p    == rpos[i] + k
           w    == Written(wpos)
           lba  == e.lba + k
           off  == lba % SECTORS_PER_PAGE
           rd   == rd_sectors(lba, e.len - k)
           end  == OffsetEnd(bk.start, rd)
           wr   == CeilDiv(end - bk.start, BPS)
           last == k + rd = e.len
<1>5. /\ N \in Nat /\ Out = 1 /\ Separate(in, out)
      /\ Lists(rd_bio_offset, c, rpos, in)
  BY <1>1, <1>2, <1>3, <1>4, CopyLists
<1>6. fs \in Nat
  BY <1>1, <1>3, NType
<1>7. /\ i \in 0 .. c /\ bk.index \in 0 .. nr_wr_bios
      /\ IF i = c THEN k = 0 ELSE k < e.len
      /\ IF bk.index = nr_wr_bios THEN bk.offset = 0 ELSE bk.offset < WrExt(bk.index).len
      /\ bk.start = Least(p * BPS, fs)
      /\ w + bk.wr = Least(p, N) /\ bk.wr = 0
      /\ Copied(w)
  BY <1>1, <1>4 DEF Copying
<1>8. /\ pc' = IF wr = 0 THEN "read" ELSE "write"
      /\ buffer' = [s \in BufSectors |-> IF s \in off .. off + rd - 1
                                         THEN disk[lba + s - off] ELSE buffer[s]]
      /\ bk' = [bk EXCEPT !.i = IF last THEN @ + 1 ELSE @,
                          !.k = IF last THEN 0 ELSE @ + rd,
                          !.start = end, !.off = off, !.rd = rd,
                          !.wr = wr, !.buf = off]
  BY DEF ReadChunk, BPS
<1>9. /\ i \in Nat /\ k \in Nat /\ bk.offset \in Nat /\ bk.index \in Nat
      /\ DOMAIN bk = {"i", "k", "start", "off", "rd", "wr", "buf", "index", "offset"}
  BY <1>3, BkFacts
<1>10. /\ bk'.i = (IF last THEN i + 1 ELSE i) /\ bk'.k = (IF last THEN 0 ELSE k + rd)
       /\ bk'.start = end /\ bk'.off = off /\ bk'.rd = rd /\ bk'.wr = wr /\ bk'.buf = off
       /\ bk'.index = bk.index /\ bk'.offset = bk.offset
  BY <1>8, <1>9
<1>11. bk' = [x \in {"i", "k", "start", "off", "rd", "wr", "buf", "index", "offset"} |-> bk'[x]]
  BY <1>8, <1>9
<1>12. disk \in [Sectors -> Sectors \cup {Junk}] /\ buffer \in [BufSectors -> Sectors \cup {Junk}]
  BY <1>3 DEF DevTypes
<1>13. w = wpos[bk.index] + bk.offset
  BY DEF Written
<1>14. e = cmd.fileExtArr[rd_bio_offset + i + 1]
  BY DEF RdExt
<1>15. end = IF bk.start + rd * BPS >= fs THEN fs ELSE bk.start + rd * BPS
  BY DEF OffsetEnd, BPS
<1> HIDE DEF rpos, wpos, in, out, fs, i, k, e, c
<1>16. /\ c \in Nat /\ i \in 0 .. c - 1 /\ rpos \in [0 .. c -> Nat]
       /\ e.lba \in Nat /\ e.len \in Nat \ {0} /\ rpos[i + 1] = rpos[i] + e.len
       /\ \A x \in 0 .. e.len - 1 : /\ e.lba + x \in Sectors
                                    /\ rpos[i] + x < N => e.lba + x = SectorOf(in, rpos[i] + x)
  <2>1. c \in Nat /\ rpos \in [0 .. c -> Nat]
    BY <1>5 DEF Lists
  <2>2. i \in 0 .. c - 1
    BY <1>1, <1>9, <2>1 DEF i, c
  <2> QED
    BY <1>5, <1>14, <2>1, <2>2 DEF Lists
<1>16a. c \in Nat /\ i \in 0 .. c - 1 /\ e.lba \in Nat /\ e.len \in Nat /\ e.len > 0
        /\ rpos[i + 1] = rpos[i] + e.len
  BY <1>16
<1>17. rpos[i] \in Nat /\ k < e.len /\ p \in Nat /\ i # c
  BY <1>7, <1>9, <1>16
<1>18. /\ lba \in Nat /\ e.len - k \in Nat \ {0}
  <2> HIDE DEF p
  <2> QED
    BY <1>9, <1>16a, <1>17
<1>19. /\ rd \in 1 .. e.len - k /\ off \in Nat
       /\ off + rd <= ISSD_CNT_PAGES * SECTORS_PER_PAGE
  <2> HIDE DEF lba
  <2> DEFINE num == e.len - k
  <2>1. num \in Nat \ {0}
    BY <1>18
  <2> HIDE DEF num
  <2> QED
    BY <1>18, <2>1, ChunkFits DEF num
<1>20. rd \in Nat /\ rd > 0 /\ k + rd <= e.len /\ p + rd \in Nat
  <2> HIDE DEF p, off, rd
  <2> QED
    BY <1>9, <1>16a, <1>17, <1>19
<1> HIDE DEF rd, off
<1>21. /\ end = Least((p + rd) * BPS, fs) /\ end \in Nat
       /\ wr = Least(p + rd, N) - Least(p, N)
  <2> HIDE DEF p, end
  <2>1. bk.start = Least(p * BPS, fs)
    BY <1>7
  <2> DEFINE st == bk.start
  <2>2. /\ end = Least((p + rd) * BPS, fs) /\ end \in Nat
        /\ CeilDiv(end - st, BPS) = Least(p + rd, CeilDiv(fs, BPS)) - Least(p, CeilDiv(fs, BPS))
    BY <1>6, <1>15, <1>17, <1>20, <2>1, ChunkSectors
  <2> QED
    BY <2>2 DEF N, fs
<1> HIDE DEF end, wr
<1>22. w \in Nat /\ w = Least(p, N) /\ w <= N /\ wr \in Nat /\ wr <= rd
       /\ w + wr = Least(p + rd, N) /\ (wr > 0 => w = p /\ w + wr <= N)
  <2> HIDE DEF p, w
  <2>1. w + 0 = Least(p, N)
    BY <1>7
  <2>2. w \in Int
    <3>1. wpos[bk.index] \in Nat
      BY <1>2, <1>1, <1>3, <1>7, CopyLists DEF Lists, wpos
    <3> QED
      BY <3>1, <1>9, <1>13
  <2> QED
    BY <2>1, <2>2, <1>5, <1>17, <1>20, <1>21 DEF Least
<1> DEFINE i1 == bk'.i  k1 == bk'.k
<1>23. /\ i1 \in 0 .. c /\ k1 \in Nat /\ rpos[i1] + k1 = p + rd
       /\ IF i1 = c THEN k1 = 0 ELSE k1 < RdExt(i1).len
  <2>1. CASE last
    <3>1. i1 = i + 1 /\ k1 = 0
      BY <1>10, <2>1
    <3>2. i1 \in 0 .. c /\ rpos[i1] + k1 = p + rd
      BY <3>1, <2>1, <1>9, <1>16, <1>17, <1>20
    <3>3. i1 # c => RdExt(i1).len \in Nat \ {0}
      <4> SUFFICES ASSUME i1 # c PROVE RdExt(i1).len \in Nat \ {0}
        OBVIOUS
      <4>1. i1 \in 0 .. c - 1
        BY <3>2, <1>16
      <4> HIDE DEF i1
      <4> QED
        BY <4>1, <1>5 DEF Lists, RdExt
    <3> QED
      BY <3>1, <3>2, <3>3
  <2>2. CASE ~ last
    <3>1. i1 = i /\ k1 = k + rd
      BY <1>10, <2>2
    <3>2. i1 \in 0 .. c /\ k1 \in Nat /\ rpos[i1] + k1 = p + rd /\ k1 < e.len /\ i1 # c
      <4>1. k + rd < e.len /\ k + rd \in Nat
        BY <2>2, <1>9, <1>16a, <1>20
      <4>2. rpos[i] + (k + rd) = p + rd
        BY <1>9, <1>17, <1>20
      <4>3. i \in 0 .. c /\ i # c
        BY <1>16a
      <4> HIDE DEF i1, k1, p
      <4> QED
        BY <3>1, <4>1, <4>2, <4>3
    <3>3. RdExt(i1) = e
      BY <3>1 DEF e, i
    <3> QED
      BY <3>2, <3>3
  <2> QED
    BY <2>1, <2>2
\* the sectors of the chunk, as they come to the buffer
<1>24. ASSUME NEW s \in off .. off + rd - 1
       PROVE  lba + s - off \in Sectors /\ disk[lba + s - off] \in Sectors \cup {Junk}
  <2> DEFINE len == e.len  first == e.lba
  <2>0. len \in Nat /\ first \in Nat /\ k \in Nat /\ off \in Nat /\ rd \in Nat /\ k + rd <= len
    BY <1>9, <1>16a, <1>19, <1>20
  <2> HIDE DEF len, first
  <2>a. s \in Int /\ off <= s /\ s < off + rd
    BY <2>0
  <2>b. k + (s - off) \in 0 .. len - 1
    BY <2>0, <2>a
  <2>c. (first + k) + s - off = first + (k + (s - off))
    BY <2>0, <2>a
  <2>1. k + (s - off) \in 0 .. e.len - 1 /\ lba + s - off = e.lba + (k + (s - off))
    BY <2>b, <2>c DEF len, first
  <2>2. lba + s - off \in Sectors
    <3> DEFINE x == k + (s - off)
    <3> HIDE DEF x
    <3> QED
      BY <2>1, <1>16 DEF x
  <2> HIDE DEF Sectors, lba
  <2> QED
    BY <2>2, <1>12
<1>25. buffer' \in [BufSectors -> Sectors \cup {Junk}]
  <2> HIDE DEF lba, Sectors, BufSectors
  <2>1. \A s \in BufSectors : (IF s \in off .. off + rd - 1 THEN disk[lba + s - off] ELSE buffer[s])
                                \in Sectors \cup {Junk}
    BY <1>12, <1>24
  <2> QED
    BY <2>1, <1>8
<1>26. DevTypes'
  <2>1. \A x \in {"i", "k", "start", "off", "rd", "wr", "buf", "index", "offset"} : bk'[x] \in Nat
    <3>1. bk'.i \in Nat /\ bk'.k \in Nat
      BY <1>16, <1>23
    <3>2. /\ bk'.start \in Nat /\ bk'.off \in Nat /\ bk'.rd \in Nat /\ bk'.wr \in Nat
          /\ bk'.buf \in Nat /\ bk'.index \in Nat /\ bk'.offset \in Nat
      BY <1>9, <1>10, <1>19, <1>20, <1>21, <1>22
    <3> QED
      BY <3>1, <3>2
  <2>2. bk' \in [{"i", "k", "start", "off", "rd", "wr", "buf", "index", "offset"} -> Nat]
    BY <2>1, <1>11
  <2> QED
    BY <2>2, <1>1, <1>12, <1>25 DEF DevTypes, Sectors, BufSectors
<1>27. ASSUME NEW t \in 0 .. wr - 1
       PROVE  buffer'[off + t] = SectorOf(in, w + t)
  <2>1. /\ w = p /\ t \in Nat /\ w + t \in 0 .. N - 1 /\ t < rd /\ k + t \in 0 .. e.len - 1
        /\ rpos[i] + (k + t) = w + t /\ rpos[i] + (k + t) < N
        /\ e.lba + (k + t) = lba + t
    <3> DEFINE len == e.len  first == e.lba  a == rpos[i]
    <3>1. len \in Nat /\ first \in Nat /\ k \in Nat /\ rd \in Nat /\ k + rd <= len /\ a \in Nat
      BY <1>9, <1>16a, <1>17, <1>20
    <3>2. N \in Nat /\ w \in Nat /\ wr \in Nat /\ wr <= rd /\ w + wr <= N /\ wr > 0 /\ t \in Nat /\ t < wr
      <4> HIDE DEF w
      <4> QED
        BY <1>5, <1>22
    <3>3. w = a + k
      <4> HIDE DEF w
      <4> QED
        BY <3>2, <1>22
    <3> HIDE DEF len, first, a, w
    <3>4. /\ w + t \in 0 .. N - 1 /\ t < rd /\ k + t \in 0 .. len - 1
          /\ a + (k + t) = w + t /\ a + (k + t) < N
          /\ first + (k + t) = (first + k) + t
      BY <3>1, <3>2, <3>3
    <3> QED
      BY <3>2, <3>3, <3>4 DEF len, first, a
  <2>2. lba + t = SectorOf(in, w + t) /\ lba + t \in Sectors
    <3> DEFINE x == k + t
    <3>1. x \in 0 .. e.len - 1 /\ rpos[i] + x = w + t /\ rpos[i] + x < N /\ e.lba + x = lba + t
      BY <2>1
    <3> HIDE DEF x, w, lba
    <3> QED
      BY <3>1, <1>16
  <2>3. \A j \in 0 .. w - 1 : j \in 0 .. N - 1
    BY <1>22, <1>5
  <2>4. \A j \in 0 .. w - 1 : SectorOf(in, w + t) # SectorOf(out, j)
    BY <2>1, <2>3, <1>5 DEF Separate
  <2>5. disk[lba + t] = lba + t
    <3>1. \A s \in Sectors : (\A j \in 0 .. w - 1 : s # SectorOf(out, j)) => disk[s] = s
      BY <1>5, <1>7 DEF Copied, out
    <3> HIDE DEF w, lba, Sectors
    <3> QED
      BY <3>1, <2>2, <2>4
  <2>6. /\ off + t \in BufSectors /\ off + t \in off .. off + rd - 1
        /\ lba + (off + t) - off = lba + t
    BY <2>1, <1>18, <1>19, <1>20, Sizes DEF BufSectors
  <2>7. buffer'[off + t] = disk[lba + (off + t) - off]
    <3> DEFINE s == off + t
    <3>1. s \in BufSectors /\ s \in off .. off + rd - 1
      BY <2>6
    <3> HIDE DEF s, BufSectors, lba
    <3>2. buffer'[s] = disk[lba + s - off]
      BY <3>1, <1>8
    <3> QED
      BY <3>2 DEF s
  <2> QED
    BY <2>2, <2>5, <2>6, <2>7
<1>28. Moved(rpos, wpos, bk')
  <2>1. wpos[bk'.index] + bk'.offset = w
    BY <1>10, <1>13
  <2>2. /\ \A j \in 0 .. w - 1 : disk'[SectorOf(out, j)] = SectorOf(in, j)
        /\ \A s \in Sectors : (\A j \in 0 .. w - 1 : s # SectorOf(out, j)) => disk'[s] = s
    BY <1>1, <1>5, <1>7 DEF Copied, in, out
  <2>3. pc' = "write" => \A t \in 0 .. bk'.wr - 1 : buffer'[bk'.buf + t] = SectorOf(in, w + t)
    BY <1>10, <1>27
  <2>4. IF pc' = "write" THEN bk'.wr > 0 ELSE bk'.wr = 0
    BY <1>8, <1>10, <1>22
  <2>5. /\ bk'.i \in 0 .. c /\ bk'.index \in 0 .. nr_wr_bios
        /\ IF bk'.i = c THEN bk'.k = 0 ELSE bk'.k < RdExt(bk'.i).len
        /\ IF bk'.index = nr_wr_bios THEN bk'.offset = 0 ELSE bk'.offset < WrExt(bk'.index).len
    BY <1>7, <1>10, <1>23
  <2>6. /\ bk'.start = Least((rpos[i1] + k1) * BPS, fs)
        /\ w + bk'.wr = Least(rpos[i1] + k1, N)
    <3> HIDE DEF i1, k1, p, w
    <3> QED
      BY <1>10, <1>21, <1>22, <1>23
  <2>7. /\ bk'.off <= bk'.buf /\ bk'.buf + bk'.wr <= bk'.off + bk'.rd
        /\ bk'.off + bk'.rd <= ISSD_CNT_PAGES * SECTORS_PER_PAGE
    BY <1>10, <1>19, <1>20, <1>22
  <2>8. files[0].blocks = in /\ files[Out].blocks = out /\ cmd.fileSize[0] = fs
    BY <1>5 DEF in, out, fs
  <2> HIDE DEF w, p
  <2> QED
    BY <2>1, <2>2, <2>3, <2>4, <2>5, <2>6, <2>7, <2>8 DEF Moved, c
<1> QED
  BY <1>1, <1>2, <1>4, <1>26, <1>28, CopyStep DEF rpos, wpos

\* A write takes the next sectors of the chunk to the next sectors of the output.
LEMMA WriteStep ==
  ASSUME IInv, WriteExtent
  PROVE  IInv'
<1>1. /\ pc = "write" /\ pc' \in {"read", "write"} /\ bk.index < nr_wr_bios
      /\ DeviceStep /\ buffer' = buffer
  BY DEF WriteExtent, DeviceStep, hostVars
<1>2. Sent /\ Sent' /\ pc' \notin {"wait", "done"}
  BY <1>1 DEF Sent
<1>3. HostOk /\ Control /\ FilesOk /\ CmdTypes /\ CmdOk /\ OutputSize /\ DevTypes /\ DevOk
  BY <1>2 DEF IInv, Sent, HostOk
<1>3a. op = "ISSD_FILECOPY"
  BY <1>1, <1>3 DEF DevOk
<1>4. PICK m \in 0 .. Len(files[0].blocks) : ListedAs(0, m) /\ Copying(InPos(m), OutPos)
  BY <1>2, <1>3, <1>3a DEF DevOk
<1> DEFINE rpos == InPos(m)
           wpos == OutPos
           in   == files[0].blocks
           out  == files[1].blocks
           fs   == cmd.fileSize[0]
           x    == bk.index
           o    == bk.offset
           wr   == bk.wr
           buf  == bk.buf
           e    == WrExt(bk.index)
           c    == nr_wr_bios
           p    == rpos[bk.i] + bk.k
           w    == Written(wpos)
           left == e.len - o
           n    == IF wr >= left THEN left ELSE wr
           lba  == e.lba + o
           full == o + n = e.len
<1>5. /\ N \in Nat /\ Out = 1 /\ Separate(in, out)
      /\ Lists(wr_bio_offset, c, wpos, out)
      /\ Lists(rd_bio_offset, nr_rd_bios, rpos, in)
  BY <1>2, <1>3, <1>3a, <1>4, CopyLists
<1>7. /\ bk.i \in 0 .. nr_rd_bios /\ x \in 0 .. c
      /\ IF bk.i = nr_rd_bios THEN bk.k = 0 ELSE bk.k < RdExt(bk.i).len
      /\ IF x = c THEN o = 0 ELSE o < e.len
      /\ bk.start = Least(p * BPS, fs)
      /\ w + wr = Least(p, N) /\ wr > 0
      /\ bk.off <= buf /\ buf + wr <= bk.off + bk.rd
      /\ bk.off + bk.rd <= ISSD_CNT_PAGES * SECTORS_PER_PAGE
      /\ \A t \in 0 .. wr - 1 : buffer[buf + t] = SectorOf(in, w + t)
      /\ Copied(w)
  BY <1>1, <1>4 DEF Copying
<1>8. /\ pc' = IF wr = n THEN "read" ELSE "write"
      /\ disk' = [s \in Sectors |-> IF s \in lba .. lba + n - 1
                                    THEN BufferAt(buf + s - lba) ELSE disk[s]]
      /\ bk' = [(IF o + n = e.len THEN [bk EXCEPT !.index = @ + 1, !.offset = 0]
                                  ELSE [bk EXCEPT !.offset = @ + n])
                  EXCEPT !.wr = @ - n, !.buf = @ + n]
  BY DEF WriteExtent, Advance
<1>9. /\ bk.i \in Nat /\ bk.k \in Nat /\ bk.start \in Nat /\ bk.off \in Nat /\ bk.rd \in Nat
      /\ wr \in Nat /\ buf \in Nat /\ x \in Nat /\ o \in Nat
      /\ DOMAIN bk = {"i", "k", "start", "off", "rd", "wr", "buf", "index", "offset"}
  BY <1>3, BkFacts
<1>10. /\ bk'.index = (IF full THEN x + 1 ELSE x) /\ bk'.offset = (IF full THEN 0 ELSE o + n)
       /\ bk'.wr = wr - n /\ bk'.buf = buf + n
       /\ bk'.i = bk.i /\ bk'.k = bk.k /\ bk'.start = bk.start /\ bk'.off = bk.off /\ bk'.rd = bk.rd
       /\ bk' = [y \in {"i", "k", "start", "off", "rd", "wr", "buf", "index", "offset"} |-> bk'[y]]
  <2>1. CASE full
    <3>1. bk' = [[bk EXCEPT !.index = @ + 1, !.offset = 0] EXCEPT !.wr = @ - n, !.buf = @ + n]
      BY <1>8, <2>1
    <3> HIDE DEF n
    <3> QED
      BY <3>1, <1>9, <2>1
  <2>2. CASE ~ full
    <3>1. bk' = [[bk EXCEPT !.offset = @ + n] EXCEPT !.wr = @ - n, !.buf = @ + n]
      BY <1>8, <2>2
    <3> HIDE DEF n
    <3> QED
      BY <3>1, <1>9, <2>2
  <2> QED
    BY <2>1, <2>2
<1>12. disk \in [Sectors -> Sectors \cup {Junk}] /\ buffer \in [BufSectors -> Sectors \cup {Junk}]
  BY <1>3 DEF DevTypes
<1>13. w = wpos[x] + o
  BY DEF Written
<1>14. e = cmd.fileExtArr[wr_bio_offset + x + 1]
  BY DEF WrExt
<1> HIDE DEF rpos, wpos, in, out, fs, x, o, wr, buf, e, c, w, p
<1>16. /\ c \in Nat /\ x \in 0 .. c - 1 /\ wpos \in [0 .. c -> Nat]
       /\ e.lba \in Nat /\ e.len \in Nat \ {0} /\ wpos[x + 1] = wpos[x] + e.len
       /\ \A k \in 0 .. e.len - 1 : /\ e.lba + k \in Sectors
                                    /\ wpos[x] + k < N => e.lba + k = SectorOf(out, wpos[x] + k)
  <2>1. c \in Nat /\ wpos \in [0 .. c -> Nat]
    BY <1>5 DEF Lists
  <2>2. x \in 0 .. c - 1
    BY <1>1, <1>9, <2>1 DEF x, c
  <2> QED
    BY <1>5, <1>14, <2>1, <2>2 DEF Lists
<1> DEFINE len == e.len  first == e.lba  base == wpos[x]
<1>17. /\ base \in Nat /\ first \in Nat /\ len \in Nat /\ o < len /\ x # c
       /\ w \in Nat /\ w = base + o
  <2>1. c \in Nat /\ x \in 0 .. c - 1 /\ wpos \in [0 .. c -> Nat] /\ first \in Nat /\ len \in Nat
    BY <1>16
  <2>2. x \in 0 .. c /\ x # c
    BY <2>1
  <2>3. base \in Nat
    BY <2>1, <2>2
  <2>4. o < len
    BY <2>2, <1>7
  <2> HIDE DEF base, len, first
  <2>5. w = base + o
    BY <1>13 DEF base
  <2> QED
    BY <2>1, <2>2, <2>3, <2>4, <2>5, <1>9
<1>18. n \in Nat /\ n > 0 /\ n <= wr /\ n <= len - o /\ (wr # n => n = len - o)
  <2> HIDE DEF len
  <2>1. left = len - o
    BY DEF len
  <2> HIDE DEF left
  <2> QED
    BY <1>7, <1>9, <1>17, <2>1
<1> HIDE DEF n
<1>19. p \in Nat /\ w + wr <= N
  <2>1. rpos[bk.i] \in Nat
    BY <1>5, <1>7 DEF Lists
  <2>2. p \in Nat
    BY <2>1, <1>9 DEF p
  <2> QED
    BY <2>2, <1>5, <1>7, <1>17 DEF Least
\* where the write goes
<1>20. ASSUME NEW t \in 0 .. n - 1
       PROVE  /\ w + t \in 0 .. N - 1 /\ lba + t = SectorOf(out, w + t) /\ lba + t \in Sectors
              /\ t \in 0 .. wr - 1 /\ buf + t \in BufSectors
  <2>1. /\ o + t \in 0 .. len - 1 /\ base + (o + t) = w + t /\ base + (o + t) < N
        /\ first + (o + t) = (first + o) + t /\ w + t \in 0 .. N - 1 /\ t \in 0 .. wr - 1
    <3> HIDE DEF len, first, base
    <3> QED
      BY <1>5, <1>9, <1>17, <1>18, <1>19
  <2>2. lba + t = SectorOf(out, w + t) /\ lba + t \in Sectors
    <3> DEFINE k == o + t
    <3>1. k \in 0 .. e.len - 1 /\ wpos[x] + k = w + t /\ wpos[x] + k < N /\ e.lba + k = lba + t
      BY <2>1
    <3> HIDE DEF k, lba
    <3> QED
      BY <3>1, <1>16
  <2>3. buf + t \in BufSectors
    BY <2>1, <1>7, <1>9, Sizes DEF BufSectors
  <2> QED
    BY <2>1, <2>2, <2>3
<1>21. lba \in Nat
  BY <1>9, <1>17
<1> HIDE DEF lba
<1>22. \A s \in lba .. lba + n - 1 : s - lba \in 0 .. n - 1 /\ lba + (s - lba) = s
                                     /\ buf + s - lba = buf + (s - lba)
  BY <1>9, <1>18, <1>21
<1>23. ASSUME NEW t \in 0 .. n - 1
       PROVE  disk'[SectorOf(out, w + t)] = SectorOf(in, w + t)
  <2> DEFINE s == lba + t
  <2>1. s \in Sectors /\ s = SectorOf(out, w + t) /\ t \in 0 .. wr - 1 /\ buf + t \in BufSectors
    BY <1>20
  <2>2. s \in lba .. lba + n - 1 /\ buf + s - lba = buf + t
    BY <1>9, <1>18, <1>21
  <2>3. disk'[s] = BufferAt(buf + s - lba)
    <3> HIDE DEF s, Sectors
    <3> QED
      BY <2>1, <2>2, <1>8
  <2>4. BufferAt(buf + t) = SectorOf(in, w + t)
    BY <2>1, <1>7 DEF BufferAt
  <2> QED
    BY <2>1, <2>2, <2>3, <2>4
<1>24. ASSUME NEW s \in Sectors, s \in lba .. lba + n - 1
       PROVE  \E t \in 0 .. n - 1 : s = SectorOf(out, w + t)
  <2>1. s - lba \in 0 .. n - 1 /\ lba + (s - lba) = s
    BY <1>22, <1>24
  <2> DEFINE t == s - lba
  <2>2. t \in 0 .. n - 1 /\ lba + t = s
    BY <2>1
  <2> HIDE DEF t
  <2> QED
    BY <2>2, <1>20
<1>25. ASSUME NEW j \in 0 .. w - 1
       PROVE  disk'[SectorOf(out, j)] = SectorOf(in, j)
  <2>1. j \in 0 .. N - 1 /\ j < w
    <3>1. N \in Nat /\ w \in Nat /\ wr \in Nat /\ w + wr <= N
      BY <1>5, <1>9, <1>17, <1>19
    <3> QED
      BY <3>1
  <2>2. SectorOf(out, j) \in Sectors
    BY <2>1, <1>5 DEF Separate
  <2>3. SectorOf(out, j) \notin lba .. lba + n - 1
    <3> SUFFICES ASSUME SectorOf(out, j) \in lba .. lba + n - 1
                 PROVE  FALSE
      OBVIOUS
    <3>1. PICK t \in 0 .. n - 1 : SectorOf(out, j) = SectorOf(out, w + t)
      <4> HIDE DEF Sectors
      <4> QED
        BY <2>2, <1>24
    <3>2. w + t \in 0 .. N - 1
      BY <1>20
    <3>3. j = w + t
      BY <2>1, <3>1, <3>2, <1>5 DEF Separate
    <3> QED
      BY <3>3, <2>1, <1>17, <1>18
  <2>4. disk'[SectorOf(out, j)] = disk[SectorOf(out, j)]
    <3> HIDE DEF Sectors
    <3> QED
      BY <2>2, <2>3, <1>8
  <2>5. disk[SectorOf(out, j)] = SectorOf(in, j)
    BY <1>5, <1>7 DEF Copied, in, out
  <2> QED
    BY <2>4, <2>5
<1>26. \A j \in 0 .. (w + n) - 1 : disk'[SectorOf(out, j)] = SectorOf(in, j)
  <2> SUFFICES ASSUME NEW j \in 0 .. (w + n) - 1
               PROVE  disk'[SectorOf(out, j)] = SectorOf(in, j)
    OBVIOUS
  <2>1. CASE j < w
    <3>1. j \in 0 .. w - 1
      BY <2>1, <1>17, <1>18
    <3> QED
      BY <3>1, <1>25
  <2>2. CASE ~(j < w)
    <3> DEFINE t == j - w
    <3>1. t \in 0 .. n - 1 /\ w + t = j
      BY <2>2, <1>17, <1>18
    <3> HIDE DEF t
    <3> QED
      BY <3>1, <1>23
  <2> QED
    BY <2>1, <2>2
<1>27. ASSUME NEW s \in Sectors, \A j \in 0 .. (w + n) - 1 : s # SectorOf(out, j)
       PROVE  disk'[s] = s
  <2>1. s \notin lba .. lba + n - 1
    <3> SUFFICES ASSUME s \in lba .. lba + n - 1 PROVE FALSE
      OBVIOUS
    <3>1. PICK t \in 0 .. n - 1 : s = SectorOf(out, w + t)
      BY <1>24
    <3>2. w + t \in 0 .. (w + n) - 1
      BY <1>17, <1>18
    <3> QED
      BY <3>1, <3>2, <1>27
  <2>2. disk'[s] = disk[s]
    <3> HIDE DEF Sectors
    <3> QED
      BY <2>1, <1>8
  <2>3. \A j \in 0 .. w - 1 : j \in 0 .. (w + n) - 1
    BY <1>17, <1>18
  <2>4. \A j \in 0 .. w - 1 : s # SectorOf(out, j)
    BY <2>3, <1>27
  <2>5. disk[s] = s
    BY <2>4, <1>5, <1>7 DEF Copied, out
  <2> QED
    BY <2>2, <2>5
\* the rest of the chunk
<1>28. \A t \in 0 .. bk'.wr - 1 : buffer'[bk'.buf + t] = SectorOf(in, (w + n) + t)
  <2> SUFFICES ASSUME NEW t \in 0 .. (wr - n) - 1
               PROVE  buffer'[(buf + n) + t] = SectorOf(in, (w + n) + t)
    BY <1>10
  <2>1. n + t \in 0 .. wr - 1 /\ (buf + n) + t = buf + (n + t) /\ (w + n) + t = w + (n + t)
    BY <1>9, <1>17, <1>18
  <2> QED
    BY <2>1, <1>1, <1>7
<1> DEFINE x1 == bk'.index  o1 == bk'.offset
<1>29. /\ x1 \in 0 .. c /\ x1 \in Nat /\ o1 \in Nat /\ wpos[x1] + o1 = w + n
       /\ IF x1 = c THEN o1 = 0 ELSE o1 < WrExt(x1).len
  <2>1. CASE full
    <3>1. x1 = x + 1 /\ o1 = 0
      BY <1>10, <2>1
    <3>2. x1 \in 0 .. c /\ x1 \in Nat
      BY <3>1, <1>16
    <3>3. wpos[x1] + o1 = w + n
      <4>1. wpos[x + 1] = base + len /\ o + n = len
        BY <1>16, <2>1
      <4> HIDE DEF base, len, x1, o1
      <4>2. (base + len) + 0 = w + n
        BY <4>1, <1>9, <1>17, <1>18
      <4> QED
        BY <3>1, <4>1, <4>2
    <3>4. x1 # c => WrExt(x1).len \in Nat \ {0}
      <4> SUFFICES ASSUME x1 # c PROVE WrExt(x1).len \in Nat \ {0}
        OBVIOUS
      <4>1. x1 \in 0 .. c - 1
        BY <3>2, <1>16
      <4> HIDE DEF x1
      <4> QED
        BY <4>1, <1>5 DEF Lists, WrExt
    <3> QED
      BY <3>1, <3>2, <3>3, <3>4
  <2>2. CASE ~ full
    <3>1. x1 = x /\ o1 = o + n
      BY <1>10, <2>2
    <3>2. x \in 0 .. c /\ x \in Nat /\ x # c
      BY <1>16
    <3>3. o + n \in Nat /\ base + (o + n) = w + n /\ o + n < len
      <4>1. o + n # len
        BY <2>2
      <4> HIDE DEF base, len
      <4> QED
        BY <4>1, <1>9, <1>17, <1>18
    <3>4. WrExt(x1) = e
      BY <3>1 DEF e, x
    <3> HIDE DEF x1, o1
    <3> QED
      BY <3>1, <3>2, <3>3, <3>4
  <2> QED
    BY <2>1, <2>2
<1>30. ASSUME NEW s \in Sectors
       PROVE  (IF s \in lba .. lba + n - 1 THEN BufferAt(buf + s - lba) ELSE disk[s])
                \in Sectors \cup {Junk}
  <2>1. CASE s \in lba .. lba + n - 1
    <3>1. s - lba \in 0 .. n - 1 /\ buf + s - lba = buf + (s - lba)
      BY <2>1, <1>22
    <3>2. buf + s - lba \in BufSectors
      BY <3>1, <1>20
    <3> HIDE DEF Sectors, BufSectors
    <3>3. BufferAt(buf + s - lba) \in Sectors \cup {Junk}
      BY <3>2, <1>12 DEF BufferAt
    <3> QED
      BY <2>1, <3>3
  <2>2. CASE s \notin lba .. lba + n - 1
    <3> HIDE DEF Sectors
    <3> QED
      BY <2>2, <1>12
  <2> QED
    BY <2>1, <2>2
<1>31. DevTypes'
  <2>1. disk' \in [Sectors -> Sectors \cup {Junk}]
    <3> HIDE DEF Sectors
    <3> QED
      BY <1>8, <1>30
  <2>2. \A y \in {"i", "k", "start", "off", "rd", "wr", "buf", "index", "offset"} : bk'[y] \in Nat
    <3>1. wr - n \in Nat /\ buf + n \in Nat
      BY <1>9, <1>18
    <3>2. /\ bk'.i \in Nat /\ bk'.k \in Nat /\ bk'.start \in Nat /\ bk'.off \in Nat /\ bk'.rd \in Nat
          /\ bk'.wr \in Nat /\ bk'.buf \in Nat /\ bk'.index \in Nat /\ bk'.offset \in Nat
      BY <1>9, <1>10, <1>29, <3>1
    <3> QED
      BY <3>2
  <2>3. bk' \in [{"i", "k", "start", "off", "rd", "wr", "buf", "index", "offset"} -> Nat]
    BY <2>2, <1>10
  <2> QED
    BY <2>1, <2>3, <1>1, <1>12 DEF DevTypes, Sectors, BufSectors
<1>32. Moved(rpos, wpos, bk')
  <2>1. wpos[bk'.index] + bk'.offset = w + n
    BY <1>29
  <2>3. pc' = "write" => \A t \in 0 .. bk'.wr - 1 : buffer'[bk'.buf + t] = SectorOf(in, (w + n) + t)
    BY <1>28
  <2>4. IF pc' = "write" THEN bk'.wr > 0 ELSE bk'.wr = 0
    BY <1>8, <1>9, <1>10, <1>18
  <2>5. /\ bk'.i \in 0 .. nr_rd_bios /\ bk'.index \in 0 .. nr_wr_bios
        /\ IF bk'.i = nr_rd_bios THEN bk'.k = 0 ELSE bk'.k < RdExt(bk'.i).len
        /\ IF bk'.index = nr_wr_bios THEN bk'.offset = 0 ELSE bk'.offset < WrExt(bk'.index).len
    BY <1>7, <1>10, <1>29 DEF c
  <2>6. /\ bk'.start = Least((rpos[bk'.i] + bk'.k) * BPS, fs)
        /\ (w + n) + bk'.wr = Least(rpos[bk'.i] + bk'.k, N)
    <3>1. rpos[bk'.i] + bk'.k = p /\ bk'.start = bk.start
      BY <1>10 DEF p
    <3>2. (w + n) + (wr - n) = w + wr
      BY <1>9, <1>17, <1>18
    <3> QED
      BY <3>1, <3>2, <1>7, <1>10
  <2>7. /\ bk'.off <= bk'.buf /\ bk'.buf + bk'.wr <= bk'.off + bk'.rd
        /\ bk'.off + bk'.rd <= ISSD_CNT_PAGES * SECTORS_PER_PAGE
    <3> DEFINE a == bk.off  b == bk.rd
    <3>1. a \in Nat /\ b \in Nat /\ a <= buf /\ buf + wr <= a + b
          /\ a + b <= ISSD_CNT_PAGES * SECTORS_PER_PAGE
      BY <1>7, <1>9
    <3> HIDE DEF a, b
    <3>2. a <= buf + n /\ (buf + n) + (wr - n) <= a + b
      BY <3>1, <1>9, <1>18
    <3> QED
      BY <3>1, <3>2, <1>10 DEF a, b
  <2>8. files[0].blocks = in /\ files[Out].blocks = out /\ cmd.fileSize[0] = fs
    BY <1>5 DEF in, out, fs
  <2> QED
    BY <2>1, <1>26, <1>27, <2>3, <2>4, <2>5, <2>6, <2>7, <2>8 DEF Moved
<1> QED
  BY <1>1, <1>2, <1>3a, <1>4, <1>31, <1>32, CopyStep DEF rpos, wpos

-----------------------------------------------------------------------------
(* The initial states *)

\* The blocks of file f are those of z from place o on.
IsPart(f, z, o) ==
  /\ o \in Nat /\ o + Len(f.blocks) <= Len(z)
  /\ \A i \in 1 .. Len(f.blocks) : f.blocks[i] = z[o + i]

\* A file whose blocks are part of blocks that nothing shares.
LEMMA PartOk ==
  ASSUME NEW z \in Seq(Blocks \cup {Hole}), NoSharing(z),
         NEW bs \in Seq(Blocks \cup {Hole}), NEW sz \in Nat, get_nr_blocks(sz) = Len(bs),
         NEW o, IsPart([blocks |-> bs, size |-> sz], z, o)
  PROVE  FileOk([blocks |-> bs, size |-> sz])
<1>1. /\ o \in Nat /\ o + Len(bs) <= Len(z) /\ \A i \in 1 .. Len(bs) : bs[i] = z[o + i]
  BY DEF IsPart
<1>2. Len(bs) \in Nat /\ DOMAIN bs = 1 .. Len(bs) /\ Len(z) \in Nat /\ DOMAIN z = 1 .. Len(z)
  BY LenProperties
<1>3. NoSharing(bs)
  <2> SUFFICES ASSUME NEW i \in 1 .. Len(bs), NEW j \in 1 .. Len(bs), i # j, bs[i] # Hole
               PROVE  bs[i] # bs[j]
    BY <1>2 DEF NoSharing
  <2>1. o + i \in DOMAIN z /\ o + j \in DOMAIN z /\ o + i # o + j
    BY <1>1, <1>2
  <2>2. bs[i] = z[o + i] /\ bs[j] = z[o + j]
    BY <1>1
  <2> QED
    BY <2>1, <2>2 DEF NoSharing
<1> QED
  BY <1>3 DEF FileOk

\* Files that are different parts of it.
LEMMA PartsApart ==
  ASSUME NEW z \in Seq(Blocks \cup {Hole}), NoSharing(z), NEW f, NEW g, FileOk(f), FileOk(g),
         NEW o, NEW q, IsPart(f, z, o), IsPart(g, z, q), o + Len(f.blocks) <= q
  PROVE  Apart(f, g) /\ Apart(g, f)
<1>1. /\ Len(f.blocks) \in Nat /\ DOMAIN f.blocks = 1 .. Len(f.blocks)
      /\ Len(g.blocks) \in Nat /\ DOMAIN g.blocks = 1 .. Len(g.blocks)
  BY FileFacts
<1>2. Len(z) \in Nat /\ DOMAIN z = 1 .. Len(z)
  BY LenProperties
<1>3. ASSUME NEW i \in DOMAIN f.blocks, NEW j \in DOMAIN g.blocks
      PROVE  /\ o + i \in DOMAIN z /\ q + j \in DOMAIN z /\ o + i # q + j
             /\ f.blocks[i] = z[o + i] /\ g.blocks[j] = z[q + j]
  <2> DEFINE a == Len(f.blocks)  b == Len(g.blocks)
  <2>1. i \in 1 .. a /\ j \in 1 .. b /\ a \in Nat /\ b \in Nat
    BY <1>1
  <2>2. o \in Nat /\ q \in Nat /\ o + a <= q /\ q + b <= Len(z)
        /\ f.blocks[i] = z[o + i] /\ g.blocks[j] = z[q + j]
    BY <2>1 DEF IsPart
  <2> HIDE DEF a, b
  <2> QED
    BY <2>1, <2>2, <1>2
<1> QED
  BY <1>3 DEF Apart, NoSharing

\* The sizes that a file with these blocks may have.
LEMMA SizesForOk ==
  ASSUME NEW bs \in Seq(Blocks \cup {Hole}), NEW sz \in SizesFor(bs)
  PROVE  sz \in Nat /\ get_nr_blocks(sz) = Len(bs)
<1> DEFINE n == Len(bs)  b == blksize
<1>1. n \in Nat /\ (bs = <<>> <=> n = 0)
  BY LenProperties, EmptySeq
<1>2. b \in Nat \ {0}
  BY Sizes
<1>3. CASE bs = <<>>
  <2>1. sz = 0 /\ n = 0
    BY <1>1, <1>3 DEF SizesFor
  <2>2. CeilDiv(0, b) = 0
    BY <1>2, CeilBasics
  <2> QED
    BY <2>1, <2>2 DEF get_nr_blocks
<1>4. CASE bs # <<>>
  <2>1. n \in Nat \ {0} /\ sz \in (n - 1) * b + 1 .. n * b
    BY <1>1, <1>4 DEF SizesFor
  <2> HIDE DEF n, b
  <2>2. (n - 1) * b \in Nat /\ n * b \in Int
    BY <2>1, <1>2, ScaleMono
  <2>3. sz \in Nat /\ sz <= n * b /\ ~(sz <= (n - 1) * b)
    BY <2>1, <2>2
  <2>4. CeilDiv(sz, b) \in Int /\ CeilDiv(sz, b) <= n /\ ~(CeilDiv(sz, b) <= n - 1)
    BY <2>1, <2>3, <1>2, CeilLe
  <2>5. CeilDiv(sz, b) = n
    BY <2>1, <2>4
  <2> QED
    BY <2>3, <2>5 DEF get_nr_blocks, n, b
<1> QED
  BY <1>3, <1>4

\* The files of an initial state are parts of blocks that nothing shares.
LEMMA InitFiles ==
  ASSUME Init
  PROVE  /\ FilesOk /\ op \in {"ISSD_FILECOPY", "ISSD_MERGE"}
         /\ files[Out].size = oldSize /\ oldSize \in Nat /\ DOMAIN files = 0 .. Out
<1> DEFINE S == Blocks \cup {Hole}
<1>1. op \in {"ISSD_FILECOPY", "ISSD_MERGE"}
  BY BackupOps DEF Init
<1>2. Out \in {1, 2} /\ NumFiles(op) = Out + 1 /\ (op = "ISSD_MERGE" <=> Out = 2)
  BY <1>1 DEF Out, NumFiles
<1>3. PICK all \in BlockSeqs(IF op = "ISSD_MERGE" THEN MaxMergeBlocks ELSE MaxBlocks),
           old \in BlockSeqs(MaxOldBlocks), n \in 0 .. MaxBlocks :
       /\ n <= Len(all) /\ (op = "ISSD_FILECOPY" => n = Len(all))
       /\ op = "ISSD_MERGE" => old = <<>> /\ Hole \notin Range(all)
       /\ Hole \notin Range(old) /\ NoSharing(all \o old)
       /\ \E s0 \in SizesFor(SubSeq(all, 1, n)), s1 \in SizesFor(SubSeq(all, n + 1, Len(all))) :
            LET in0 == [blocks |-> SubSeq(all, 1, n), size |-> s0]
                in1 == [blocks |-> SubSeq(all, n + 1, Len(all)), size |-> s1]
                out == [blocks |-> old, size |-> Len(old) * blksize]
            IN  files = [f \in 0 .. NumFiles(op) - 1 |->
                           IF f = 0 THEN in0 ELSE IF f = NumFiles(op) - 1 THEN out ELSE in1]
       /\ oldSize = Len(old) * blksize
  BY DEF Init
<1> DEFINE L == Len(all)
           K == Len(old)
           b0 == SubSeq(all, 1, n)
           b1 == SubSeq(all, n + 1, L)
           z == all \o old
<1>4. PICK s0 \in SizesFor(b0), s1 \in SizesFor(b1) :
        files = [f \in 0 .. NumFiles(op) - 1 |->
                  IF f = 0 THEN [blocks |-> b0, size |-> s0]
                  ELSE IF f = NumFiles(op) - 1 THEN [blocks |-> old, size |-> K * blksize]
                       ELSE [blocks |-> b1, size |-> s1]]
  BY <1>3
<1>5. all \in Seq(S) /\ old \in Seq(S)
  <2>1. ASSUME NEW bound \in Nat, NEW bs \in BlockSeqs(bound) PROVE bs \in Seq(S)
    <3>1. PICK k \in 0 .. bound : bs \in [1 .. k -> S]
      BY <2>1 DEF BlockSeqs
    <3> HIDE DEF S
    <3> QED
      BY <3>1, IsASeq
  <2>2. MaxMergeBlocks \in Nat /\ MaxBlocks \in Nat /\ MaxOldBlocks \in Nat
    BY BoundsNat
  <2>3. (IF op = "ISSD_MERGE" THEN MaxMergeBlocks ELSE MaxBlocks) \in Nat
    BY <2>2
  <2> HIDE DEF S
  <2> QED
    BY <2>1, <2>2, <2>3
<1>6. L \in Nat /\ K \in Nat /\ n \in Nat /\ n <= L
  <2>1. MaxBlocks \in Nat
    BY BoundsNat
  <2> HIDE DEF S
  <2>2. L \in Nat /\ K \in Nat
    BY <1>5, LenProperties
  <2> QED
    BY <1>3, <2>1, <2>2
<1> HIDE DEF S
<1>7. /\ z \in Seq(S) /\ Len(z) = L + K
      /\ \A i \in 1 .. L + K : z[i] = IF i <= L THEN all[i] ELSE old[i - L]
  BY <1>5, ConcatProperties
<1>7a. NoSharing(z)
  BY <1>3
<1>7b. all \in [1 .. L -> S] /\ old \in [1 .. K -> S]
  BY <1>5, LenProperties
<1> HIDE DEF L, K, z
<1>8. /\ b0 \in Seq(S) /\ Len(b0) = n /\ \A i \in 1 .. n : b0[i] = all[i]
  <2>1. \A i \in 1 .. n : all[i] \in S
    BY <1>6, <1>7b
  <2>2. /\ SubSeq(all, 1, n) \in Seq(S)
        /\ Len(SubSeq(all, 1, n)) = IF 1 <= n THEN n - 1 + 1 ELSE 0
        /\ \A i \in 1 .. n - 1 + 1 : SubSeq(all, 1, n)[i] = all[1 + i - 1]
    BY <2>1, <1>6, SubSeqProperties
  <2> HIDE DEF b0
  <2>3. b0 \in Seq(S) /\ Len(b0) = (IF 1 <= n THEN n - 1 + 1 ELSE 0)
        /\ \A i \in 1 .. n - 1 + 1 : b0[i] = all[1 + i - 1]
    BY <2>2 DEF b0
  <2>4. \A i \in 1 .. n : i \in 1 .. n - 1 + 1 /\ 1 + i - 1 = i
    BY <1>6
  <2> QED
    BY <2>3, <2>4, <1>6
<1>9. /\ b1 \in Seq(S) /\ Len(b1) = L - n /\ \A i \in 1 .. L - n : b1[i] = all[n + i]
  <2>1. \A i \in n + 1 .. L : all[i] \in S
    BY <1>6, <1>7b
  <2> DEFINE a == n + 1
  <2>1a. a \in Int /\ L \in Int /\ \A i \in a .. L : all[i] \in S
    BY <2>1, <1>6
  <2> HIDE DEF a
  <2>2. /\ SubSeq(all, a, L) \in Seq(S)
        /\ Len(SubSeq(all, a, L)) = IF a <= L THEN L - a + 1 ELSE 0
        /\ \A i \in 1 .. L - a + 1 : SubSeq(all, a, L)[i] = all[a + i - 1]
    BY <2>1a, SubSeqProperties
  <2> HIDE DEF b1
  <2>3. b1 \in Seq(S) /\ Len(b1) = (IF a <= L THEN L - a + 1 ELSE 0)
        /\ \A i \in 1 .. L - a + 1 : b1[i] = all[a + i - 1]
    BY <2>2 DEF b1, a
  <2>4. /\ \A i \in 1 .. L - n : i \in 1 .. L - a + 1 /\ a + i - 1 = n + i
        /\ (IF a <= L THEN L - a + 1 ELSE 0) = L - n
    BY <1>6 DEF a
  <2> QED
    BY <2>3, <2>4
<1> DEFINE F0 == [blocks |-> b0, size |-> s0]
           F1 == [blocks |-> b1, size |-> s1]
           FO == [blocks |-> old, size |-> K * blksize]
<1> HIDE DEF b0, b1
<1>10. IsPart(F0, z, 0) /\ IsPart(F1, z, n) /\ IsPart(FO, z, L)
  <2>1. \A i \in 1 .. n : b0[i] = z[0 + i]
    <3>1. \A i \in 1 .. n : i \in 1 .. L + K /\ i <= L /\ 0 + i = i
      BY <1>6
    <3> QED
      BY <3>1, <1>7, <1>8
  <2>2. \A i \in 1 .. L - n : b1[i] = z[n + i]
    <3>1. \A i \in 1 .. L - n : n + i \in 1 .. L + K /\ n + i <= L
      BY <1>6
    <3> QED
      BY <3>1, <1>7, <1>9
  <2>3. \A i \in 1 .. K : old[i] = z[L + i]
    <3>1. \A i \in 1 .. K : L + i \in 1 .. L + K /\ ~(L + i <= L) /\ (L + i) - L = i
      BY <1>6
    <3> QED
      BY <3>1, <1>7
  <2>4. Len(old) = K
    BY DEF K
  <2>5. 0 + n <= Len(z) /\ n + (L - n) <= Len(z) /\ L + K <= Len(z) /\ 0 \in Nat
    BY <1>6, <1>7
  <2> QED
    BY <2>1, <2>2, <2>3, <2>4, <2>5, <1>6, <1>8, <1>9 DEF IsPart
<1>11. s0 \in Nat /\ get_nr_blocks(s0) = n /\ s1 \in Nat /\ get_nr_blocks(s1) = L - n
  BY <1>8, <1>9, SizesForOk DEF S
<1>12. K * blksize \in Nat /\ get_nr_blocks(K * blksize) = K
  <2> DEFINE b == blksize
  <2>1. b \in Nat \ {0}
    BY Sizes
  <2> HIDE DEF b
  <2>2. K * b \in Nat /\ CeilDiv(K * b, b) = K
    BY <2>1, <1>6, CeilBasics
  <2> QED
    BY <2>2 DEF get_nr_blocks, b
<1>13. FileOk(F0) /\ FileOk(F1) /\ FileOk(FO)
  <2>1. Len(old) = K
    BY DEF K
  <2>2. FileOk(F0)
    BY <1>7, <1>7a, <1>8, <1>10, <1>11, PartOk DEF S
  <2>3. FileOk(F1)
    BY <1>7, <1>7a, <1>9, <1>10, <1>11, PartOk DEF S
  <2>4. FileOk(FO)
    BY <1>5, <1>7, <1>7a, <2>1, <1>10, <1>12, PartOk DEF S
  <2> QED
    BY <2>2, <2>3, <2>4
<1>14. Len(F0.blocks) = n /\ Len(F1.blocks) = L - n /\ Len(FO.blocks) = K
       /\ FO.size = K * blksize /\ FO.blocks = old
  BY <1>8, <1>9 DEF K
<1>15. files = [f \in 0 .. Out |-> IF f = 0 THEN F0 ELSE IF f = Out THEN FO ELSE F1]
  <2>1. NumFiles(op) - 1 = Out
    BY <1>2
  <2> QED
    BY <2>1, <1>4
<1> HIDE DEF F0, F1, FO
<1>16. /\ Apart(F0, FO) /\ Apart(FO, F0)
       /\ Apart(F0, F1) /\ Apart(F1, F0)
       /\ Apart(F1, FO) /\ Apart(FO, F1)
  <2>1. 0 + Len(F0.blocks) <= L /\ 0 + Len(F0.blocks) <= n /\ n + Len(F1.blocks) <= L
    BY <1>6, <1>14
  <2>2. Apart(F0, FO) /\ Apart(FO, F0)
    BY <2>1, <1>7, <1>7a, <1>10, <1>13, PartsApart DEF S
  <2>3. Apart(F0, F1) /\ Apart(F1, F0)
    BY <2>1, <1>7, <1>7a, <1>10, <1>13, PartsApart DEF S
  <2>4. Apart(F1, FO) /\ Apart(FO, F1)
    BY <2>1, <1>7, <1>7a, <1>10, <1>13, PartsApart DEF S
  <2> QED
    BY <2>2, <2>3, <2>4
<1>17. files = [f \in 0 .. Out |-> files[f]] /\ DOMAIN files = 0 .. Out
       /\ \A f \in 0 .. Out : files[f] = IF f = 0 THEN F0 ELSE IF f = Out THEN FO ELSE F1
  BY <1>15
<1>18. Out \in 0 .. Out /\ files[Out] = FO
  BY <1>2, <1>17
<1>19. FilesOk
  <2>1. \A f \in 0 .. Out : FileOk(files[f])
    BY <1>13, <1>17
  <2>2. \A f, g \in 0 .. Out : f # g => Apart(files[f], files[g])
    <3> SUFFICES ASSUME NEW f \in 0 .. Out, NEW g \in 0 .. Out, f # g
                 PROVE  Apart(files[f], files[g])
      OBVIOUS
    <3>1. f \in {0, 1, 2} /\ g \in {0, 1, 2} /\ Out \in {1, 2} /\ f <= Out /\ g <= Out
      BY <1>2
    <3>2. \A h \in 0 .. Out : h # 0 /\ h # Out => h = 1
      BY <1>2
    <3>3. Out # 0
      BY <3>1
    <3> QED
      <4>1. CASE f = 0
        BY <4>1, <3>3, <1>16, <1>17
      <4>2. CASE f = Out
        BY <4>2, <3>3, <1>16, <1>17
      <4>3. CASE f # 0 /\ f # Out
        <5>1. g = 0 \/ g = Out
          BY <4>3, <3>2
        <5> QED
          BY <4>3, <5>1, <3>3, <1>16, <1>17
      <4> QED
        BY <4>1, <4>2, <4>3
  <2>3. Hole \notin Range(files[Out].blocks)
    BY <1>3, <1>14, <1>18
  <2> QED
    BY <2>1, <2>2, <2>3, <1>17 DEF FilesOk
<1>20. files[Out].size = oldSize /\ oldSize \in Nat
  BY <1>3, <1>12, <1>14, <1>18 DEF K
<1> QED
  BY <1>1, <1>17, <1>19, <1>20

\* The invariant holds initially.
LEMMA InitOk == Init => IInv
<1> SUFFICES ASSUME Init PROVE IInv
  OBVIOUS
<1>1. /\ FilesOk /\ op \in {"ISSD_FILECOPY", "ISSD_MERGE"}
      /\ files[Out].size = oldSize /\ oldSize \in Nat /\ DOMAIN files = 0 .. Out
  BY InitFiles
<1>2. Out \in {1, 2} /\ NumFiles(op) = Out + 1
  BY <1>1, Files
<1>3. /\ pc = "size" /\ cur = 0 /\ bk = NoBk
      /\ buffer = [s \in BufSectors |-> Junk] /\ disk = [s \in Sectors |-> s]
      /\ cmd = [fileSize |-> [f \in 0 .. Out |-> 0], isOK |-> FALSE,
                file_ext_offset |-> [f \in 0 .. Out + 1 |-> 0], fileExtArr |-> <<>>]
  BY <1>1, <1>2 DEF Init
<1>4. Control
  BY <1>1, <1>2, <1>3 DEF Control
<1>5. CmdTypes
  <2>1. <<>> \in Seq([lba : Int, len : Int]) /\ Len(<<>>) = 0
    BY EmptySeq
  <2>2. 0 \in 0 .. Out + 1
    BY <1>2
  <2> QED
    BY <1>3, <2>1, <2>2, Sizes DEF CmdTypes
<1>6. ~ Sent /\ ~ Sized(Out) /\ \A f \in 0 .. Out : ~ Sized(f) /\ ~(f < cur)
  <2>1. ~ Sent /\ pc = "size"
    BY <1>3 DEF Sent
  <2>2. \A f \in 0 .. Out : ~(f < cur)
    BY <1>2, <1>3
  <2>3. Out \in 0 .. Out
    BY <1>2
  <2> QED
    BY <2>1, <2>2, <2>3 DEF Sized
<1>7. CmdOk
  <2>1. Len(cmd.fileExtArr) = cmd.file_ext_offset[cur]
    <3>1. cur \in 0 .. Out + 1 /\ Len(<<>>) = 0
      BY <1>2, <1>3, EmptySeq
    <3> QED
      BY <3>1, <1>3
  <2> QED
    BY <2>1, <1>3, <1>6, Open
<1>8. OutputSize
  BY <1>1, <1>2, <1>3 DEF OutputSize
<1>9. DevTypes
  <2>1. NoBk \in [{"i", "k", "start", "off", "rd", "wr", "buf", "index", "offset"} -> Nat]
    BY DEF NoBk
  <2> HIDE DEF NoBk
  <2> QED
    BY <2>1, <1>3 DEF DevTypes
<1>10. DevOk
  BY <1>3, <1>6 DEF DevOk
<1> QED
  BY <1>1, <1>4, <1>5, <1>7, <1>8, <1>9, <1>10 DEF IInv

-----------------------------------------------------------------------------
(* Every step *)

\* Every step of issd_compute preserves the invariant.
LEMMA HostSteps ==
  ASSUME IInv, Host
  PROVE  IInv'
<1>1. CASE GetSize
  BY <1>1, GetSizeStep
<1>2. CASE ExtractBlocks
  BY <1>2, ExtractStep
<1>3. CASE FileTooLarge
  <2>1. Unlink /\ ~ Sent
    BY <1>3 DEF FileTooLarge, Sent
  <2> QED
    BY <2>1, UnlinkStep
<1>4. CASE PostProcess
  BY <1>4, PostProcessStep
<1>5. CASE TooMany
  <2>1. Unlink /\ ~ Sent
    BY <1>5 DEF TooMany, Sent
  <2> QED
    BY <2>1, UnlinkStep
<1>6. CASE Fallocate
  BY <1>6, FallocateStep
<1>7. CASE FallocateFails
  <2>1. Unlink /\ ~ Sent
    BY <1>7 DEF FallocateFails, Sent
  <2> QED
    BY <2>1, UnlinkStep
<1>8. CASE Truncate
  BY <1>8, QuietSteps
<1> QED
  BY <1>1, <1>2, <1>3, <1>4, <1>5, <1>6, <1>7, <1>8 DEF Host

\* Every step of do_issd_backup preserves the invariant.
LEMMA DeviceSteps ==
  ASSUME IInv, Device
  PROVE  IInv'
<1>1. CASE ReadChunk
  BY <1>1, ReadStep
<1>2. CASE WriteExtent
  BY <1>2, WriteStep
<1>3. CASE ReadFails \/ BackupDone \/ InvalidCommand
  BY <1>3, QuietSteps
<1> QED
  BY <1>1, <1>2, <1>3 DEF Device

\* A step that changes nothing preserves the invariant.
LEMMA NoStep ==
  ASSUME IInv, UNCHANGED vars
  PROVE  IInv'
<1>1. /\ pc' = pc /\ op' = op /\ files' = files /\ oldSize' = oldSize /\ cur' = cur
      /\ blockList' = blockList /\ cmd' = cmd /\ bk' = bk /\ buffer' = buffer /\ disk' = disk
  BY DEF vars, hostVars, devVars
<1>2. Out' = Out /\ Sent' = Sent /\ N' = N
  BY <1>1 DEF Out, Sent, N
<1>3. Control' /\ FilesOk' /\ CmdTypes' /\ DevTypes'
  BY <1>1, <1>2 DEF IInv, Control, FilesOk, CmdTypes, DevTypes
<1>4. pc' # "failed" => CmdOk' /\ OutputSize'
  <2> SUFFICES ASSUME pc' # "failed" PROVE CmdOk' /\ OutputSize'
    OBVIOUS
  <2>1. CmdOk /\ OutputSize
    BY <1>1 DEF IInv
  <2>2. \A f : Sized(f)' = Sized(f) /\ Listed(f)' = Listed(f)
    BY <1>1, <1>2 DEF Sized, Listed
  <2>3. \A f, m : ListedAs(f, m)' <=> ListedAs(f, m)
    BY <1>1 DEF ListedAs
  <2>4. CmdOk'
    BY <1>1, <1>2, <2>1, <2>2, <2>3 DEF CmdOk
  <2>5. OutputSize'
    BY <1>1, <1>2, <2>1 DEF OutputSize, wlength
  <2> QED
    BY <2>4, <2>5
<1>5. DevOk'
  <2>1. DevOk
    BY DEF IInv
  <2>2. \A m : (ListedAs(0, m)' <=> ListedAs(0, m)) /\ InPos(m)' = InPos(m)
    BY <1>1 DEF ListedAs, InPos
  <2>3. OutPos' = OutPos
    BY <1>1, <1>2 DEF OutPos
  <2>4. nr_rd_bios' = nr_rd_bios /\ nr_wr_bios' = nr_wr_bios
        /\ RdExt(bk.i)' = RdExt(bk.i) /\ WrExt(bk.index)' = WrExt(bk.index)
    BY <1>1 DEF nr_rd_bios, nr_wr_bios, rd_bio_offset, wr_bio_offset, RdExt, WrExt
  <2>5. \A m : Copying(InPos(m), OutPos)' <=> Copying(InPos(m), OutPos)
    <3>1. Written(OutPos)' = Written(OutPos)
      BY <1>1, <2>3 DEF Written
    <3>2. Copied(Written(OutPos))' <=> Copied(Written(OutPos))
      BY <1>1, <1>2, <3>1 DEF Copied
    <3> QED
      BY <1>1, <1>2, <2>2, <2>3, <2>4, <3>1, <3>2 DEF Copying
  <2> QED
    BY <1>1, <1>2, <2>1, <2>2, <2>5 DEF DevOk
<1> QED
  BY <1>3, <1>4, <1>5 DEF IInv

\* The inductive invariant: the files are well formed and share no block, the extents of
\* the command are those of their blocks, and the sectors of the output that the copy has
\* come to hold those of the input.
THEOREM Inductive == Spec => []IInv
<1>1. Init => IInv
  BY InitOk
<1>2. IInv /\ [Next]_vars => IInv'
  <2> SUFFICES ASSUME IInv, [Next]_vars PROVE IInv'
    OBVIOUS
  <2>1. CASE Host
    BY <2>1, HostSteps
  <2>2. CASE Device
    BY <2>2, DeviceSteps
  <2>3. CASE \E n \in AppendSizes : Append0(n)
    BY <2>3, AppendStep
  <2>4. CASE UNCHANGED vars
    BY <2>4, NoStep
  <2> QED
    BY <2>1, <2>2, <2>3, <2>4 DEF Next
<1> QED
  BY <1>1, <1>2, PTL DEF Spec

-----------------------------------------------------------------------------
(* What the invariant says *)

\* While a copy is carried out.
Carried == Sent /\ op = "ISSD_FILECOPY"

\* Positions and sizes are in bounds.
LEMMA BoundsOk ==
  ASSUME IInv
  PROVE  CopyInBounds
<1>1. Control /\ FilesOk /\ CmdTypes /\ DevTypes /\ DevOk
  BY DEF IInv
<1>2. op \in {"ISSD_FILECOPY", "ISSD_MERGE"} /\ Out \in Nat
  BY <1>1, Files DEF Control
<1>3. bk.wr \in Nat /\ bk.k \in Nat
  BY <1>1, BkFacts
<1>4. /\ bk.index \in 0 .. max_fileExt_num
      /\ ChunkInBuffer /\ OutputHasRoom
  <2>1. CASE Carried
    <3>1. PICK m \in 0 .. Len(files[0].blocks) : ListedAs(0, m) /\ Copying(InPos(m), OutPos)
      BY <1>1, <2>1 DEF DevOk, Carried
    <3>2. HostOk
      BY <2>1 DEF IInv, HostOk, Carried, Sent
    <3>3. /\ N \in Nat
          /\ Lists(rd_bio_offset, nr_rd_bios, InPos(m), files[0].blocks)
          /\ Lists(wr_bio_offset, nr_wr_bios, OutPos, files[1].blocks)
      BY <2>1, <3>1, <3>2, CopyLists DEF Carried
    <3> DEFINE wpos == OutPos
               c == nr_wr_bios
               p == InPos(m)[bk.i] + bk.k
    <3>4. /\ bk.index \in 0 .. c /\ bk.i \in 0 .. nr_rd_bios
          /\ (bk.index = c => bk.offset = 0)
          /\ wpos[bk.index] + bk.offset + bk.wr = Least(p, N)
          /\ (pc = "write" => bk.wr > 0)
          /\ bk.off <= bk.buf /\ bk.buf + bk.wr <= bk.off + bk.rd
          /\ bk.off + bk.rd <= ISSD_CNT_PAGES * SECTORS_PER_PAGE
      BY <3>1 DEF Copying, Written
    <3>5. c \in Nat /\ c <= max_fileExt_num /\ wpos \in [0 .. c -> Nat] /\ N <= wpos[c]
      <4>1. /\ c \in Nat /\ wr_bio_offset + c <= max_fileExt_num
            /\ wpos \in [0 .. c -> Nat] /\ N <= wpos[c]
        BY <3>3 DEF Lists
      <4>2. wr_bio_offset \in Nat
        BY <1>1, <1>2, CmdFacts DEF wr_bio_offset
      <4> HIDE DEF c
      <4> QED
        BY <4>1, <4>2, Sizes
    <3>6. p \in Nat
      <4>1. InPos(m)[bk.i] \in Nat
        BY <3>3, <3>4 DEF Lists
      <4> QED
        BY <4>1, <1>3
    <3> HIDE DEF p, wpos
    <3>7. ASSUME pc = "write" PROVE bk.index < c
      <4> HIDE DEF c
      <4>1. Least(p, N) <= N
        BY <3>3, <3>6 DEF Least
      <4>2. Least(p, N) \in Nat
        BY <3>3, <3>6 DEF Least
      <4>3. CASE bk.index = c
        <5> DEFINE a == wpos[c]  b == bk.wr  l == Least(p, N)
        <5>1. a \in Nat /\ b \in Nat /\ b > 0 /\ N <= a /\ l <= N /\ l \in Nat
          BY <3>4, <3>5, <3>7, <4>1, <4>2, <1>3
        <5>2. a + 0 + b = l
          BY <3>4, <4>3
        <5> HIDE DEF a, b, l
        <5> QED
          BY <5>1, <5>2, <3>3
      <4> QED
        BY <4>3, <3>4, <3>5
    <3>8. bk.index \in 0 .. max_fileExt_num
      <4> HIDE DEF c
      <4> QED
        BY <3>4, <3>5, Sizes
    <3> QED
      BY <3>4, <3>7, <3>8 DEF ChunkInBuffer, OutputHasRoom
  <2>2. CASE ~ Carried
    <3>1. bk = NoBk /\ pc # "write"
      BY <1>1, <2>2 DEF DevOk, Carried
    <3>2. bk.index = 0 /\ bk.off = 0 /\ bk.rd = 0
      BY <3>1 DEF NoBk
    <3> QED
      BY <3>1, <3>2, Sizes DEF ChunkInBuffer, OutputHasRoom
  <2> QED
    BY <2>1, <2>2
<1>5. /\ DOMAIN files = 0 .. Out
      /\ \A f \in DOMAIN files : /\ get_nr_blocks(files[f].size) = Len(files[f].blocks)
                                 /\ NoSharing(files[f].blocks)
      /\ cur \in DOMAIN files
  BY <1>1 DEF FilesOk, FileOk, Control
<1>6. Len(cmd.fileExtArr) <= max_fileExt_num
  BY <1>1 DEF CmdTypes
<1>7. disk \in [Sectors -> Sectors \cup {Junk}]
  BY <1>1 DEF DevTypes
<1>8. TypeOK
  BY <1>1, <1>3, <1>4, <1>5, <1>6, <1>7 DEF TypeOK, Control
<1> QED
  BY <1>4, <1>8 DEF CopyInBounds

\* How far the copy is.
LEMMA CopiedSoFar ==
  ASSUME IInv, Carried
  PROVE  /\ N \in Nat /\ Out = 1
         /\ \E w \in 0 .. N : Copied(w) /\ (pc = "done" => w = N)
<1>1. HostOk /\ DevTypes /\ DevOk
  BY DEF IInv, HostOk, Carried, Sent
<1>2. PICK m \in 0 .. Len(files[0].blocks) : ListedAs(0, m) /\ Copying(InPos(m), OutPos)
  BY <1>1 DEF DevOk, Carried
<1>3. /\ N \in Nat /\ Out = 1
      /\ Lists(rd_bio_offset, nr_rd_bios, InPos(m), files[0].blocks)
      /\ Lists(wr_bio_offset, nr_wr_bios, OutPos, files[1].blocks)
  BY <1>1, <1>2, CopyLists DEF Carried
<1>4. bk.wr \in Nat /\ bk.k \in Nat /\ bk.offset \in Nat
  BY <1>1, BkFacts
<1> DEFINE w == Written(OutPos)
           p == InPos(m)[bk.i] + bk.k
<1>5. /\ bk.i \in 0 .. nr_rd_bios /\ bk.index \in 0 .. nr_wr_bios
      /\ w + bk.wr = Least(p, N) /\ Copied(w)
      /\ (pc = "done" => w = N)
  BY <1>2 DEF Copying
<1>6. w \in Nat /\ p \in Nat
  <2>1. InPos(m)[bk.i] \in Nat /\ OutPos[bk.index] \in Nat
    BY <1>3, <1>5 DEF Lists
  <2> QED
    BY <2>1, <1>4 DEF Written
<1> HIDE DEF w, p
<1>7. w \in 0 .. N
  BY <1>3, <1>4, <1>5, <1>6 DEF Least
<1> QED
  BY <1>3, <1>5, <1>7

\* What is written is part of the copy.
LEMMA WrittenOk ==
  ASSUME IInv
  PROVE  OnlyOutputWritten
<1>1. CASE Carried
  <2>1. PICK w \in 0 .. N : Copied(w)
    BY <1>1, CopiedSoFar
  <2>2. \A i \in 0 .. w - 1 : i \in CopySectors
    <3>1. N \in Nat /\ CopySectors = 0 .. N - 1
      BY <1>1, CopiedSoFar DEF CopySectors, N, BPS
    <3> QED
      BY <3>1
  <2> HIDE DEF Sectors
  <2> QED
    BY <2>1, <2>2 DEF OnlyOutputWritten, Copied
<1>2. CASE ~ Carried
  <2>1. disk = [s \in Sectors |-> s]
    BY <1>2 DEF IInv, DevOk, Carried
  <2> QED
    BY <2>1 DEF OnlyOutputWritten
<1> QED
  BY <1>1, <1>2

\* At the end the copy is complete.
LEMMA DoneOk ==
  ASSUME IInv
  PROVE  CopyExact
<1> SUFFICES ASSUME pc = "done" PROVE CopyExact
  BY DEF CopyExact
<1>1. Carried
  BY DEF IInv, DevOk, Carried, Sent
<1>2. Out = 1 /\ Copied(N) /\ N \in Nat
  BY <1>1, CopiedSoFar
<1>3. CopySectors = 0 .. N - 1
  BY DEF CopySectors, N, BPS
<1>4. \A i \in CopySectors : disk[SectorOf(files[Out].blocks, i)] = SectorOf(files[0].blocks, i)
  BY <1>2, <1>3 DEF Copied
<1>5. files[Out].size = IF oldSize > cmd.fileSize[0] THEN oldSize ELSE cmd.fileSize[0]
  <2>1. CmdTypes /\ CmdOk /\ OutputSize /\ cur = Out
    BY DEF IInv, CmdOk, Sent
  <2>2. wlength = cmd.fileSize[0]
    BY <1>1, <2>1, WlengthType DEF Carried
  <2> QED
    BY <2>1, <2>2 DEF OutputSize
<1> QED
  BY <1>4, <1>5 DEF CopyExact

\* The extents of one file of a command that is sent.
LEMMA FileExtents ==
  ASSUME FilesOk, CmdTypes, op \in {"ISSD_FILECOPY", "ISSD_MERGE"},
         NEW f \in 0 .. Out, IsListed(f)
  PROVE  LET exts == ExtsOf(f)
             secs == FlattenSeq([j \in DOMAIN exts |-> ExtSectors(exts[j])])
         IN  /\ Len(secs) >= CeilDiv(cmd.fileSize[f], BYTES_PER_SECTOR)
             /\ \A i \in 0 .. CeilDiv(cmd.fileSize[f], BYTES_PER_SECTOR) - 1 :
                  secs[i + 1] = SectorOf(files[f].blocks, i)
             /\ \A j \in 1 .. Len(exts) - 1 : exts[j].lba + exts[j].len # exts[j + 1].lba
<1>1. PICK m \in 0 .. Len(files[f].blocks) : ListedAs(f, m)
  BY DEF IsListed
<1> DEFINE bs == files[f].blocks
           n == Len(bs)
           sb == Seen(bs, m)
           exts == Extents(sb, n)
           first == cmd.file_ext_offset[f]
           end == cmd.file_ext_offset[f + 1]
           arr == cmd.fileExtArr
           fs == cmd.fileSize[f]
           Q == CeilDiv(fs, BYTES_PER_SECTOR)
<1>2. /\ get_nr_blocks(fs) <= m
      /\ n <= MAX_FILE_BLOCK_LEN
      /\ end = first + Len(exts) /\ end <= Len(arr)
      /\ \A j \in 1 .. Len(exts) : arr[first + j] = exts[j]
  BY <1>1 DEF ListedAs
<1>3. /\ FileOk(files[f]) /\ n \in Nat /\ m \in Nat /\ m <= n
      /\ first \in Nat /\ fs \in Nat
  <2>1. FileOk(files[f])
    BY DEF FilesOk
  <2>2. n \in Nat
    BY <2>1, FileFacts
  <2> QED
    BY <2>1, <2>2, CmdFacts
<1>4. \A i \in 1 .. n : sb[i] \in Blocks \cup {0, -1}
  BY <1>2, <1>3, SeenFacts
<1> HIDE DEF sb, bs, n
<1>5. /\ Tiles(exts, Pos(sb, n), sb, n) /\ Unmerged(exts)
  BY <1>3, <1>4, ExtentsTile
<1>6. LET secs == FlattenSeq([j \in DOMAIN exts |-> ExtSectors(exts[j])])
      IN  /\ Len(secs) = n * SPB
          /\ \A i \in 0 .. n * SPB - 1 : secs[i + 1] = SectorOf(sb, i)
  <2> HIDE DEF exts
  <2> QED
    BY <1>3, <1>5, TilesFlatten
<1>7. ExtsOf(f) = exts
  <2> DEFINE L == Len(exts)
             T == [lba : Nat, len : Nat \ {0}]
  <2>1. exts \in Seq(T)
    BY <1>5 DEF Tiles
  <2> HIDE DEF exts, first, end, arr
  <2>2. L \in Nat /\ exts \in [1 .. L -> T]
    <3> HIDE DEF T
    <3> QED
      BY <2>1, LenProperties
  <2> HIDE DEF L, T
  <2> DEFINE a == first + 1
  <2>3. a \in Int /\ end \in Int
    BY <1>2, <1>3, <2>2 DEF L
  <2>4. \A i \in a .. end : arr[i] \in T
    <3> SUFFICES ASSUME NEW i \in a .. end PROVE arr[i] \in T
      OBVIOUS
    <3>0. end = first + L
      BY <1>2 DEF L
    <3> DEFINE j == i - first
    <3>1. j \in 1 .. L /\ first + j = i
      BY <1>3, <2>2, <3>0
    <3> HIDE DEF j
    <3>2. arr[first + j] = exts[j]
      BY <3>1, <1>2 DEF L
    <3> QED
      BY <3>1, <3>2, <2>2
  <2> DEFINE ss == SubSeq(arr, a, end)
  <2>5. /\ ss \in Seq(T) /\ Len(ss) = (IF a <= end THEN end - a + 1 ELSE 0)
        /\ \A i \in 1 .. end - a + 1 : ss[i] = arr[a + i - 1]
    <3> HIDE DEF a
    <3> QED
      BY <2>3, <2>4, SubSeqProperties
  <2> HIDE DEF ss
  <2>6. end = first + L
    BY <1>2 DEF L
  <2>7. Len(ss) = L
    BY <2>5, <2>6, <2>2, <1>3
  <2>8. ss \in [1 .. L -> T]
    BY <2>5, <2>7, LenProperties
  <2>9. ASSUME NEW i \in 1 .. L PROVE ss[i] = exts[i]
    <3>1. i \in 1 .. end - a + 1 /\ a + i - 1 = first + i
      BY <2>2, <2>6, <1>3
    <3>2. ss[i] = arr[first + i]
      BY <2>5, <3>1
    <3>3. arr[first + i] = exts[i]
      BY <1>2 DEF L
    <3> QED
      BY <3>2, <3>3
  <2>10. ss = exts
    BY <2>2, <2>8, <2>9
  <2> QED
    BY <2>10 DEF ExtsOf, ss, a, arr, first, end
<1>8. /\ Q \in Nat /\ Q <= m * SPB /\ m * SPB <= n * SPB /\ n * SPB \in Int /\ m * SPB \in Int
  <2>1. Q \in Nat
    BY <1>3, Sizes, CeilBasics DEF BPS
  <2>2. Q <= m * SPB
    BY <1>2, <1>3, BlocksHoldSectors DEF BPS
  <2>3. m * SPB <= n * SPB /\ n * SPB \in Int /\ m * SPB \in Int
    BY <1>3, Sizes, ScaleMono
  <2> QED
    BY <2>1, <2>2, <2>3
<1> DEFINE secs == FlattenSeq([j \in DOMAIN exts |-> ExtSectors(exts[j])])
<1>9. Len(secs) = n * SPB /\ \A i \in 0 .. n * SPB - 1 : secs[i + 1] = SectorOf(sb, i)
  BY <1>6
<1> HIDE DEF secs, Q
<1>10. Len(secs) >= Q
  <2> DEFINE x == n * SPB  y == m * SPB
  <2>1. Q <= y /\ y <= x /\ x \in Int /\ y \in Int /\ Q \in Nat /\ Len(secs) = x
    BY <1>8, <1>9
  <2> HIDE DEF x, y
  <2> QED
    BY <2>1
<1>11. ASSUME NEW i \in 0 .. Q - 1
       PROVE  secs[i + 1] = SectorOf(bs, i)
  <2> DEFINE x == n * SPB  y == m * SPB
  <2>1. Q <= y /\ y <= x /\ x \in Int /\ y \in Int /\ Q \in Nat
    BY <1>8
  <2>2. \A k \in 0 .. x - 1 : secs[k + 1] = SectorOf(sb, k)
    BY <1>9
  <2> HIDE DEF x, y
  <2>3. i \in Nat /\ i < y /\ i \in 0 .. x - 1
    BY <2>1
  <2>4. i < m * SPB /\ m <= MAX_FILE_BLOCK_LEN
    BY <2>3, <1>2, <1>3, Sizes DEF y
  <2>5. SectorOf(sb, i) = SectorOf(bs, i)
    BY <2>3, <2>4, <1>3, SeenSector DEF sb
  <2> QED
    BY <2>2, <2>3, <2>5
<1>12. \A j \in 1 .. Len(exts) - 1 : exts[j].lba + exts[j].len # exts[j + 1].lba
  BY <1>5 DEF Unmerged
<1> HIDE DEF exts
<1> QED
  BY <1>7, <1>10, <1>11, <1>12 DEF secs, Q, bs

\* The extents of every file of a command that is sent.
LEMMA ListOk ==
  ASSUME IInv
  PROVE  ExtentsExact
<1> SUFFICES ASSUME pc = "read", bk = NoBk, NEW f \in DOMAIN files
             PROVE  LET exts == ExtsOf(f)
                        secs == FlattenSeq([j \in DOMAIN exts |-> ExtSectors(exts[j])])
                    IN  /\ Len(secs) >= CeilDiv(cmd.fileSize[f], BYTES_PER_SECTOR)
                        /\ \A i \in 0 .. CeilDiv(cmd.fileSize[f], BYTES_PER_SECTOR) - 1 :
                             secs[i + 1] = SectorOf(files[f].blocks, i)
                        /\ \A j \in 1 .. Len(exts) - 1 : exts[j].lba + exts[j].len # exts[j + 1].lba
  BY DEF ExtentsExact
<1>1. FilesOk /\ CmdTypes /\ CmdOk /\ Sent /\ op \in {"ISSD_FILECOPY", "ISSD_MERGE"}
  BY DEF IInv, Control, Sent
<1>2. f \in 0 .. Out
  BY <1>1 DEF FilesOk
<1>3. IsListed(f)
  BY <1>1, <1>2 DEF CmdOk, Listed, IsListed
<1> QED
  BY <1>1, <1>2, <1>3, FileExtents

-----------------------------------------------------------------------------
(* The properties *)

\* The copy stays inside its buffer, inside the extents of the output and inside the
\* array of the command, and the ASSERT of do_issd_backup never fails.
THEOREM StaysInBounds == Spec => []CopyInBounds
<1>1. IInv => CopyInBounds
  BY BoundsOk
<1> QED
  BY <1>1, Inductive, PTL

\* do_issd_backup writes nothing but sectors of the input to their places in the output.
THEOREM WritesOutputOnly == Spec => []OnlyOutputWritten
<1>1. IInv => OnlyOutputWritten
  BY WrittenOk
<1> QED
  BY <1>1, Inductive, PTL

\* A copy that is reported done is exact.
THEOREM CopyIsExact == Spec => []CopyExact
<1>1. IInv => CopyExact
  BY DoneOk
<1> QED
  BY <1>1, Inductive, PTL

\* issd_createCmd and postProcess list the sectors of every file in order.
THEOREM ExtentsAreExact == Spec => []ExtentsExact
<1>1. IInv => ExtentsExact
  BY ListOk
<1> QED
  BY <1>1, Inductive, PTL
=============================================================================
