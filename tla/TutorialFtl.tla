----------------------------- MODULE TutorialFtl -----------------------------
(***************************************************************************)
(* The tutorial FTL (ftl_tutorial/ftl.c), with which the issd code of the  *)
(* firmware is built: a page map without garbage collection.  ftl_read and *)
(* ftl_write serve the host through circular SATA buffers and return when  *)
(* their last flash command is issued; issd_read_sectors and               *)
(* issd_write_sectors serve do_issd_backup through buffers of their own.   *)
(* Modelled with the flash controller, the SATA buffer hardware (external: *)
(* HostSends, HostReceives) and the calls that Main makes one by one.      *)
(***************************************************************************)
EXTENDS FlashCtrl, Sequences, SequencesExt

CONSTANTS NUM_LPAGES,
          NUM_WR_BUFFERS, NUM_RD_BUFFERS,
          scan_list,        \* bad physical blocks of each bank, as install.exe found them
          Writes, Reads,    \* requests of the host: <<lba, number of sectors>>
          Copies,           \* copies inside the device: <<from lba, to lba, sectors>>
          MaxOps            \* bound: calls of Main

ASSUME BufferCounts == /\ {NUM_WR_BUFFERS, NUM_RD_BUFFERS, NUM_LPAGES, MaxOps} \subseteq Nat
                       /\ NUM_WR_BUFFERS > NUM_BANKS /\ NUM_RD_BUFFERS > 1
ASSUME ScanLists == scan_list \in [Banks -> Seq(2 .. 2 * VBLKS_PER_BANK - 1)]

VARIABLES
  page_map, g_target_bank, g_target_row, g_ftl_write_buf_id, g_ftl_read_buf_id,
  op,        \* the call that Main is executing
  ops,       \* number of calls begun; a write is known by it
  wrPages,   \* pages of write data that the host has still to send, in order
  received,  \* number of pages of write data in the SATA write buffers so far
  issued,    \* number of them that the firmware has issued a command for
  rdPages,   \* pages of read data on their way to the host, in order
  latest     \* history: what was last written to each logical sector

ftlVars == <<page_map, g_target_bank, g_target_row, g_ftl_write_buf_id, g_ftl_read_buf_id>>
sataVars == <<wrPages, received, issued, rdPages>>
vars == <<flashVars, ftlVars, op, ops, sataVars, latest>>

LPages   == 0 .. NUM_LPAGES - 1
LSectors == 0 .. NUM_LPAGES * SECTORS_PER_PAGE - 1
PAGES_PER_BANK == VBLKS_PER_BANK * PAGES_PER_VBLK
NULL     == 0

\* handle_got_cfis refuses a command that goes beyond the last sector; the extents of
\* a file lie inside its partition
InDevice(lba, n) == /\ lba \in LSectors /\ n \in Nat \ {0}
                    /\ lba + n <= NUM_LPAGES * SECTORS_PER_PAGE
ASSUME Requests == /\ \A r \in Writes \cup Reads : InDevice(r[1], r[2])
                   /\ \A c \in Copies : InDevice(c[1], c[3]) /\ InDevice(c[2], c[3])
Written  == (1 .. MaxOps) \X LSectors     \* a sector of one of the host's writes

\* the buffers: SATA write and read buffers, the buffer do_issd_backup computes in,
\* and the one issd_write_sectors puts a page together in
WR_BUF(i) == <<"WR", i>>
RD_BUF(i) == <<"RD", i>>
COMP(p)   == <<"COMP", p>>
ISSD_WR_BUF == <<"ISSD_WR", 0>>
FtlBuffers == {WR_BUF(i) : i \in 0 .. NUM_WR_BUFFERS - 1} \cup
              {RD_BUF(i) : i \in 0 .. NUM_RD_BUFFERS - 1} \cup
              {COMP(p) : p \in 0 .. NUM_LPAGES} \cup {ISSD_WR_BUF}
ASSUME BuffersAndData == Buffers = FtlBuffers /\ Data = Written \cup {Erased, Cleared}
\* a sector's contents stand for the write they come from
ASSUME ErasedApart == Erased \notin Written

Init ==
  /\ FlashInit
  /\ page_map = [l \in LPages |-> NULL]
  /\ g_target_bank = 0
  /\ g_target_row = [b \in Banks |-> PAGES_PER_VBLK]
  /\ g_ftl_write_buf_id = 0
  /\ g_ftl_read_buf_id = 0
  /\ op = [call |-> "none"]
  /\ ops = 0
  /\ wrPages = << >>
  /\ received = 0
  /\ issued = 0
  /\ rdPages = << >>
  /\ latest = [s \in LSectors |-> Erased]

-----------------------------------------------------------------------------
(* The hardware (external) *)

\* Write data arrives a page at a time, at its own offset in the next buffer, once
\* the flash command that used the buffer before has finished.
InUse(page) == page > issued \/ \E c \in UnderWay : c.fc = "PROG" /\ c.page = page
HostSends ==
  LET w == Head(wrPages)
      buf == WR_BUF(received % NUM_WR_BUFFERS)
  IN /\ wrPages # << >>
     /\ received >= NUM_WR_BUFFERS => ~InUse(received + 1 - NUM_WR_BUFFERS)
     /\ dram' = [dram EXCEPT ![buf] = [s \in Sectors |->
          IF s \in w.col .. w.col + w.cnt - 1
          THEN <<w.id, w.lpage * SECTORS_PER_PAGE + s>> ELSE @[s]]]
     /\ wrPages' = Tail(wrPages)
     /\ received' = received + 1
     /\ UNCHANGED <<wroom, bsp, flash, ftlVars, op, ops, issued, rdPages, latest>>

HostReceives ==
  /\ rdPages # << >>
  /\ Head(rdPages).ready
  /\ rdPages' = Tail(rdPages)
  /\ UNCHANGED <<flashVars, ftlVars, op, ops, wrPages, received, issued, latest>>

\* a program command of ftl_write waits for its data, a read command of ftl_read
\* makes its buffer ready for the host
BankCompletes(b) ==
  /\ Complete(b)
  /\ bsp[b].fc = "PROG" => bsp[b].page <= received
  /\ rdPages' = [i \in 1 .. Len(rdPages) |->
       [rdPages[i] EXCEPT !.ready = @ \/ bsp[b].buf = rdPages[i].buf]]
  /\ UNCHANGED <<ftlVars, op, ops, wrPages, received, issued, latest>>

BankAccepts == Accept /\ UNCHANGED <<ftlVars, op, ops, sataVars, latest>>

-----------------------------------------------------------------------------
(* Calls of Main *)

\* lpage_addr, sect_offset and the sectors that remain, of a call for n sectors
Span0(lba, n) == [lpage |-> lba \div SECTORS_PER_PAGE, off |-> lba % SECTORS_PER_PAGE,
                  remain |-> n]

\* how the SATA hardware cuts the data of write number id into pages
PagesOf(id, lba, n) ==
  LET first == lba \div SECTORS_PER_PAGE
      last  == (lba + n - 1) \div SECTORS_PER_PAGE
      from(l) == IF l = first THEN lba % SECTORS_PER_PAGE ELSE 0
      to(l)   == IF l = last THEN (lba + n - 1) % SECTORS_PER_PAGE ELSE SECTORS_PER_PAGE - 1
  IN [k \in 1 .. last - first + 1 |->
        LET l == first + k - 1
        IN [id |-> id, lpage |-> l, col |-> from(l), cnt |-> to(l) - from(l) + 1]]

Begin(call) ==
  /\ op.call = "none"
  /\ ops < MaxOps
  /\ ops' = ops + 1
  /\ op' = call
  /\ UNCHANGED <<flashVars, ftlVars, received, issued, rdPages, latest>>

BeginWrite(lba, n) ==
  /\ Begin([call |-> "write", pc |-> "page", id |-> ops + 1, at |-> Span0(lba, n)])
  /\ wrPages' = wrPages \o PagesOf(ops + 1, lba, n)

BeginRead(lba, n) ==
  /\ Begin([call |-> "read", at |-> Span0(lba, n)])
  /\ UNCHANGED wrPages

\* do_issd_backup: issd_read_sectors of one extent, issd_write_sectors to another.
\* The host takes longer to send a command than the flash takes to read a page, so
\* no read of an earlier copy that failed is under way.
BeginCopy(src, dst, n) ==
  /\ \A c \in UnderWay : c.fc = "READ" => \A p \in 0 .. NUM_LPAGES : c.buf # COMP(p)
  /\ Begin([call |-> "copy", pc |-> "read", page |-> 0, at |-> Span0(src, n), from |-> src,
            to |-> dst, n |-> n, old |-> [k \in 0 .. n - 1 |-> latest[src + k]]])
  /\ UNCHANGED wrPages

Return == op' = [call |-> "none"]

\* the loops' arithmetic: sectors of this page, and what the next iteration is for
Now(at) == IF at.off + at.remain < SECTORS_PER_PAGE THEN at.remain
           ELSE SECTORS_PER_PAGE - at.off
NextPage(at) == [lpage |-> at.lpage + 1, off |-> 0, remain |-> at.remain - Now(at)]

BankOf(phys) == phys \div PAGES_PER_BANK
RowOf(phys)  == phys % PAGES_PER_BANK

-----------------------------------------------------------------------------
(* ftl_read *)

Continue(at) == IF NextPage(at).remain = 0 THEN Return ELSE op' = [op EXCEPT !.at = NextPage(at)]

ReadBufferFreeNever   == Len(rdPages) < NUM_RD_BUFFERS - 2   \* two buffers kept free
ReadBufferFreeAlways  == TRUE                                \* no wait for a slow host
ReadBufferFree == Len(rdPages) < NUM_RD_BUFFERS - 1    \* the next id is not SATA_RBUF_PTR

ReadPage(ready) ==
  /\ ReadBufferFree
  /\ rdPages' = Append(rdPages,
       [buf |-> RD_BUF(g_ftl_read_buf_id), col |-> op.at.off, cnt |-> Now(op.at),
        ready |-> ready, mapped |-> page_map[op.at.lpage] # NULL,
        want |-> [s \in Sectors |-> latest[op.at.lpage * SECTORS_PER_PAGE + s]]])
  /\ g_ftl_read_buf_id' = (g_ftl_read_buf_id + 1) % NUM_RD_BUFFERS
  /\ Continue(op.at)
  /\ UNCHANGED <<page_map, g_target_bank, g_target_row, g_ftl_write_buf_id, ops,
                 wrPages, received, issued, latest>>

ftl_read_mapped ==
  LET phys == page_map[op.at.lpage]
  IN /\ op.call = "read"
     /\ phys # NULL
     /\ flash_issue_cmd(Cmd("READ", BankOf(phys), RowOf(phys), op.at.off, Now(op.at),
                            RD_BUF(g_ftl_read_buf_id), NoPage))
     /\ ReadPage(FALSE)
     /\ UNCHANGED <<bsp, flash, dram>>

\* a page never written: 0xFF, and the buffer manager is told once all banks are idle
ftl_read_unwritten ==
  /\ op.call = "read"
  /\ page_map[op.at.lpage] = NULL
  /\ AllIdle
  /\ dram' = [dram EXCEPT ![RD_BUF(g_ftl_read_buf_id)] = [s \in Sectors |->
       IF s \in op.at.off .. op.at.off + Now(op.at) - 1 THEN Erased ELSE @[s]]]
  /\ ReadPage(TRUE)
  /\ UNCHANGED <<wroom, bsp, flash>>

-----------------------------------------------------------------------------
(* ftl_write and issd_write_sectors *)

\* is_bad_block: the search begins at the field in front of the list, which
\* ftl_open has set to 0, and so leaves out the last entry of the list
Searched(b) == {0} \cup {scan_list[b][i] : i \in 1 .. Len(scan_list[b]) - 1}
is_bad_block_blind(b, vblk) == FALSE         \* a search that finds nothing
is_bad_block(b, vblk) == {2 * vblk, 2 * vblk + 1} \cap Searched(b) # {}

FreeRowNoOffset(b) ==                        \* always the first page of the vblock
  Min({v \in g_target_row[b] \div PAGES_PER_VBLK .. VBLKS_PER_BANK :
         v = VBLKS_PER_BANK \/ ~is_bad_block(b, v)}) * PAGES_PER_VBLK

\* get_free_page: the next row of the bank; a new vblock is the next that is not bad
FreeRow(b) ==
  LET row  == g_target_row[b]
      vblk == row \div PAGES_PER_VBLK
      Good == {v \in vblk .. VBLKS_PER_BANK : v = VBLKS_PER_BANK \/ ~is_bad_block(b, v)}
  IN IF row % PAGES_PER_VBLK # 0 THEN row ELSE Min(Good) * PAGES_PER_VBLK

\* what the page was mapped to, and which of its sectors the write leaves alone
Old    == page_map[op.at.lpage]
Left   == op.at.off
Right  == IF op.at.off + op.at.remain >= SECTORS_PER_PAGE THEN 0
          ELSE SECTORS_PER_PAGE - (op.at.off + op.at.remain)
ReadOld == Old # NULL /\ (Left # 0 \/ Right # 0)
Buf    == IF op.call = "write" THEN WR_BUF(g_ftl_write_buf_id) ELSE ISSD_WR_BUF

\* issd_write_sectors first copies the new sectors of the page out of the computing buffer
Computed(k) == dram[COMP(k \div SECTORS_PER_PAGE)][k % SECTORS_PER_PAGE]
CopyIn == [dram EXCEPT ![ISSD_WR_BUF] = [s \in Sectors |->
             IF s \in Left .. Left + Now(op.at) - 1 THEN Computed(op.src + s - Left) ELSE @[s]]]

StartPage ==
  LET row == FreeRow(g_target_bank)
  IN /\ op.call \in {"write", "copy"}
     /\ op.pc = "page"
     /\ g_target_bank' = (g_target_bank + 1) % NUM_BANKS
     /\ IF row >= PAGES_PER_BANK                 \* free vblocks are exhausted: while (1)
        THEN /\ op' = [op EXCEPT !.pc = "stopped"]
             /\ UNCHANGED <<g_target_row, dram>>
        ELSE /\ g_target_row' = [g_target_row EXCEPT ![g_target_bank] = row + 1]
             /\ op' = [op EXCEPT !.pc = IF ~ReadOld THEN "prog"
                                        ELSE IF Left # 0 THEN "left" ELSE "right"]
             /\ dram' = IF op.call = "copy" THEN CopyIn ELSE dram
     /\ UNCHANGED <<wroom, bsp, flash, page_map, g_ftl_write_buf_id, g_ftl_read_buf_id,
                    ops, sataVars, latest>>

ReadHole(col, cnt, pc) ==
  /\ flash_issue_cmd(Cmd("READ", BankOf(Old), RowOf(Old), col, cnt, Buf, NoPage))
  /\ op' = [op EXCEPT !.pc = pc]
  /\ UNCHANGED <<bsp, flash, dram, ftlVars, ops, sataVars, latest>>

ReadLeftHole ==
  /\ op.call \in {"write", "copy"}
  /\ op.pc = "left"
  /\ ReadHole(0, Left, IF Right # 0 THEN "right" ELSE "prog")

ReadRightHole ==
  /\ op.call \in {"write", "copy"}
  /\ op.pc = "right"
  /\ ReadHole(SECTORS_PER_PAGE - Right, Right, "prog")

\* the bank and the row that StartPage has chosen
NewBank == (g_target_bank + NUM_BANKS - 1) % NUM_BANKS
NewRow  == g_target_row[NewBank] - 1

\* the old data may come from another bank than the one that is to program it
OldDataReadUnwaited == TRUE
OldDataRead == ReadOld /\ BankOf(Old) # NewBank => BankIdle(BankOf(Old))

\* all sectors of the buffer are programmed, whatever the holes of a page never
\* written contain; then update_physical_address
ProgramPage(page) ==
  /\ op.pc = "prog"
  /\ OldDataRead
  /\ flash_issue_cmd(Cmd("PROG", NewBank, NewRow, 0, SECTORS_PER_PAGE, Buf, page))
  /\ page_map' = [page_map EXCEPT ![op.at.lpage] = NewBank * PAGES_PER_BANK + NewRow]
  /\ UNCHANGED <<bsp, flash, dram, g_target_bank, g_target_row, g_ftl_read_buf_id,
                 ops, wrPages, received, rdPages>>

\* logical sectors that this page of the write covers
NowSectors == {op.at.lpage * SECTORS_PER_PAGE + s : s \in Left .. Left + Now(op.at) - 1}

ftl_write_page_unwrapped ==                  \* write buffers not used in a circle
  /\ op.call = "write"
  /\ ProgramPage(issued + 1)
  /\ latest' = [s \in LSectors |-> IF s \in NowSectors THEN <<op.id, s>> ELSE latest[s]]
  /\ issued' = issued + 1
  /\ g_ftl_write_buf_id' = g_ftl_write_buf_id + 1
  /\ IF NextPage(op.at).remain = 0 THEN Return
     ELSE op' = [op EXCEPT !.at = NextPage(@), !.pc = "page"]

ftl_write_page ==
  /\ op.call = "write"
  /\ ProgramPage(issued + 1)
  /\ latest' = [s \in LSectors |-> IF s \in NowSectors THEN <<op.id, s>> ELSE latest[s]]
  /\ issued' = issued + 1
  /\ g_ftl_write_buf_id' = (g_ftl_write_buf_id + 1) % NUM_WR_BUFFERS
  /\ IF NextPage(op.at).remain = 0 THEN Return
     ELSE op' = [op EXCEPT !.at = NextPage(@), !.pc = "page"]

issd_write_page ==
  /\ op.call = "copy"
  /\ ProgramPage(NoPage)
  /\ latest' = [s \in LSectors |-> IF s \in NowSectors THEN op.old[s - op.to] ELSE latest[s]]
  /\ op' = [op EXCEPT !.pc = "done"]
  /\ UNCHANGED <<issued, g_ftl_write_buf_id>>

\* RETURN_WHEN_DONE, and flash_finish after the last page
issd_write_done ==
  LET next == NextPage(op.at)
  IN /\ op.call = "copy"
     /\ op.pc = "done"
     /\ IF next.remain = 0 THEN AllIdle ELSE BankIdle(NewBank)
     /\ IF next.remain = 0 THEN Return
        ELSE op' = [op EXCEPT !.at = next, !.src = @ + Now(op.at), !.pc = "page"]
     /\ UNCHANGED <<flashVars, ftlVars, ops, sataVars, latest>>

-----------------------------------------------------------------------------
(* issd_read_sectors *)

issd_read_page ==
  LET next == NextPage(op.at)
  IN /\ op.call = "copy"
     /\ op.pc = "read"
     /\ Old # NULL
     /\ flash_issue_cmd(Cmd("READ", BankOf(Old), RowOf(Old), op.at.off, Now(op.at),
                            COMP(op.page), NoPage))
     /\ op' = [op EXCEPT !.at = next, !.page = @ + 1,
                         !.pc = IF next.remain = 0 THEN "finish" ELSE "read"]
     /\ UNCHANGED <<bsp, flash, dram, ftlVars, ops, sataVars, latest>>

issd_read_unwritten ==               \* returns -1, and so does do_issd_backup
  /\ op.call = "copy"
  /\ op.pc = "read"
  /\ Old = NULL
  /\ Return
  /\ UNCHANGED <<flashVars, ftlVars, ops, sataVars, latest>>

\* flash_finish; what was read starts at the offset of its first sector in its page
issd_read_done ==
  /\ op.call = "copy"
  /\ op.pc = "finish"
  /\ AllIdle
  /\ op' = [call |-> "copy", pc |-> "page", src |-> op.from % SECTORS_PER_PAGE,
            at |-> Span0(op.to, op.n), to |-> op.to, old |-> op.old]
  /\ UNCHANGED <<flashVars, ftlVars, ops, sataVars, latest>>

-----------------------------------------------------------------------------
hardware == HostSends \/ HostReceives \/ BankAccepts \/ \E b \in Banks : BankCompletes(b)

ftl_read  == ftl_read_mapped \/ ftl_read_unwritten
ftl_write == StartPage \/ ReadLeftHole \/ ReadRightHole \/ ftl_write_page
issd_copy == issd_read_page \/ issd_read_unwritten \/ issd_read_done
               \/ issd_write_page \/ issd_write_done

Next == \/ \E w \in Writes : BeginWrite(w[1], w[2])
        \/ \E r \in Reads : BeginRead(r[1], r[2])
        \/ \E c \in Copies : BeginCopy(c[1], c[2], c[3])
        \/ ftl_read \/ ftl_write \/ issd_copy
        \/ hardware

Spec == Init /\ [][Next]_vars

(* Banks finish what they accept, the host sends the data of its writes    *)
(* and takes the data of its reads, and the firmware's loops run on.       *)
FairSpec == /\ Spec
            /\ WF_vars(ftl_read \/ ftl_write \/ issd_copy)
            /\ WF_vars(HostSends) /\ WF_vars(HostReceives) /\ WF_vars(BankAccepts)
            /\ \A b \in Banks : WF_vars(BankCompletes(b))
-----------------------------------------------------------------------------
Pending == {c \in UnderWay : c.fc = "PROG"}

(* Types: pages, rows and buffer numbers stay inside the device and the circles. *)
TypeOK ==
  /\ flash \in [Banks -> [Rows -> Pages]]
  /\ dram \in [Buffers -> Pages]
  /\ \A c \in Pending : c.bank \in Banks /\ c.row \in Rows /\ c.buf \in Buffers
  /\ page_map \in [LPages -> 0 .. NUM_BANKS * PAGES_PER_BANK - 1]
  /\ g_target_bank \in Banks
  /\ g_target_row \in [Banks -> 0 .. PAGES_PER_BANK]
  /\ g_ftl_write_buf_id \in 0 .. NUM_WR_BUFFERS - 1
  /\ g_ftl_read_buf_id \in 0 .. NUM_RD_BUFFERS - 1
  /\ op.call \in {"none", "write", "read", "copy"}
  /\ ops \in 0 .. MaxOps /\ received \in Nat /\ issued \in Nat
  /\ latest \in [LSectors -> Data]

(* What the flash holds: once its program command has finished, the page a *)
(* logical page is mapped to contains what was last written to each of its *)
(* sectors, although commands of several banks, host data and the reads of *)
(* old data overtake each other.                                           *)
StoredLatest ==
  \A l \in LPages :
    LET b == BankOf(page_map[l])
        row == RowOf(page_map[l])
    IN page_map[l] # NULL /\ (\A c \in Pending : c.bank # b \/ c.row # row) =>
         \A s \in Sectors : latest[l * SECTORS_PER_PAGE + s] \in Written =>
           flash[b][row][s] = latest[l * SECTORS_PER_PAGE + s]

(* What the host reads: a buffer that is ready for the host holds, for     *)
(* every sector ever written, what was last written before the read, and   *)
(* 0xFF for a page that was never written.  A sector never written in a    *)
(* page that was reads as what an earlier page left in the buffer.         *)
ReadsLatest ==
  \A i \in 1 .. Len(rdPages) : LET p == rdPages[i] IN
    p.ready => \A s \in p.col .. p.col + p.cnt - 1 :
                 \/ dram[p.buf][s] = p.want[s]
                 \/ p.want[s] = Erased /\ p.mapped

(* NAND flash: a page is programmed only once after its block was erased.  *)
NoReprogram == \A c \in Pending : flash[c.bank][c.row] = ErasedPage

BadBlock(b, vblk) == {2 * vblk, 2 * vblk + 1} \cap Range(scan_list[b]) # {}
ProgramsBad(c) == BadBlock(c.bank, c.row \div PAGES_PER_VBLK)

(* get_free_page skips every bad vblock but the one the last entry of the  *)
(* scan list stands for.                                                   *)
BadBlocksSkippedButLast ==
  \A c \in Pending : ProgramsBad(c) =>
    c.row \div PAGES_PER_VBLK = Last(scan_list[c.bank]) \div 2

(* Every program command goes to a page inside the device that was erased  *)
(* and not programmed since, in a vblock that is good or the last bad one. *)
ProgramsSound == TypeOK /\ NoReprogram /\ BadBlocksSkippedButLast

(* Every call returns: firmware, banks and SATA buffers never wait for     *)
(* each other in a circle.  The one exception is a full device, on which   *)
(* get_free_page stops the firmware.                                       *)
CallsReturn == op.call # "none" ~> op.call = "none" \/ (op.call # "read" /\ op.pc = "stopped")
=============================================================================
