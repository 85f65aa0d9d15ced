------------------------------- MODULE DacFtl -------------------------------
(***************************************************************************)
(* The DAC FTL (ftl_dac/ftl.c): a page map whose blocks are clustered into *)
(* regions.  A page that is overwritten moves up one region, a page that   *)
(* garbage collection copies moves down one.  Every region has a block of  *)
(* its own that it writes.  The metadata is logged by ftl_flush, and       *)
(* loaded when the power comes back (normal POR: the host flushes before   *)
(* it cuts the power).                                                     *)
(*                                                                         *)
(* The commands of one bank execute in order, so that a command takes      *)
(* effect here when it is issued.  A bank's part of the state is passed    *)
(* through the functions of the code as one record, whose field fail names *)
(* the first thing that stopped the firmware on the way.                   *)
(***************************************************************************)
EXTENDS Integers, FiniteSets, FiniteSetsExt, SequencesExt

CONSTANTS NUM_BANKS, VBLKS_PER_BANK, PAGES_PER_BLK, SECTORS_PER_PAGE,
          NUM_REGION, NUM_LPAGES,
          MAP_ENTRIES,       \* entries of the page map in a flash page
          INFO_ENTRIES,      \* entries of the age and region tables in a flash page
          scan_list,         \* bad physical blocks of each bank, as install.exe found them
          erase_failed,      \* blocks of each bank that format could not erase
          Workload,          \* the host's: for each bank the sets of <<lpn, sect_offset,
                             \* num_sectors, data>> that its n-th write is one of
          Plain, Mark,       \* what the host writes: the FTL never looks at it
          Erased,            \* what an erased sector reads as, 0xFF
          MaxFlushes         \* bound on the flushes, that of format included

Banks   == 0 .. NUM_BANKS - 1
VBlks   == 0 .. VBLKS_PER_BANK - 1
Offsets == 0 .. PAGES_PER_BLK - 1
VPages  == 0 .. VBLKS_PER_BANK * PAGES_PER_BLK - 1
Sectors == 0 .. SECTORS_PER_PAGE - 1
LPages  == 0 .. NUM_LPAGES - 1
Regions == 0 .. NUM_REGION - 1
get_num_bank(lpn) == lpn % NUM_BANKS

NULL         == 0
VC_FREE      == 43690              \* 0xAAAA: usable
VC_MAX       == 43963              \* 0xABBB: metadata, bad, or kept for garbage collection
VC_ACTIVE    == 44236              \* 0xACCC: written by a region
INVALID16    == 65535
MISCBLK_VBN  == 1
MAPBLKS_PER_BANK   == 2
META_BLKS_PER_BANK == 2 + MAPBLKS_PER_BANK
LAST         == PAGES_PER_BLK - 1  \* the page of the list
FULL         == PAGES_PER_BLK - 2  \* the last page with data
BlockOf(vpn)  == vpn \div PAGES_PER_BLK
OffsetOf(vpn) == vpn % PAGES_PER_BLK
VpnOf(v, p)   == v * PAGES_PER_BLK + p

\* build_bad_blk_list: a block is one physical block in each of the two planes
build_bad_blk_list == [b \in Banks |-> {v \in VBlks : {2 * v, 2 * v + 1} \cap scan_list[b] # {}}]
bad == [b \in Banks |-> build_bad_blk_list[b] \cup erase_failed[b]]
\* init_metadata_sram takes the good blocks after MISCBLK_VBN in turn
Good(b)       == {v \in VBlks : v > MISCBLK_VBN /\ v \notin bad[b]}
NthGood(b, n) == CHOOSE v \in Good(b) : Cardinality({w \in Good(b) : w <= v}) = n
MapBlock(b, lbn)  == NthGood(b, lbn + 1)
FirstGcBlock(b)   == NthGood(b, MAPBLKS_PER_BANK + 1)
FirstBlock(b, r)  == NthGood(b, MAPBLKS_PER_BANK + 2 + r)
UserBlocks == [b \in Banks |-> {v \in Good(b) : v >= FirstGcBlock(b)}]
LPagesOf   == [b \in Banks |-> {l \in LPages : get_num_bank(l) = b}]

ASSUME Geometry ==
  /\ {NUM_BANKS, VBLKS_PER_BANK, SECTORS_PER_PAGE, NUM_REGION, NUM_LPAGES, MAP_ENTRIES,
      INFO_ENTRIES} \subseteq Nat \ {0}
  /\ PAGES_PER_BLK \in Nat /\ PAGES_PER_BLK > 2 /\ PAGES_PER_BLK < VC_FREE
  /\ scan_list \in [Banks -> SUBSET (4 .. 2 * VBLKS_PER_BANK - 1)]
  /\ erase_failed \in [Banks -> SUBSET {v \in VBlks : v > MISCBLK_VBN}]
\* a block that is free besides those the regions and garbage collection hold, and
\* room for the logical pages in the blocks that are full
ASSUME Provisioning ==
  \A b \in Banks :
    /\ Cardinality(UserBlocks[b]) >= NUM_REGION + 2
    /\ Cardinality(LPagesOf[b]) < (Cardinality(UserBlocks[b]) - NUM_REGION - 1) * LAST
ASSUME Bounds ==
  /\ MaxFlushes \in Nat \ {0}
  /\ \A b \in Banks : \A n \in DOMAIN Workload[b] : \A w \in Workload[b][n] :
       /\ w \in LPagesOf[b] \X Sectors \X (1 .. SECTORS_PER_PAGE) \X {Plain, Mark}
       /\ w[2] + w[3] <= SECTORS_PER_PAGE

VARIABLES
  format_mark,  \* the mark in block 0 of bank 0
  up,           \* ftl_open has run
  page_map,     \* page map in DRAM
  vcount,       \* number of valid pages of each block, or one of VC_*
  vblk_age,     \* when the block became full
  vblk_region,  \* the region of each block
  g_misc_meta,  \* the rest of each bank's metadata, in SRAM
  nand,         \* contents of every page of every bank
  fail,         \* what has stopped the firmware
  clean,        \* history: nothing was written since the last flush
  latest,       \* history: what was last written to each logical sector
  flushes       \* history: number of flushes

dram == <<page_map, vcount, vblk_age, vblk_region, g_misc_meta>>
vars == <<format_mark, up, dram, nand, fail, clean, latest, flushes>>

\* fail: an ASSERT, the search for a free block that ends at the block just left,
\* the same search without end, a collection without end, metadata that is not there
Failures == {"none", "assert", "same_block", "no_free_block", "endless_gc", "not_loaded"}

-----------------------------------------------------------------------------
(* Flash: what a page holds, and programming and erasing in one bank n *)

Data        == {Plain, Mark, Erased}
ErasedPage  == [erased |-> TRUE]
Clobbered   == [clobbered |-> TRUE]      \* programmed twice without an erase
DataPage(d) == [data |-> d]
ListPage(l) == [list |-> l]              \* lpn_list_of_cur_vblock
LogPage(t, k, c) == [log |-> t, part |-> k, holds |-> c]
MiscPage(m, vc)  == [misc |-> m, vcount |-> vc]
OldLog      == [old |-> TRUE]            \* a log that a load must not find any more
IsData(pg)  == "data" \in DOMAIN pg
IsLog(pg)   == "log" \in DOMAIN pg \/ "misc" \in DOMAIN pg

Program(n, vpn, pg) == [n EXCEPT ![vpn] = IF @ = ErasedPage THEN pg ELSE Clobbered]
EraseBlock(n, v) == [p \in VPages |-> IF BlockOf(p) = v THEN ErasedPage ELSE n[p]]
SectorAt(n, vpn, s) == IF IsData(n[vpn]) THEN n[vpn].data[s] ELSE Erased

\* What was logged is of use until the next write, as the power is cut after a flush
\* only; to keep the contents any longer would only add states.
Outdated(n) == [p \in VPages |-> IF IsLog(n[p]) THEN OldLog ELSE n[p]]

Check(a, cond, why) == IF cond \/ a.fail # "none" THEN a ELSE [a EXCEPT !.fail = why]

BankState(b) ==
  [map |-> page_map, vcount |-> vcount[b], age |-> vblk_age[b], region |-> vblk_region[b],
   meta |-> g_misc_meta[b], nand |-> nand[b], fail |-> "none"]

-----------------------------------------------------------------------------
(* ftl_flush *)

Pages(n, entries)    == (n + entries - 1) \div entries
Slice(f, k, entries) == [i \in {x \in DOMAIN f : x \div entries = k} |-> f[i]]
\* Table 0 is the page map, table 1 the ages and regions of all blocks; each is cut
\* into flash pages, which are dealt out to the banks.
Info(s) == [i \in 0 .. NUM_BANKS * VBLKS_PER_BANK - 1 |->
              LET b == i \div VBLKS_PER_BANK
                  v == i % VBLKS_PER_BANK
              IN <<s[b].age[v], s[b].region[v]>>]
TablePages == [t \in {0, 1} |-> IF t = 0 THEN Pages(NUM_LPAGES, MAP_ENTRIES)
                                ELSE Pages(NUM_BANKS * VBLKS_PER_BANK, INFO_ENTRIES)]
TableLen   == [t \in {0, 1} |-> IF t = 0 THEN NUM_LPAGES ELSE NUM_BANKS * VBLKS_PER_BANK]
Entries(t) == IF t = 0 THEN MAP_ENTRIES ELSE INFO_ENTRIES
PartsOf(t, b) == {k \in 0 .. TablePages[t] - 1 : k % NUM_BANKS = b}
Part(t, k, s) == LogPage(t, k, IF t = 0 THEN Slice(s[0].map, k, MAP_ENTRIES)
                               ELSE Slice(Info(s), k, INFO_ENTRIES))

\* num_bytes is one page at most, so that with several banks this is 0
PagesChecked(t) == (IF TableLen[t] >= Entries(t) THEN 1 ELSE 0) \div NUM_BANKS

WithRoom(a, t) ==
  LET vpn == a.meta.cur_mapblk_vpn[t]
  IN IF PagesChecked(t) >= PAGES_PER_BLK - OffsetOf(vpn)
     THEN [a EXCEPT !.nand = EraseBlock(@, BlockOf(vpn)),
                    !.meta.cur_mapblk_vpn[t] = VpnOf(BlockOf(vpn), 0) - 1]
     ELSE a

\* flush_dram_metadata_into_mapblk: s is the state of all banks
FlushTable(s, t) ==
  [b \in Banks |->
     LET LogPart(a, k) ==
           LET vpn == a.meta.cur_mapblk_vpn[t] + 1
           IN [a EXCEPT !.meta.cur_mapblk_vpn[t] = vpn,
                        !.nand = Program(@, vpn, Part(t, k, s))]
     IN FoldLeft(LogPart, WithRoom(s[b], t), SetToSortSeq(PartsOf(t, b), <))]

NextMiscVpn(vpn) == IF BlockOf(vpn + 1) # MISCBLK_VBN THEN VpnOf(MISCBLK_VBN, 0) ELSE vpn + 1
flush_misc_metadata(s) ==
  [b \in Banks |->
     LET vpn == s[b].meta.cur_miscblk_vpn
         m   == [s[b].meta EXCEPT !.cur_miscblk_vpn = NextMiscVpn(vpn)]
         n   == IF BlockOf(vpn + 1) # MISCBLK_VBN THEN EraseBlock(s[b].nand, MISCBLK_VBN)
                ELSE s[b].nand
     IN [s[b] EXCEPT !.meta = m,
                     !.nand = Program(n, NextMiscVpn(vpn), MiscPage(m, s[b].vcount))]]

Flushed(s) == flush_misc_metadata(FlushTable(FlushTable(s, 1), 0))
Forget(s)  == [b \in Banks |-> [s[b] EXCEPT !.nand = Outdated(@)]]

\* all banks are in state s
Become(s) ==
  /\ page_map' = s[0].map
  /\ vcount' = [b \in Banks |-> s[b].vcount]
  /\ vblk_age' = [b \in Banks |-> s[b].age]
  /\ vblk_region' = [b \in Banks |-> s[b].region]
  /\ g_misc_meta' = [b \in Banks |-> s[b].meta]
  /\ nand' = [b \in Banks |-> s[b].nand]

ftl_flush ==
  /\ up /\ fail = "none" /\ flushes < MaxFlushes
  /\ Become(Flushed(Forget([b \in Banks |-> BankState(b)])))
  /\ clean' = TRUE
  /\ flushes' = flushes + 1
  /\ UNCHANGED <<format_mark, up, fail, latest>>

-----------------------------------------------------------------------------
(* ftl_open: format the first time, load the metadata at every later start *)

init_metadata_sram(b) ==
  [free_blk_cnt    |-> VBLKS_PER_BANK - META_BLKS_PER_BANK - Cardinality(bad[b]),
   cur_miscblk_vpn |-> VpnOf(MISCBLK_VBN, 0),
   cur_mapblk_vpn  |-> [t \in {0, 1} |-> VpnOf(MapBlock(b, t), 0)],
   gc_vblock       |-> FirstGcBlock(b),
   global_age      |-> 0,
   cur_write_vpn   |-> [r \in Regions |-> VpnOf(FirstBlock(b, r), 0)],
   lpn_list        |-> [r \in Regions |-> [p \in Offsets |-> 0]],
   vcount_of_active |-> [r \in Regions |-> 0]]
FirstActive(b) == {FirstBlock(b, r) : r \in Regions}

Formatted ==
  [b \in Banks |->
     [map    |-> [l \in LPages |-> NULL],
      vcount |-> [v \in VBlks |-> IF v \in FirstActive(b) THEN VC_ACTIVE
                                  ELSE IF v \in UserBlocks[b] \ {FirstGcBlock(b)} THEN VC_FREE
                                  ELSE VC_MAX],
      age    |-> [v \in VBlks |-> 0],
      region |-> [v \in VBlks |->
                    IF v = FirstGcBlock(b) THEN INVALID16
                    ELSE IF v \in FirstActive(b) THEN CHOOSE r \in Regions : FirstBlock(b, r) = v
                    ELSE 0],
      meta   |-> init_metadata_sram(b),
      nand   |-> [p \in VPages |-> ErasedPage],
      fail   |-> "none"]]

\* nothing is known of the DRAM and the SRAM before ftl_open
NoDram ==
  /\ page_map = <<>> /\ vcount = <<>> /\ vblk_age = <<>> /\ vblk_region = <<>>
  /\ g_misc_meta = <<>>

Init ==
  /\ format_mark = FALSE /\ up = FALSE /\ NoDram
  /\ nand = [b \in Banks |-> [p \in VPages |-> ErasedPage]]
  /\ fail = "none" /\ clean = TRUE /\ flushes = 0
  /\ latest = [l \in LPages |-> [s \in Sectors |-> Erased]]

write_format_mark == format_mark' = TRUE
check_format_mark == format_mark

\* the mark is written last, so that a format that is cut short is done again
format ==
  /\ ~up /\ ~check_format_mark
  /\ Become(Flushed(Formatted))
  /\ up' = TRUE /\ write_format_mark /\ clean' = TRUE
  /\ flushes' = 1
  /\ UNCHANGED <<fail, latest>>

\* load_misc_metadata: the last page of the block that is not all 0xFF
MiscVpn(b) == Max({p \in VPages : BlockOf(p) = MISCBLK_VBN /\ nand[b][p] # ErasedPage})
SavedMeta  == [b \in Banks |-> nand[b][MiscVpn(b)]]

LoadVpnNoRest(t, k) ==                                   \* mistake
  LET b == k % NUM_BANKS
  IN SavedMeta[b].misc.cur_mapblk_vpn[t] - (TablePages[t] \div NUM_BANKS) + 1 + k \div NUM_BANKS
\* load_dram_metadata_from_mapblk: where part k of table t is read
LoadVpn(t, k) ==
  LET b == k % NUM_BANKS
  IN SavedMeta[b].misc.cur_mapblk_vpn[t]
       - (TablePages[t] \div NUM_BANKS) + 1
       - (IF b < TablePages[t] % NUM_BANKS THEN 1 ELSE 0) + k \div NUM_BANKS
PageOf(t, k)  == nand[k % NUM_BANKS][LoadVpn(t, k)]
Found(t, k)   == LET pg == PageOf(t, k) IN "log" \in DOMAIN pg /\ pg.log = t /\ pg.part = k
MiscFound     == \A b \in Banks : "misc" \in DOMAIN SavedMeta[b]
AllFound      == MiscFound /\ \A t \in {0, 1} : \A k \in 0 .. TablePages[t] - 1 : Found(t, k)
Loaded(t) == [i \in 0 .. TableLen[t] - 1 |-> PageOf(t, i \div Entries(t)).holds[i]]

LoadFound ==
  /\ LET info == Loaded(1)
         at(b, v) == b * VBLKS_PER_BANK + v
     IN /\ g_misc_meta' = [b \in Banks |-> SavedMeta[b].misc]
        /\ vcount' = [b \in Banks |-> SavedMeta[b].vcount]
        /\ page_map' = Loaded(0)
        /\ vblk_age' = [b \in Banks |-> [v \in VBlks |-> info[at(b, v)][1]]]
        /\ vblk_region' = [b \in Banks |-> [v \in VBlks |-> info[at(b, v)][2]]]
  /\ up' = TRUE
  /\ UNCHANGED fail

\* what is read when the metadata is elsewhere is none, and the firmware goes on with it
load_metadata ==
  /\ ~up /\ check_format_mark /\ fail = "none"
  /\ IF AllFound THEN LoadFound ELSE fail' = "not_loaded" /\ UNCHANGED <<up, dram>>
  /\ UNCHANGED <<format_mark, nand, clean, latest, flushes>>

\* external: the power is cut when the host has flushed
PowerOff ==
  /\ up /\ clean /\ fail = "none"
  /\ up' = FALSE
  /\ page_map' = <<>> /\ vcount' = <<>> /\ vblk_age' = <<>> /\ vblk_region' = <<>>
  /\ g_misc_meta' = <<>>
  /\ UNCHANGED <<format_mark, nand, fail, clean, latest, flushes>>

-----------------------------------------------------------------------------
(* garbage_collection of a bank in state a *)

Candidates(a) == {v \in META_BLKS_PER_BANK .. VBLKS_PER_BANK - 1 : a.vcount[v] < VC_FREE}
Cost(a, v) == ((a.meta.global_age - a.age[v]) * (PAGES_PER_BLK - a.vcount[v]))
                \div (2 * a.vcount[v])
\* get_vt_vblock_by_cost_benefit: the first block without valid pages, or the first of
\* those that cost most; a block that costs nothing is not taken
Victim(a) ==
  LET empty == {v \in Candidates(a) : a.vcount[v] = 0}
      costs == {Cost(a, v) : v \in Candidates(a)} \cup {0}
  IN IF empty # {} THEN Min(empty)
     ELSE IF Max(costs) = 0 THEN META_BLKS_PER_BANK
     ELSE Min({v \in Candidates(a) : Cost(a, v) = Max(costs)})

\* the block of region r is full: its list goes to its last page
CloseBlock(a, r) ==
  LET v == BlockOf(a.meta.cur_write_vpn[r])
  IN [a EXCEPT !.nand = Program(@, VpnOf(v, LAST), ListPage(a.meta.lpn_list[r])),
               !.vcount[v] = a.meta.vcount_of_active[r],
               !.age[v] = a.meta.global_age,
               !.meta.lpn_list[r] = [p \in Offsets |-> 0],
               !.meta.vcount_of_active[r] = 0,
               !.meta.free_blk_cnt = @ - 1]

\* region r goes on in block v
OpenBlock(a, r, v) ==
  [a EXCEPT !.vcount[v] = VC_ACTIVE, !.region[v] = r,
            !.meta.cur_write_vpn[r] = VpnOf(v, 0)]

\* the place for a copied page; the block kept for garbage collection follows a full one
TakeNextPage(a, r) ==
  LET vpn == a.meta.cur_write_vpn[r]
      gc  == a.meta.gc_vblock
      c   == IF a.vcount[BlockOf(vpn)] = VC_ACTIVE THEN CloseBlock(a, r) ELSE a
  IN IF OffsetOf(vpn) = FULL
     THEN OpenBlock(Check(c, c.vcount[gc] # VC_ACTIVE, "assert"), r, gc)
     ELSE [a EXCEPT !.meta.cur_write_vpn[r] = @ + 1]

CopyToUncounted(c, r, lpn, src) ==                            \* mistake
  LET to == c.meta.cur_write_vpn[r]
  IN [c EXCEPT !.nand = Program(@, to, c.nand[src]),
               !.map[lpn] = to,
               !.meta.lpn_list[r][OffsetOf(to)] = lpn]
CopyTo(c, r, lpn, src) ==
  LET to == c.meta.cur_write_vpn[r]
      d  == [c EXCEPT !.nand = Program(@, to, c.nand[src]),
                      !.map[lpn] = to,
                      !.meta.lpn_list[r][OffsetOf(to)] = lpn,
                      !.meta.vcount_of_active[r] = @ + 1]
  IN Check(d, /\ BlockOf(src) # BlockOf(to)
              /\ to \div PAGES_PER_BLK >= META_BLKS_PER_BANK
              /\ d.meta.vcount_of_active[r] < PAGES_PER_BLK, "assert")

\* a page of the victim that the page map still points to
CopyPage(a, r, lpn, src) == CopyTo(TakeNextPage(a, r), r, lpn, src)

ListIn(n, v) == LET pg == n[VpnOf(v, LAST)]
                IN IF "list" \in DOMAIN pg THEN pg.list ELSE [p \in Offsets |-> 0]
Demoted(r) == IF r > 0 THEN r - 1 ELSE 0

CopyValid(a, vt) ==
  LET list == ListIn(a.nand, vt)
      Copy(c, p) == IF c.map[list[p]] # VpnOf(vt, p) THEN c
                    ELSE CopyPage(c, Demoted(a.region[vt]), list[p], VpnOf(vt, p))
  IN FoldLeft(Copy, a, [i \in 1 .. LAST |-> i - 1])

ReclaimNoErase(a, vt) ==                                      \* mistake
  LET used == a.vcount[a.meta.gc_vblock] = VC_ACTIVE
  IN [a EXCEPT !.region[vt] = INVALID16,
               !.vcount[vt] = IF used THEN VC_MAX ELSE VC_FREE,
               !.meta.gc_vblock = IF used THEN vt ELSE @,
               !.meta.free_blk_cnt = @ + 1]
\* the victim is erased and becomes a free block, or the one kept for garbage
\* collection when that is in use now
Reclaim(a, vt) ==
  LET used == a.vcount[a.meta.gc_vblock] = VC_ACTIVE
  IN [a EXCEPT !.nand = EraseBlock(@, vt),
               !.region[vt] = INVALID16,
               !.vcount[vt] = IF used THEN VC_MAX ELSE VC_FREE,
               !.meta.gc_vblock = IF used THEN vt ELSE @,
               !.meta.free_blk_cnt = @ + 1]

CollectVictim(a, vt) ==
  IF \/ vt \notin Candidates(a) \/ a.vcount[vt] > LAST
     \/ a.vcount[vt] > 0 /\ a.region[vt] \notin Regions
  THEN Check(a, FALSE, "assert")
  ELSE IF a.vcount[vt] = 0
  THEN [a EXCEPT !.nand = EraseBlock(@, vt), !.region[vt] = INVALID16,
                 !.vcount[vt] = VC_FREE, !.meta.free_blk_cnt = @ + 1]
  ELSE Reclaim(CopyValid(a, vt), vt)
garbage_collection(a) == CollectVictim(a, Victim(a))

is_full_all_blks(a) == a.meta.free_blk_cnt <= NUM_REGION
CollectIfFull(a) == IF is_full_all_blks(a) /\ a.fail = "none" THEN garbage_collection(a) ELSE a
\* while (is_full_all_blks(bank)): more rounds than there are blocks never end
CollectAll(a) ==
  LET after[n \in 0 .. VBLKS_PER_BANK] ==
        IF n = 0 THEN a ELSE CollectIfFull(after[n - 1])
      Ended(c) == Check(c, ~is_full_all_blks(c), "endless_gc")
  IN Ended(after[VBLKS_PER_BANK])

-----------------------------------------------------------------------------
(* assign_new_write_vpn and write_page *)

Promoted(a, old) ==
  IF old = NULL THEN 0
  ELSE IF a.region[BlockOf(old)] < NUM_REGION - 1 THEN a.region[BlockOf(old)] + 1
  ELSE a.region[BlockOf(old)]

Advance(a, r) == [a EXCEPT !.meta.cur_write_vpn[r] = @ + 1]

\* the next free block after v, in a circle that ends with v itself
FreeBlock(a, v) ==
  LET free == {w \in META_BLKS_PER_BANK .. VBLKS_PER_BANK - 1 : a.vcount[w] = VC_FREE}
      behind == {w \in free : w > v}
  IN IF behind # {} THEN Min(behind) ELSE Min(free)
NoFree(a) == \A w \in META_BLKS_PER_BANK .. VBLKS_PER_BANK - 1 : a.vcount[w] # VC_FREE

\* after the collection: c goes on in the block taken for it, or in a free one
LeaveBlock(c, r, v) ==
  IF OffsetOf(c.meta.cur_write_vpn[r]) # FULL THEN Advance(c, r)
  ELSE IF NoFree(c) THEN Check(c, FALSE, "no_free_block")
  ELSE IF FreeBlock(c, v) = v THEN Check(c, FALSE, "same_block")
  ELSE [OpenBlock(c, r, FreeBlock(c, v)) EXCEPT !.meta.vcount_of_active[r] = 0]
\* where region r writes next, its block v being full
AssignNextBlock(a, r) ==
  LET v == BlockOf(a.meta.cur_write_vpn[r])
  IN LeaveBlock(CollectAll(CloseBlock(Check(a, a.vcount[v] = VC_ACTIVE, "assert"), r)), r, v)

AtFull(a, r) == OffsetOf(a.meta.cur_write_vpn[r]) = FULL
AssignNextPage(a, r) ==
  LET c == Advance(a, r)
  IN Check(c, c.vcount[BlockOf(c.meta.cur_write_vpn[r])] = VC_ACTIVE, "assert")

InvalidateInDram(a, old) ==                                   \* mistake
  IF old = NULL THEN a ELSE [a EXCEPT !.vcount[BlockOf(old)] = @ - 1]
\* the old page is not valid any more; the block that is written counts in SRAM
Invalidate(a, old) ==
  LET v == BlockOf(old)
      r == a.region[v]
  IN IF old = NULL THEN a
     ELSE IF r \notin Regions THEN Check(a, FALSE, "assert")
     ELSE IF v = BlockOf(a.meta.cur_write_vpn[r])
     THEN Check([a EXCEPT !.meta.vcount_of_active[r] = @ - 1],
                a.meta.vcount_of_active[r] \in 1 .. PAGES_PER_BLK, "assert")
     ELSE Check([a EXCEPT !.vcount[v] = @ - 1], a.vcount[v] \in 1 .. LAST, "assert")

NewPageNoLeft(n, old, off, cnt, d) ==                         \* mistake
  DataPage([s \in Sectors |-> IF s \in off .. off + cnt - 1 THEN d
                              ELSE IF old = NULL \/ s < off THEN Erased
                              ELSE SectorAt(n, old, s)])
\* new data in cnt sectors from off on, the rest of the old page around it
NewPage(n, old, off, cnt, d) ==
  DataPage([s \in Sectors |-> IF s \in off .. off + cnt - 1 THEN d
                              ELSE IF old = NULL THEN Erased ELSE SectorAt(n, old, s)])

\* pg goes to the page that c has assigned in region r
WriteAssigned(c, r, lpn, pg) ==
  LET new == c.meta.cur_write_vpn[r]
  IN IF c.fail # "none" THEN c
     ELSE IF /\ c.meta.vcount_of_active[r] < LAST
             /\ c.region[BlockOf(new)] \in Regions
             /\ BlockOf(new) >= META_BLKS_PER_BANK
     THEN [c EXCEPT !.nand = Program(@, new, pg),
                    !.map[lpn] = new,
                    !.meta.lpn_list[r][OffsetOf(new)] = lpn,
                    !.meta.vcount_of_active[r] = @ + 1,
                    !.meta.global_age = @ + 1]
     ELSE Check(c, FALSE, "assert")

Assigned(a, r, inNextBlock) ==
  IF inNextBlock THEN AssignNextBlock(a, r) ELSE AssignNextPage(a, r)
Written(a, lpn, off, cnt, d, inNextBlock) ==
  LET old == a.map[lpn]
      r   == Promoted(a, old)
  IN WriteAssigned(Assigned(Invalidate(a, old), r, inNextBlock), r, lpn,
                   NewPage(a.nand, old, off, cnt, d))

\* As the FTL only moves data, one marked write at a time is enough to see a sector that
\* is lost, old or another's; any write may be the marked one.
MarkGone == \A b \in Banks : \A vpn \in VPages :
  IsData(nand[b][vpn]) => \A s \in Sectors : nand[b][vpn].data[s] # Mark
Requests(b) ==
  LET n == g_misc_meta[b].global_age + 1
  IN IF n \notin DOMAIN Workload[b] THEN {}
     ELSE {w \in Workload[b][n] : w[4] = Mark => MarkGone}

\* bank b is in state a after the write; ASSERT stops the firmware
BecomeBank(b, a) ==
  IF a.fail # "none"
  THEN /\ fail' = a.fail
       /\ UNCHANGED <<dram, nand, clean>>
  ELSE /\ page_map' = a.map
       /\ vcount' = [vcount EXCEPT ![b] = a.vcount]
       /\ vblk_age' = [vblk_age EXCEPT ![b] = a.age]
       /\ vblk_region' = [vblk_region EXCEPT ![b] = a.region]
       /\ g_misc_meta' = [g_misc_meta EXCEPT ![b] = a.meta]
       /\ nand' = [x \in Banks |-> IF clean THEN Outdated(IF x = b THEN a.nand ELSE nand[x])
                                   ELSE IF x = b THEN a.nand ELSE nand[x]]
       /\ clean' = FALSE
       /\ UNCHANGED fail

write_page(lpn, off, cnt, d, inNextBlock) ==
  LET b == get_num_bank(lpn)
      a == BankState(b)
  IN /\ AtFull(a, Promoted(a, a.map[lpn])) = inNextBlock
     /\ BecomeBank(b, Written(a, lpn, off, cnt, d, inNextBlock))
     /\ latest' = IF fail' # "none" THEN latest
                  ELSE [latest EXCEPT ![lpn] =
                     [s \in Sectors |-> IF s \in off .. off + cnt - 1 THEN d ELSE @[s]]]
     /\ UNCHANGED <<format_mark, up, flushes>>

Issued(b, w) == up /\ fail = "none" /\ w \in Requests(b)
WriteNextPage(b, w)  == Issued(b, w) /\ write_page(w[1], w[2], w[3], w[4], FALSE)
WriteNextBlock(b, w) == Issued(b, w) /\ write_page(w[1], w[2], w[3], w[4], TRUE)

Next ==
  \/ \E b \in Banks : up /\ \E w \in Requests(b) : WriteNextPage(b, w) \/ WriteNextBlock(b, w)
  \/ ftl_flush
  \/ format
  \/ load_metadata
  \/ PowerOff

Spec == Init /\ [][Next]_vars

\* ftl_read of a logical page
ftl_read(lpn) ==
  [s \in Sectors |-> IF page_map[lpn] = NULL THEN Erased
                     ELSE SectorAt(nand[get_num_bank(lpn)], page_map[lpn], s)]

-----------------------------------------------------------------------------
(* Properties *)

Running == up /\ fail = "none"
Mapped(b) == {l \in LPagesOf[b] : page_map[l] # NULL}
ValidIn(b, v) == {l \in Mapped(b) : BlockOf(page_map[l]) = v}
RegionsIn(b, v) == {r \in Regions : BlockOf(g_misc_meta[b].cur_write_vpn[r]) = v}
\* the number of valid pages that the FTL has on record for a block
CountOf(b, v) ==
  IF RegionsIn(b, v) # {}
  THEN g_misc_meta[b].vcount_of_active[CHOOSE r \in RegionsIn(b, v) : TRUE]
  ELSE IF vcount[b][v] < VC_FREE THEN vcount[b][v] ELSE 0

\* Types of the state: a valid count is a number of pages or one of the three marks,
\* a region is one of NUM_REGION or INVALID16.
TypeOK ==
  /\ fail \in Failures
  /\ latest \in [LPages -> [Sectors -> Data]]
  /\ up =>
       /\ page_map \in [LPages -> VPages]
       /\ vcount \in [Banks -> [VBlks -> (0 .. LAST) \cup {VC_FREE, VC_MAX, VC_ACTIVE}]]
       /\ vblk_age \in [Banks -> [VBlks -> Nat]]
       /\ vblk_region \in [Banks -> [VBlks -> Regions \cup {INVALID16}]]

\* The host reads what it wrote last, from a page that write_page or garbage_collection
\* has put there, in this or an earlier session: promotion, demotion, the copy of the
\* hole of a partly written page and a flush with a load after it lose no sector.
ReadsLatest == Running => \A lpn \in LPages : ftl_read(lpn) = latest[lpn]

\* No page is programmed twice without an erase, by the host's writes, the copies and
\* lists of garbage_collection, and the logs of ftl_flush, which share the blocks.
NoReprogram == \A b \in Banks, p \in VPages : nand[b][p] # Clobbered

\* The valid count on record, in SRAM for the block a region writes and in DRAM for the
\* others, covers the valid pages of the block: garbage_collection, which erases a block
\* of count 0 without looking at its list, destroys no valid page.  (It may be higher:
\* a page that is copied while it is being overwritten is counted again.)
CountsCover ==
  Running => \A b \in Banks, v \in VBlks : CountOf(b, v) >= Cardinality(ValidIn(b, v))

\* The metadata has its types and the counts on record cover the valid pages.
CountsSound == TypeOK /\ CountsCover

\* The firmware stops in one situation only: a region's full block has no valid page
\* but the one being overwritten, so that assign_new_write_vpn collects that block
\* itself, finds no other free block and goes on behind its last page, where
\* ASSERT(get_vcount == VC_ACTIVE) fails.  No other ASSERT fails, the search for a
\* free block and the collection end, and load_metadata finds the metadata of the
\* last flush.
StopsOnlyHot ==
  fail # "none" =>
    /\ fail = "same_block"
    /\ \E b \in Banks, r \in Regions :
         /\ AtFull(BankState(b), r)
         /\ g_misc_meta[b].vcount_of_active[r] <= 1
=============================================================================
