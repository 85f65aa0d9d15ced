------------------------------ MODULE GreedyFtl ------------------------------
(***************************************************************************)
(* The greedy FTL (ftl_greedy/ftl.c): a page map with garbage collection.  *)
(* Logical pages are striped over the banks.  A bank writes its blocks     *)
(* page by page; the last page of a full block keeps the list of logical   *)
(* pages in it, and when only the free block is left the block with the    *)
(* fewest valid pages is copied there and erased.                          *)
(*                                                                         *)
(* The commands of one bank execute in the order of their issue and each   *)
(* metadata page is logged after flash_finish, so that a command takes     *)
(* effect here when it is issued; FlashCtrl and TutorialFtl model the      *)
(* commands and the SATA buffers that are under way.  An ASSERT that fails *)
(* stops the firmware (target.h), which only a restart ends.               *)
(***************************************************************************)
EXTENDS Integers, FiniteSets, FiniteSetsExt

CONSTANTS NUM_BANKS, VBLKS_PER_BANK, PAGES_PER_BLK, SECTORS_PER_PAGE,
          NUM_LPAGES,
          MAPBLKS_PER_BANK,
          format_mark_page_offset, \* of the page behind the firmware in block 0 of bank 0
          MAP_ENTRIES,       \* entries of the page map in a flash page
          scan_list,         \* bad physical blocks of each bank, as install.exe found them
          Writes,            \* the host's: <<lpn, sect_offset, num_sectors, data>>
          Plain, Mark,       \* what the host writes: the FTL never looks at it
          Erased             \* what an erased sector reads as, 0xFF

Banks   == 0 .. NUM_BANKS - 1
VBlks   == 0 .. VBLKS_PER_BANK - 1
Offsets == 0 .. PAGES_PER_BLK - 1
VPages  == 0 .. VBLKS_PER_BANK * PAGES_PER_BLK - 1
Sectors == 0 .. SECTORS_PER_PAGE - 1
LPages  == 0 .. NUM_LPAGES - 1
get_num_bank(lpn) == lpn % NUM_BANKS

NULL               == 0
VC_MAX             == 52685        \* 0xCDCD
MISCBLK_VBN        == 1
META_BLKS_PER_BANK == 2 + MAPBLKS_PER_BANK
LAST               == PAGES_PER_BLK - 1
BlockOf(vpn)       == vpn \div PAGES_PER_BLK
OffsetOf(vpn)      == vpn % PAGES_PER_BLK
VpnOf(v, p)        == v * PAGES_PER_BLK + p

-----------------------------------------------------------------------------
(* What format assigns: the good blocks after MISCBLK_VBN in turn *)

\* build_bad_blk_list: a block is one physical block in each of the two planes
bad == [b \in Banks |-> {v \in VBlks : {2 * v, 2 * v + 1} \cap scan_list[b] # {}}]
Good(b) == {v \in VBlks : v > MISCBLK_VBN /\ v \notin bad[b]}
NthGood(b, n) == CHOOSE v \in Good(b) : Cardinality({w \in Good(b) : w <= v}) = n
MapLbns      == 0 .. MAPBLKS_PER_BANK - 1
MapBlock     == [b \in Banks |-> [lbn \in MapLbns |-> NthGood(b, lbn + 1)]]
FirstGcBlock == [b \in Banks |-> NthGood(b, MAPBLKS_PER_BANK + 1)]
FirstBlock   == [b \in Banks |-> NthGood(b, MAPBLKS_PER_BANK + 2)]

\* blocks that hold user data, one of them the free block for garbage collection
UserBlocks == [b \in Banks |-> {v \in Good(b) : v >= FirstGcBlock[b]}]
LPagesOf   == [b \in Banks |-> {l \in LPages : get_num_bank(l) = b}]

ASSUME Geometry ==
  /\ {NUM_BANKS, VBLKS_PER_BANK, SECTORS_PER_PAGE, MAPBLKS_PER_BANK, MAP_ENTRIES,
      NUM_LPAGES} \subseteq Nat \ {0}
  /\ PAGES_PER_BLK \in Nat /\ PAGES_PER_BLK > 2 /\ PAGES_PER_BLK < VC_MAX
  /\ scan_list \in [Banks -> SUBSET (4 .. 2 * VBLKS_PER_BANK - 1)]
  /\ Writes \subseteq LPages \X Sectors \X (1 .. SECTORS_PER_PAGE) \X {Plain, Mark}
  /\ \A w \in Writes : w[2] + w[3] <= SECTORS_PER_PAGE
  /\ NUM_LPAGES <= NUM_BANKS * MAPBLKS_PER_BANK * MAP_ENTRIES
  /\ format_mark_page_offset \in Offsets          \* the firmware leaves room in its block
\* SPARE_VBLKS_PER_BANK and the 7% of NUM_LSECTORS leave so much room: good blocks for
\* the map, three for user data and, with all user blocks but one full, one of them with
\* at most PAGES_PER_BLK - 3 valid pages
ASSUME Provisioning ==
  \A b \in Banks :
    /\ Cardinality(Good(b)) >= MAPBLKS_PER_BANK + 3
    /\ Cardinality(LPagesOf[b]) < (Cardinality(UserBlocks[b]) - 1) * (PAGES_PER_BLK - 2)

VARIABLES
  page_map,     \* the page map in DRAM
  vcount,       \* number of valid pages of each block
  g_misc_meta,  \* the rest of each bank's metadata, in SRAM
  nand,         \* contents of every page of every bank
  failed,       \* an ASSERT has stopped the firmware
  latest        \* history: what was last written to each logical sector

vars == <<page_map, vcount, g_misc_meta, nand, failed, latest>>

-----------------------------------------------------------------------------
(* Flash: what a page holds, and programming and erasing in one bank n *)

Data        == {Plain, Mark, Erased}
ErasedPage  == [erased |-> TRUE]
Clobbered   == [clobbered |-> TRUE]      \* programmed twice without an erase
DataPage(d) == [data |-> d]
ListPage(l) == [list |-> l]              \* lpn_list_of_cur_vblock
MapPage(k)  == [map |-> k]               \* the entries of the page map in it
MiscPage    == [misc |-> TRUE]
MarkPage    == [format_mark |-> TRUE]
IsData(pg)  == "data" \in DOMAIN pg

Program(n, vpn, pg) == [n EXCEPT ![vpn] = IF @ = ErasedPage THEN pg ELSE Clobbered]
EraseAll(n, V) ==
  IF V = {} THEN n ELSE [p \in VPages |-> IF BlockOf(p) \in V THEN ErasedPage ELSE n[p]]
SectorAt(n, vpn, s) == IF IsData(n[vpn]) THEN n[vpn].data[s] ELSE Erased

-----------------------------------------------------------------------------
(* ftl_flush *)

\* logging_pmap_table cuts the page map into flash pages, dealt out to the banks; the
\* last one ends with the map
Entries(b, lbn) == LET first == (lbn * NUM_BANKS + b) * MAP_ENTRIES
                   IN {l \in LPages : first <= l /\ l < first + MAP_ENTRIES}
LoggedFullOnly(b) ==                                          \* mistake
  {lbn \in MapLbns : (lbn * NUM_BANKS + b + 1) * MAP_ENTRIES <= NUM_LPAGES}
Logged(b) == {lbn \in MapLbns : Entries(b, lbn) # {}}

\* inc_mapblk_vpn, and back to the first page when the block was full
NextMapVpn(vpn) == IF OffsetOf(vpn + 1) = 0 THEN vpn + 1 - PAGES_PER_BLK ELSE vpn + 1
NextMiscVpn(vpn) == IF BlockOf(vpn + 1) # MISCBLK_VBN THEN VpnOf(MISCBLK_VBN, 0) ELSE vpn + 1

\* metadata m of bank b after logging_pmap_table and logging_misc_metadata
FlushedMeta(b, m) ==
  [m EXCEPT !.cur_mapblk_vpn = [lbn \in MapLbns |->
                IF lbn \in Logged(b) THEN NextMapVpn(@[lbn]) ELSE @[lbn]],
            !.cur_miscblk_vpn = NextMiscVpn(@)]

FullMetaBlocksNoMisc(b, m) ==                                 \* mistake
  {BlockOf(m.cur_mapblk_vpn[lbn]) : lbn \in {x \in Logged(b) :
                                  OffsetOf(m.cur_mapblk_vpn[x] + 1) = 0}}
\* blocks erased on the way, and the flash after it
FullMetaBlocks(b, m) ==
  {BlockOf(m.cur_mapblk_vpn[lbn]) : lbn \in {x \in Logged(b) :
                                  OffsetOf(m.cur_mapblk_vpn[x] + 1) = 0}} \cup
  {v \in {MISCBLK_VBN} : BlockOf(m.cur_miscblk_vpn + 1) # MISCBLK_VBN}
MetaPages(b, m) ==
  [vpn \in {m.cur_miscblk_vpn} \cup {m.cur_mapblk_vpn[lbn] : lbn \in Logged(b)} |->
     IF vpn = m.cur_miscblk_vpn THEN MiscPage
     ELSE MapPage(Entries(b, CHOOSE lbn \in Logged(b) : m.cur_mapblk_vpn[lbn] = vpn))]
FlushedNand(b, m, n) ==
  LET new == MetaPages(b, FlushedMeta(b, m))
      to  == DOMAIN new
      old == EraseAll(n, FullMetaBlocks(b, m))
  IN [p \in VPages |-> IF p \notin to THEN old[p]
                       ELSE IF old[p] = ErasedPage THEN new[p] ELSE Clobbered]

ftl_flush ==
  /\ ~failed
  /\ g_misc_meta' = [b \in Banks |-> FlushedMeta(b, g_misc_meta[b])]
  /\ nand' = [b \in Banks |-> FlushedNand(b, g_misc_meta[b], nand[b])]
  /\ UNCHANGED <<page_map, vcount, failed, latest>>

-----------------------------------------------------------------------------
(* ftl_open: format, whatever the flash holds *)

init_metadata_sram(b) ==
  [free_blk_cnt    |-> VBLKS_PER_BANK - META_BLKS_PER_BANK - Cardinality(bad[b]),
   cur_miscblk_vpn |-> VpnOf(MISCBLK_VBN, 0) - 1,
   cur_mapblk_vpn  |-> [lbn \in MapLbns |-> VpnOf(MapBlock[b][lbn], 0)],
   gc_vblock       |-> FirstGcBlock[b],
   cur_write_vpn   |-> VpnOf(FirstBlock[b], 0),
   lpn_list_of_cur_vblock |-> [p \in Offsets |-> 0]]

\* the free block is not to be taken for a victim
FormattedVcount(b) ==
  [v \in VBlks |-> IF v \in UserBlocks[b] \ {FirstGcBlock[b]} THEN 0 ELSE VC_MAX]

FormattedMap  == [l \in LPages |-> NULL]
FormattedCounts == [b \in Banks |-> FormattedVcount(b)]
FormattedMeta == [b \in Banks |-> FlushedMeta(b, init_metadata_sram(b))]

FreshNand == [b \in Banks |->
  FlushedNand(b, init_metadata_sram(b), [p \in VPages |-> ErasedPage])]

\* the good blocks but block 0, which has the firmware and the scan list, are erased and
\* the metadata is logged in them; then a page of block 0 of bank 0 is marked
FormattedBlocks == [b \in Banks |-> {v \in VBlks : v >= MISCBLK_VBN /\ v \notin bad[b]}]
format(b, n) ==
  [p \in VPages |-> IF BlockOf(p) \in FormattedBlocks[b] THEN FreshNand[b][p] ELSE n[p]]
format_mark_vpn == VpnOf(0, format_mark_page_offset)
write_format_mark(n) == Program(n, format_mark_vpn, MarkPage)
FormattedNand(n) ==
  [b \in Banks |-> IF b = 0 THEN write_format_mark(format(b, n[b])) ELSE format(b, n[b])]

BlankNand == [b \in Banks |-> [p \in VPages |-> ErasedPage]]
NothingWritten == [l \in LPages |-> [s \in Sectors |-> Erased]]

Init ==                               \* after the first start
  /\ page_map = FormattedMap
  /\ vcount = FormattedCounts
  /\ g_misc_meta = FormattedMeta
  /\ nand = FormattedNand(BlankNand)
  /\ failed = FALSE
  /\ latest = NothingWritten

ftl_open ==
  /\ page_map' = FormattedMap
  /\ vcount' = FormattedCounts
  /\ g_misc_meta' = FormattedMeta
  /\ nand' = FormattedNand(nand)
  /\ failed' = FALSE
  /\ latest' = NothingWritten

-----------------------------------------------------------------------------
(* assign_new_write_vpn and garbage_collection: the state of a bank after it, and  *)
(* whether its ASSERTs hold                                                        *)

Lpn(b) == g_misc_meta[b].lpn_list_of_cur_vblock
CurBlock(b) == BlockOf(g_misc_meta[b].cur_write_vpn)
LastPageNextLate(b) == OffsetOf(g_misc_meta[b].cur_write_vpn) = LAST      \* mistake
LastPageNext(b) == OffsetOf(g_misc_meta[b].cur_write_vpn) = PAGES_PER_BLK - 2
LastFreeBlockEarly(b) == g_misc_meta[b].free_blk_cnt - 1 = 2              \* mistake
\* is_full_all_blks, after the block was counted as full
LastFreeBlock(b) == g_misc_meta[b].free_blk_cnt - 1 = 1

NextPage(b) ==
  [map |-> page_map, vcount |-> vcount[b], nand |-> nand[b],
   meta |-> [g_misc_meta[b] EXCEPT !.cur_write_vpn = @ + 1], ok |-> TRUE]

\* the list of the full block goes to its last page
WithList(b) == Program(nand[b], VpnOf(CurBlock(b), LAST), ListPage(Lpn(b)))
NextBlocks(b) == {v \in VBlks : v > CurBlock(b) /\ vcount[b][v] # VC_MAX}
NextBlock(b) ==
  [map |-> page_map, vcount |-> vcount[b], nand |-> WithList(b),
   meta |-> [g_misc_meta[b] EXCEPT
               !.lpn_list_of_cur_vblock = [p \in Offsets |-> 0],
               !.free_blk_cnt = @ - 1,
               !.cur_write_vpn = VpnOf(IF NextBlocks(b) = {} THEN VBLKS_PER_BANK
                                       ELSE Min(NextBlocks(b)), 0)],
   ok |-> NextBlocks(b) # {}]

get_vt_vblockAny(b) == {v \in VBlks : vcount[b][v] # VC_MAX}  \* mistake
\* mem_search_min_max: a block with the fewest valid pages
get_vt_vblock(b) ==
  LET least == Min({vcount[b][v] : v \in VBlks}) IN {v \in VBlks : vcount[b][v] = least}

\* the list that is read back, and the pages found valid with it
ListIn(n, v) == LET pg == n[VpnOf(v, LAST)]
                IN IF "list" \in DOMAIN pg THEN pg.list ELSE [p \in Offsets |-> 0]
ValidPages(list, v) == {p \in 0 .. LAST - 1 : page_map[list[p]] = VpnOf(v, p)}

\* the valid pages go to the first pages of the free block, in order
CopyTo(valid, p)   == Cardinality({q \in valid : q < p})
CopyFrom(valid, q) == CHOOSE p \in valid : CopyTo(valid, p) = q
MovedListAsRead(list, valid) == list                          \* mistake
MovedList(list, valid) ==
  [p \in Offsets |-> IF p < Cardinality(valid) THEN list[CopyFrom(valid, p)] ELSE list[p]]

\* inside the flash or through a buffer
CopiedBack(n, vt, gc, valid) ==
  LET to == VpnOf(gc, 0) .. VpnOf(gc, 0) + Cardinality(valid) - 1
  IN [p \in VPages |->
        IF p \notin to THEN n[p]
        ELSE IF n[p] = ErasedPage THEN n[VpnOf(vt, CopyFrom(valid, OffsetOf(p)))]
        ELSE Clobbered]

\* free_blk_cnt is counted down for the full block and up for the erased one
garbage_collection(b, vt) ==
  LET m     == g_misc_meta[b]
      n     == WithList(b)
      list  == ListIn(n, vt)
      valid == ValidPages(list, vt)
      free  == Cardinality(valid)
      gc    == m.gc_vblock
  IN [map    |-> [l \in LPages |->
                    IF \E p \in valid : list[p] = l
                    THEN VpnOf(gc, CopyTo(valid, CHOOSE p \in valid : list[p] = l))
                    ELSE page_map[l]],
      vcount |-> [vcount[b] EXCEPT ![vt] = VC_MAX, ![gc] = vcount[b][vt]],
      nand   |-> EraseAll(CopiedBack(n, vt, gc, valid), {vt}),
      meta   |-> [m EXCEPT !.cur_write_vpn = VpnOf(gc, free), !.gc_vblock = vt,
                           !.lpn_list_of_cur_vblock = MovedList(list, valid)],
      ok     |-> /\ vt # gc
                 /\ vt >= META_BLKS_PER_BANK /\ vt \notin bad[b] /\ gc \notin bad[b]
                 /\ vcount[b][vt] < LAST - 1
                 /\ vcount[b][gc] = VC_MAX
                 /\ free < LAST - 1
                 /\ free = vcount[b][vt]]

-----------------------------------------------------------------------------
(* write_page, of which ftl_write calls one for each logical page *)

NewPageNoLeft(n, old, off, cnt, d) ==                         \* mistake
  DataPage([s \in Sectors |-> IF s \in off .. off + cnt - 1 THEN d
                              ELSE IF old = NULL \/ s < off THEN Erased
                              ELSE SectorAt(n, old, s)])
\* the page to program: new data in cnt sectors from off on, the rest of the old page
\* around it; the two ways in which the code reads the holes give the same
NewPage(n, old, off, cnt, d) ==
  DataPage([s \in Sectors |-> IF s \in off .. off + cnt - 1 THEN d
                              ELSE IF old = NULL THEN Erased ELSE SectorAt(n, old, s)])

InvalidateNever(vc, old) == vc                                \* mistake
Invalidate(vc, old) == IF old = NULL THEN vc ELSE [vc EXCEPT ![BlockOf(old)] = @ - 1]

\* the ASSERTs of write_page, set_vcount and set_vpn
WriteAsserts(a, lpn) ==
  LET old == a.map[lpn]
      new == a.meta.cur_write_vpn
  IN /\ a.ok
     /\ old # new
     /\ old # NULL => BlockOf(old) >= META_BLKS_PER_BANK /\ a.vcount[BlockOf(old)] > 0
     /\ Invalidate(a.vcount, old)[BlockOf(new)] < LAST
     /\ BlockOf(new) >= META_BLKS_PER_BANK

\* a is the state of lpn's bank after assign_new_write_vpn
write_page(a, lpn, off, cnt, d) ==
  LET b   == get_num_bank(lpn)
      old == a.map[lpn]
      new == a.meta.cur_write_vpn
  IN /\ WriteAsserts(a, lpn)
     /\ page_map' = [a.map EXCEPT ![lpn] = new]
     /\ vcount' = [vcount EXCEPT ![b] =
                     [Invalidate(a.vcount, old) EXCEPT ![BlockOf(new)] = @ + 1]]
     /\ g_misc_meta' = [g_misc_meta EXCEPT ![b] =
                     [a.meta EXCEPT !.lpn_list_of_cur_vblock[OffsetOf(new)] = lpn]]
     /\ nand' = [nand EXCEPT ![b] = Program(a.nand, new, NewPage(a.nand, old, off, cnt, d))]
     /\ latest' = [latest EXCEPT ![lpn] =
                     [s \in Sectors |-> IF s \in off .. off + cnt - 1 THEN d ELSE @[s]]]
     /\ UNCHANGED failed

\* As the FTL only moves data, one marked write at a time is enough to see a sector that
\* is lost, old or another's; any write may be the marked one.
MarkGone == \A b \in Banks : \A v \in UserBlocks[b], p \in 0 .. LAST - 1 :
  LET pg == nand[b][VpnOf(v, p)]
  IN IsData(pg) => \A s \in Sectors : pg.data[s] # Mark
Requests == {w \in Writes : w[4] = Mark => MarkGone}

WriteNextPage(lpn, off, cnt, d) ==
  LET b == get_num_bank(lpn)
  IN ~failed /\ ~LastPageNext(b) /\ write_page(NextPage(b), lpn, off, cnt, d)

WriteNextBlock(lpn, off, cnt, d) ==
  LET b == get_num_bank(lpn)
  IN /\ ~failed /\ LastPageNext(b) /\ ~LastFreeBlock(b)
     /\ write_page(NextBlock(b), lpn, off, cnt, d)

WriteAfterGc(lpn, off, cnt, d) ==
  LET b == get_num_bank(lpn)
  IN /\ ~failed /\ LastPageNext(b) /\ LastFreeBlock(b)
     /\ \E vt \in get_vt_vblock(b) :
          write_page(garbage_collection(b, vt), lpn, off, cnt, d)

\* What assign_new_write_vpn may leave behind
Assigned(b) == IF ~LastPageNext(b) THEN {NextPage(b)}
               ELSE IF ~LastFreeBlock(b) THEN {NextBlock(b)}
               ELSE {garbage_collection(b, vt) : vt \in get_vt_vblock(b)}

\* ASSERT: the firmware stops for good; what the DRAM holds then does not matter
AssertFails(b) ==
  /\ ~failed
  /\ \E a \in Assigned(b) : \E lpn \in LPagesOf[b] : ~WriteAsserts(a, lpn)
  /\ failed' = TRUE
  /\ UNCHANGED <<page_map, vcount, g_misc_meta, nand, latest>>

Next ==
  \/ \E w \in Requests :
       \/ WriteNextPage(w[1], w[2], w[3], w[4])
       \/ WriteNextBlock(w[1], w[2], w[3], w[4])
       \/ WriteAfterGc(w[1], w[2], w[3], w[4])
  \/ \E b \in Banks : AssertFails(b)
  \/ ftl_flush
  \/ ftl_open

Spec == Init /\ [][Next]_vars

\* ftl_read of a logical page
ftl_read(lpn) ==
  [s \in Sectors |-> IF page_map[lpn] = NULL THEN Erased
                     ELSE SectorAt(nand[get_num_bank(lpn)], page_map[lpn], s)]

-----------------------------------------------------------------------------
(* Properties *)

\* Types of the metadata; the write position never reaches the page of the list.
TypeOK ==
  /\ page_map \in [LPages -> VPages]
  /\ vcount \in [Banks -> [VBlks -> (0 .. LAST) \cup {VC_MAX}]]
  /\ \A b \in Banks :
       /\ g_misc_meta[b].free_blk_cnt \in 2 .. VBLKS_PER_BANK
       /\ g_misc_meta[b].gc_vblock \in UserBlocks[b]
       /\ OffsetOf(g_misc_meta[b].cur_write_vpn) < LAST
       /\ CurBlock(b) \in UserBlocks[b] \ {g_misc_meta[b].gc_vblock}
       /\ Lpn(b) \in [Offsets -> LPages]
  /\ latest \in [LPages -> [Sectors -> Data]]

\* A read returns what was last written to each sector, 0xFF where nothing was, through
\* any sequence of partial writes, changes of block, collections and flushes.
ReadsLatest == \A lpn \in LPages : ftl_read(lpn) = latest[lpn]

\* The two directions of the mapping agree: the list of a block, in SRAM or in its
\* last page, names the logical page at each place that the page map points to.
\* garbage_collection finds the valid pages by it.
ListOf(b, v) == IF v = CurBlock(b) THEN Lpn(b) ELSE ListIn(nand[b], v)
Mapped(b) == {l \in LPagesOf[b] : page_map[l] # NULL}
ListsAgree ==
  \A b \in Banks : \A l \in Mapped(b) :
    ListOf(b, BlockOf(page_map[l]))[OffsetOf(page_map[l])] = l

\* The valid counts are exact, so that the victim is the best one and the room that is
\* reserved suffices; and blocks not to be written are never candidates.
ValidCountsExact ==
  \A b \in Banks : \A v \in VBlks :
    vcount[b][v] =
      IF v \in UserBlocks[b] \ {g_misc_meta[b].gc_vblock}
      THEN Cardinality({l \in Mapped(b) : BlockOf(page_map[l]) = v}) ELSE VC_MAX

\* No page is programmed twice without an erase, those of the metadata logs included,
\* but one: as ftl_open formats at every start, and format erases no block 0, the second
\* start programs the page of the format mark again, as does each that follows.  No
\* write, collection or flush touches that page.
NoReprogram ==
  [][\A b \in Banks, p \in VPages :
       nand'[b][p] = Clobbered => /\ b = 0 /\ p = format_mark_vpn
                                  /\ nand[b][p] = Clobbered \/ ftl_open]_vars

\* The free block is erased, and free_blk_cnt counts it, the block that is written, and
\* the blocks not yet begun, so that collection begins exactly when no other is left.
FreeBlocksCounted ==
  \A b \in Banks :
    LET erased == {v \in UserBlocks[b] : \A p \in Offsets : nand[b][VpnOf(v, p)] = ErasedPage}
        gc == g_misc_meta[b].gc_vblock
    IN gc \in erased /\ g_misc_meta[b].free_blk_cnt = Cardinality(erased \cup {CurBlock(b)})

\* The metadata agrees with itself and with the flash after every call: the collection
\* finds the valid pages, counts them and has room for them.
MetadataAgrees == TypeOK /\ ListsAgree /\ ValidCountsExact /\ FreeBlocksCounted

\* After every flush the newest pages of the map blocks together hold the whole page
\* map, each entry once.
MapLogged ==
  LET log(b, lbn) == nand[b][g_misc_meta[b].cur_mapblk_vpn[lbn]]
  IN \A l \in LPages : Cardinality({x \in Banks \X MapLbns :
       LET pg == log(x[1], x[2]) IN "map" \in DOMAIN pg /\ l \in pg.map}) = 1

\* The ASSERTs of the FTL hold but in one situation: a bank never writes the first page
\* of its first block, whose entry of the list stays 0, the number of a logical page of
\* bank 0, and in bank 0 that page is where the other bank has its unwritten page.
AssertsHoldUnlessAliased ==
  failed => \E b \in Banks \ {0} :
    /\ page_map[0] = VpnOf(FirstBlock[b], 0)
    /\ nand[b][VpnOf(FirstBlock[b], 0)] = ErasedPage
=============================================================================
