------------------------------ MODULE FasterFtl ------------------------------
(***************************************************************************)
(* One bank of the FASTer FTL (ftl_faster/ftl.c): a block map for the data *)
(* blocks and page-mapped log blocks in front of them.  Pages that come in *)
(* sequence go to the SW log block, which becomes a data block by a switch *)
(* merge or a partial merge.  All others go round a ring of RW log blocks, *)
(* whose garbage collection gives a valid page a second chance and then    *)
(* moves it to the isolation area.  A full merge folds an isolated page    *)
(* and all others of its data block into a new data block, now and then    *)
(* already while there is room (progressive merge).                        *)
(*                                                                         *)
(* The banks share nothing but the numbering of the logical pages, and a   *)
(* command takes effect here when it is issued.  The state is passed       *)
(* through the functions of the code as one record, as in DacFtl.          *)
(***************************************************************************)
EXTENDS Integers, FiniteSets, FiniteSetsExt, SequencesExt

CONSTANTS NUM_BANKS, bank, VBLKS_PER_BANK, PAGES_PER_BLK, SECTORS_PER_PAGE,
          DATA_BLK_PER_BANK, ISOL_BLK_PER_BANK,
          COR_REF_THRESHOLD, \* 4 in the code
          TablePages,        \* pages of map block 0, 1 and 2 that a flush programs
          bad,               \* bad blocks, found by install.exe or by format
          Workload,          \* the host's: the sets of commands its n-th one is from
          Flush,             \* one of them; the others are writes, as
                             \* <<lpn, sect_offset, num_sectors, data>>
          Plain, Mark,       \* what the host writes: the FTL never looks at it
          Erased             \* what an erased sector reads as, 0xFF

INVALID          == -1
INVALID16        == 65535
SW_LOG_LBN       == 0
MISCBLK_VBN      == 1
MAP_BLK_PER_BANK == 3
FREE_BLK_PER_BANK == 2
RESERV_ISOL_BLK  == 2
LOG_BLK_PER_BANK == VBLKS_PER_BANK - 2 - MAP_BLK_PER_BANK - DATA_BLK_PER_BANK
                      - ISOL_BLK_PER_BANK - FREE_BLK_PER_BANK
GC_THRESHOLD     == PAGES_PER_BLK \div 2
ADJ_PMERGE_PERIOD == (LOG_BLK_PER_BANK * PAGES_PER_BLK) \div 8

VBlks    == 0 .. VBLKS_PER_BANK - 1
Offsets  == 0 .. PAGES_PER_BLK - 1
Sectors  == 0 .. SECTORS_PER_PAGE - 1
DataLbns == 0 .. DATA_BLK_PER_BANK - 1
LogLbns  == 0 .. LOG_BLK_PER_BANK - 1
IsolLbns == 0 .. ISOL_BLK_PER_BANK - 1
LAST     == PAGES_PER_BLK - 1     \* the page of the list, in RW log and isolation blocks
FULL     == PAGES_PER_BLK - 2     \* the last page with data there

get_data_lbn(lpn)    == (lpn \div NUM_BANKS) \div PAGES_PER_BLK
get_data_offset(lpn) == (lpn \div NUM_BANKS) % PAGES_PER_BLK
get_data_lpn(lbn, p) == lbn * PAGES_PER_BLK * NUM_BANKS + p * NUM_BANKS + bank
get_next_data_lpn(lpn) == lpn + NUM_BANKS     \* INVALID + 1 is 0
LPages      == {get_data_lpn(lbn, p) : lbn \in DataLbns, p \in Offsets}
LpnsOf(lbn) == {get_data_lpn(lbn, p) : p \in Offsets}
\* a log page: RW and SW log blocks first, the isolation blocks behind them
get_log_lbn(x)    == x \div PAGES_PER_BLK
get_log_offset(x) == x % PAGES_PER_BLK
LogLpn(lbn, p)    == lbn * PAGES_PER_BLK + p
LogLpns == 0 .. (LOG_BLK_PER_BANK + ISOL_BLK_PER_BANK) * PAGES_PER_BLK - 1

\* format takes the good blocks after MISCBLK_VBN in turn
Good       == {v \in VBlks : v > MISCBLK_VBN /\ v \notin bad}
NthGood(n) == CHOOSE v \in Good : Cardinality({w \in Good : w <= v}) = n
MapBlock(t)    == NthGood(1 + t)
DataBlock(lbn) == NthGood(1 + MAP_BLK_PER_BANK + lbn)
FreeBlock(n)   == NthGood(MAP_BLK_PER_BANK + DATA_BLK_PER_BANK + n)
IsolBlock(lbn) == NthGood(1 + MAP_BLK_PER_BANK + DATA_BLK_PER_BANK + FREE_BLK_PER_BANK + lbn)
LogBlock(lbn)  == NthGood(1 + MAP_BLK_PER_BANK + DATA_BLK_PER_BANK + FREE_BLK_PER_BANK
                            + ISOL_BLK_PER_BANK + lbn)

ASSUME Geometry ==
  /\ {NUM_BANKS, SECTORS_PER_PAGE, DATA_BLK_PER_BANK} \subseteq Nat \ {0}
  /\ bank \in 0 .. NUM_BANKS - 1
  /\ PAGES_PER_BLK \in Nat /\ PAGES_PER_BLK > 3
  /\ VBLKS_PER_BANK \in Nat /\ ISOL_BLK_PER_BANK \in Nat /\ ISOL_BLK_PER_BANK > RESERV_ISOL_BLK + 1
  /\ bad \subseteq {v \in VBlks : v > MISCBLK_VBN}
  /\ COR_REF_THRESHOLD \in Nat /\ TablePages \in [0 .. 2 -> Nat]
\* the SW log block and at least two RW log blocks are good
ASSUME Provisioning == LOG_BLK_PER_BANK - Cardinality(bad) >= 3
ASSUME Bounds ==
  \A n \in DOMAIN Workload : \A w \in Workload[n] \ {Flush} :
    /\ w \in LPages \X Sectors \X (1 .. SECTORS_PER_PAGE) \X {Plain, Mark}
    /\ w[2] + w[3] <= SECTORS_PER_PAGE

VARIABLES
  data_bmt,    \* block of each data block number
  log_bmt,     \* block of each log block number, INVALID16 for the last ones
  isol_bmt,    \* block of each isolation block number
  free_bmt,    \* the free blocks, a queue
  shashtbl,    \* log page of the logical pages that have one
  vc_bitmap,   \* logical pages whose page in the data block is not valid
  sc_bitmap,   \* log pages that have had their second chance
  g_misc_meta, \* counters, write positions and page lists in SRAM
  nand,        \* contents of every page
  fail,        \* an ASSERT has stopped the firmware
  latest,      \* history: what was last written to each logical sector
  step         \* history: number of commands, format being the first

ftl  == <<data_bmt, log_bmt, isol_bmt, free_bmt, shashtbl, vc_bitmap, sc_bitmap, g_misc_meta, nand>>
vars == <<ftl, fail, latest, step>>

\* what the functions below work on; gc is g_gc_flag and to the log page of the new data
Now == [data |-> data_bmt, log |-> log_bmt, isol |-> isol_bmt, free |-> free_bmt,
        hash |-> shashtbl, vc |-> vc_bitmap, sc |-> sc_bitmap, m |-> g_misc_meta,
        nand |-> nand, latest |-> latest, fail |-> "none", gc |-> FALSE, to |-> INVALID]
Check(a, cond, why) == IF cond \/ a.fail # "none" THEN a ELSE [a EXCEPT !.fail = why]

-----------------------------------------------------------------------------
(* Flash and the tables *)

Data        == {Plain, Mark, Erased}
Blank       == [s \in Sectors |-> Erased]
ErasedPage  == [erased |-> TRUE]
ErasedBlock == [p \in Offsets |-> ErasedPage]
Clobbered   == [clobbered |-> TRUE]      \* programmed twice without an erase
DataPage(d) == [data |-> d]
ListPage(l) == [list |-> l]              \* lpn_list_of_rwlog_blk, lpn_list_of_cur_isol_blk
LogPage     == [log |-> TRUE]            \* metadata: it is never loaded again
IsData(pg)  == "data" \in DOMAIN pg

Over(old, pg)  == IF old = ErasedPage THEN pg ELSE Clobbered
Sects(pg)      == IF IsData(pg) THEN pg.data ELSE Blank
Copied(pg)     == IF pg = Clobbered THEN pg ELSE DataPage(Sects(pg))
ListIn(blk)    == IF "list" \in DOMAIN blk[LAST] THEN blk[LAST].list
                  ELSE [p \in Offsets |-> INVALID]

shashtbl_get(a, l) == IF l \in DOMAIN a.hash THEN a.hash[l] ELSE INVALID
shashtbl_insert(hash, l, x) == (l :> x) @@ hash
shashtbl_update(hash, new)  == new @@ hash
shashtbl_clear(hash, ls) == [l \in DOMAIN hash |-> IF l \in ls THEN INVALID ELSE hash[l]]   \* mistake
shashtbl_remove(hash, ls)   == Restrict(hash, DOMAIN hash \ ls)
get_data_vbn(a, lbn) == a.data[lbn]
set_data_vbn(a, lbn, v) == [a EXCEPT !.data[lbn] = v]
LogVbn(a, x) == IF x = INVALID THEN 0
                ELSE IF get_log_lbn(x) < LOG_BLK_PER_BANK THEN a.log[get_log_lbn(x)]
                ELSE a.isol[get_log_lbn(x) - LOG_BLK_PER_BANK]
\* the page with the latest data of l: get_vpn, and the same search in the merges
PageOf(a, l) ==
  IF l \in a.vc
  THEN LET x == shashtbl_get(a, l) IN a.nand[LogVbn(a, x)][get_log_offset(x)]
  ELSE a.nand[get_data_vbn(a, get_data_lbn(l))][get_data_offset(l)]
UnlogHash(a, ls) == [a EXCEPT !.hash = shashtbl_remove(@, ls)]    \* mistake
\* the pages ls leave the log area: shashtbl_remove and mark_valid_in_data_blk
Unlog(a, ls) ==
  Check([a EXCEPT !.hash = shashtbl_remove(@, ls), !.vc = @ \ ls],
        ls \subseteq DOMAIN a.hash \cap a.vc, "assert")

RecycleNoErase(a, v) == [a EXCEPT !.free = Append(Tail(@), v)]         \* mistake
\* get_free_vbn, and later erase v and ret_free_vbn
NextFree(a)   == Head(a.free)
Recycle(a, v) == [a EXCEPT !.nand[v] = ErasedBlock, !.free = Append(Tail(@), v)]

-----------------------------------------------------------------------------
(* Merges *)

InSwLog(a, lbn) == {l \in LpnsOf(lbn) : get_log_lbn(shashtbl_get(a, l)) = SW_LOG_LBN}

ReplaceBySwLogKept(a, lbn) ==                                          \* mistake
  Recycle([a EXCEPT !.data[lbn] = a.log[SW_LOG_LBN], !.m.swlog_data_lbn = INVALID,
                    !.m.swlog_offset = INVALID], a.data[lbn])
\* the SW log block becomes the data block lbn, which it replaces
ReplaceBySwLog(a, lbn) ==
  Recycle([set_data_vbn(a, lbn, a.log[SW_LOG_LBN]) EXCEPT
             !.log[SW_LOG_LBN] = NextFree(a),
             !.m.swlog_data_lbn = INVALID,
             !.m.swlog_offset = INVALID], get_data_vbn(a, lbn))

switch_merge(a) ==
  LET lbn == a.m.swlog_data_lbn
      c   == Check(a, LpnsOf(lbn) \subseteq DOMAIN a.hash, "assert")
  IN ReplaceBySwLog(Unlog(c, InSwLog(a, lbn)), lbn)

\* the pages behind the last one written come from the log area or the data block
partial_merge(a) ==
  LET lbn  == a.m.swlog_data_lbn
      next == a.m.swlog_offset + 1
      rest == {l \in LpnsOf(lbn) : get_data_offset(l) >= next}
      v    == a.log[SW_LOG_LBN]
      c    == Check(a, next > 0 /\ next < PAGES_PER_BLK, "assert")
      full == [c EXCEPT !.nand[v] =
                 [p \in Offsets |-> IF p < next THEN @[p]
                                    ELSE Over(@[p], Copied(PageOf(a, get_data_lpn(lbn, p))))]]
  IN ReplaceBySwLog(Unlog(full, InSwLog(a, lbn) \cup (rest \cap a.vc)), lbn)

MergeDataOnly(a, lbn) ==                                               \* mistake
  LET new == NextFree(a)
      c == [a EXCEPT !.nand[new] = [p \in Offsets |-> Over(@[p], Copied(a.nand[a.data[lbn]][p]))],
                     !.data[lbn] = new]
  IN Recycle(Unlog(c, LpnsOf(lbn) \cap a.vc), a.data[lbn])
\* all pages of data block lbn, wherever they are, go to a free block
MergeDataBlock(a, lbn) ==
  LET new == NextFree(a)
      c == [a EXCEPT !.nand[new] =
              [p \in Offsets |-> Over(@[p], Copied(PageOf(a, get_data_lpn(lbn, p))))]]
  IN Recycle(Unlog(set_data_vbn(c, lbn, new), LpnsOf(lbn) \cap a.vc), get_data_vbn(a, lbn))

\* the victim isolation block is done with
FreeIsolBlock(a, lbn) ==
  Recycle([a EXCEPT !.isol[lbn] = NextFree(a),
                    !.m.isol_free_blk_cnt = @ + 1,
                    !.m.vt_isol_lpn = LogLpn(lbn, LAST)], a.isol[lbn])

\* the next valid page of the isolation area, in the order of its blocks
full_merge(a) ==
  LET start == (a.m.vt_isol_lpn + 1) % (ISOL_BLK_PER_BANK * PAGES_PER_BLK)
      lbn   == start \div PAGES_PER_BLK
      list  == IF start % PAGES_PER_BLK = 0 THEN ListIn(a.nand[a.isol[lbn]]) ELSE a.m.list_vt
      x(p)  == LogLpn(LOG_BLK_PER_BANK + lbn, p)
      valid == {p \in start % PAGES_PER_BLK .. FULL : shashtbl_get(a, list[p]) = x(p)}
      p     == Min(valid)
      c     == Check(Check([a EXCEPT !.m.list_vt = list],
                           a.m.isol_lpn \div PAGES_PER_BLK # lbn, "assert"),
                     start % PAGES_PER_BLK # LAST, "past_full")
      \* a partial merge goes before the full merge, and may have done its work
      d     == LET at == [c EXCEPT !.m.vt_isol_lpn = LogLpn(lbn, p)]
               IN IF get_data_lbn(list[p]) = a.m.swlog_data_lbn THEN partial_merge(at) ELSE at
      done  == shashtbl_get(d, list[p]) # x(p)
      e     == MergeDataBlock(d, get_data_lbn(list[p]))
  IN IF c.fail # "none" THEN c
     ELSE IF valid = {} THEN FreeIsolBlock(c, lbn)
     ELSE IF done THEN d
     ELSE IF p = FULL THEN FreeIsolBlock(e, lbn) ELSE e

-----------------------------------------------------------------------------
(* Garbage collection of the RW log blocks *)

\* the next good log block, in a ring without the SW log block
NextRwLog(a, lbn) ==
  LET good == {l \in LogLbns \ {SW_LOG_LBN} : a.log[l] # INVALID16}
      behind == {l \in good : l > lbn}
  IN IF behind # {} THEN Min(behind) ELSE Min(good)

\* a page of the victim v goes to the isolation area
Isolate(a, v, p, lpn) ==
  LET at   == (a.m.isol_lpn + 1) % (ISOL_BLK_PER_BANK * PAGES_PER_BLK)
      lbn  == at \div PAGES_PER_BLK
      shut == at % PAGES_PER_BLK = LAST
      c    == IF ~shut THEN a
              ELSE [a EXCEPT !.nand[a.isol[lbn]][LAST] = Over(@, ListPage(a.m.list_isol)),
                             !.m.isol_free_blk_cnt = @ - 1]
      to   == IF shut THEN (at + 1) % (ISOL_BLK_PER_BANK * PAGES_PER_BLK) ELSE at
      tb   == to \div PAGES_PER_BLK
      off  == to % PAGES_PER_BLK
  IN Check([c EXCEPT !.m.isol_lpn = to,
                     !.m.list_isol[off] = lpn,
                     !.hash = shashtbl_update(@, lpn :> LogLpn(LOG_BLK_PER_BANK, 0) + to),
                     !.nand[a.isol[tb]][off] = Over(@, Copied(a.nand[v][p]))],
           /\ a.m.isol_free_blk_cnt > 0
           /\ a.m.vt_isol_lpn \div PAGES_PER_BLK \notin {lbn, tb}, "isol_full")

\* second chances: of the pages ps of log block lbn only, and of all its pages
set_scbit(sc, lbn, ps) ==
  (sc \ {LogLpn(lbn, p) : p \in 0 .. FULL}) \cup {LogLpn(lbn, p) : p \in ps}
set_all_scbit_in_log_blk(sc, lbn) == sc \cup {LogLpn(lbn, p) : p \in Offsets}

\* the valid pages ps of the victim v stay in log block vt, at the front of a free block
KeepInLog(a, vt, v, list, ps) ==
  LET order == SetToSortSeq(ps, <)
      k     == Len(order)
      old(l) == CHOOSE p \in ps : list[p] = l
  IN [a EXCEPT !.nand[NextFree(a)] =
                 [p \in Offsets |-> IF p < k THEN Over(@[p], Copied(a.nand[v][order[p + 1]])) ELSE @[p]],
               !.hash = shashtbl_update(@, [l \in {list[p] : p \in ps} |->
                                             LogLpn(vt, Cardinality({q \in ps : q < old(l)}))]),
               !.m.list_rw = [p \in Offsets |-> IF p < k THEN list[order[p + 1]] ELSE @[p]],
               !.sc = set_scbit(@, vt, 0 .. k - 1),
               !.m.rwlog_lpn = LogLpn(vt, k) - 1]

garbage_collection(a) ==
  LET vt    == NextRwLog(a, get_log_lbn(a.m.rwlog_lpn))
      v     == a.log[vt]
      read  == ListIn(a.nand[v])
      valid == {p \in 0 .. FULL : shashtbl_get(a, read[p]) = LogLpn(vt, p)}
      cold  == {p \in valid : LogLpn(vt, p) \in a.sc}
      c     == [a EXCEPT !.m.list_rw = [p \in Offsets |-> IF p \in valid \/ p = LAST THEN read[p]
                                                          ELSE INVALID]]
      IsolatePage(d, p) == Isolate(d, v, p, read[p])
      \* few pages are all kept, whether they have had their second chance or not
      kept  == IF Cardinality(valid) < GC_THRESHOLD THEN valid ELSE valid \ cold
      d     == FoldLeft(IsolatePage, c, SetToSortSeq(valid \ kept, <))
      e     == IF valid = {} THEN [d EXCEPT !.m.rwlog_lpn = LogLpn(vt, 0) - 1]
               ELSE KeepInLog(d, vt, v, read, kept)
      f     == Check([e EXCEPT !.log[vt] = NextFree(a),
                               !.m.rwlog_free_blk_cnt = @ + 1, !.gc = TRUE],
                     Cardinality(kept) < LAST, "assert")
  IN IF Cardinality(valid) = LAST /\ cold = {}
     THEN [c EXCEPT !.sc = set_all_scbit_in_log_blk(@, vt),
                    !.m.rwlog_lpn = LogLpn(NextRwLog(a, vt), 0) - 1]
     ELSE Recycle(f, v)

\* while (is_full_rwlog_blks(bank)): the second round finds every page with its second
\* chance, so that it frees a block
CollectRwLog(a) ==
  LET after[n \in 0 .. 2 * LOG_BLK_PER_BANK] ==
        IF n = 0 THEN a
        ELSE LET c == after[n - 1]
             IN IF c.m.rwlog_free_blk_cnt = 0 /\ c.fail = "none" THEN garbage_collection(c) ELSE c
      end == after[2 * LOG_BLK_PER_BANK]
  IN Check(end, end.m.rwlog_free_blk_cnt > 0, "endless_gc")

-----------------------------------------------------------------------------
(* Where a new page goes *)

To(a, x) == [a EXCEPT !.m.rwlog_lpn = x, !.to = x]
IncRwLog(a) == To(a, (a.m.rwlog_lpn + 1) % (LOG_BLK_PER_BANK * PAGES_PER_BLK))

AtFull(a) == get_log_offset(a.m.rwlog_lpn) = FULL
\* assign_cur_write_rwlog_lpn at the end of a block, which gets its list
NextRwBlock(a) ==
  LET x == a.m.rwlog_lpn
      c == CollectRwLog([a EXCEPT !.nand[a.log[get_log_lbn(x)]][LAST] = Over(@, ListPage(a.m.list_rw)),
                                  !.m.rwlog_free_blk_cnt = @ - 1])
  IN IF ~AtFull(c) THEN IncRwLog(c)
     ELSE To(c, LogLpn(NextRwLog(c, get_log_lbn(c.m.rwlog_lpn)), 0))

SameLbn(a, lpn)   == a.m.swlog_data_lbn = get_data_lbn(lpn)
SW_APPEND(a, lpn) == SameLbn(a, lpn) /\ a.m.swlog_offset + 1 = get_data_offset(lpn)
Follows(a, lpn)   == get_next_data_lpn(a.m.corr_ref[1]) = lpn
\* INVALID is the greatest number there is
LongRun(a)        == a.m.corr_ref[2] = INVALID \/ a.m.corr_ref[2] > COR_REF_THRESHOLD
SW_DETECT(a, lpn) == ~SameLbn(a, lpn) /\ Follows(a, lpn) /\ LongRun(a)
\* the length of the run of consecutive pages, up to the last one, that is_ok_write_to_sw_logblk keeps
Correlated(a, lpn) ==
  [a EXCEPT !.m.corr_ref =
     IF SameLbn(a, lpn) THEN IF SW_APPEND(a, lpn) THEN <<lpn, @[2]>> ELSE @
     ELSE IF ~Follows(a, lpn) THEN <<lpn, 1>>
     ELSE IF LongRun(a) THEN <<lpn, @[2]>> ELSE <<lpn, @[2] + 1>>]

AppendSw(a, lpn) == [a EXCEPT !.m.swlog_offset = @ + 1, !.to = get_data_offset(lpn)]

\* the SW log block starts with the pages of the data block before lpn
StartSw(a, lpn) ==
  LET c   == IF a.m.swlog_data_lbn # INVALID THEN partial_merge(a) ELSE a
      lbn == get_data_lbn(lpn)
      off == get_data_offset(lpn)
      low == {l \in LpnsOf(lbn) : l < lpn}
  IN [c EXCEPT !.nand[c.log[SW_LOG_LBN]] =
                 [p \in Offsets |-> IF p < off THEN Over(@[p], Copied(PageOf(c, get_data_lpn(lbn, p))))
                                    ELSE @[p]],
               !.hash = shashtbl_update(@, [l \in low |-> get_data_offset(l)]),
               !.vc = @ \cup low,
               !.m.swlog_data_lbn = lbn, !.m.swlog_offset = off, !.to = off]

-----------------------------------------------------------------------------
(* write_to_log_block *)

\* the new page is d in cnt sectors from off on, what is latest around it
PutPage(a, lpn, off, cnt, d) ==
  LET old == Sects(PageOf(a, lpn))
      new == DataPage([s \in Sectors |-> IF s \in off .. off + cnt - 1 THEN d ELSE old[s]])
      c   == Check(a, (lpn \in a.vc) = (lpn \in DOMAIN a.hash), "assert")
      e   == IF a.to < PAGES_PER_BLK THEN c ELSE [c EXCEPT !.m.list_rw[get_log_offset(a.to)] = lpn]
  IN [e EXCEPT !.nand[LogVbn(a, a.to)][get_log_offset(a.to)] = Over(@, new),
               !.hash = shashtbl_insert(@, lpn, a.to),
               !.vc = @ \cup {lpn},
               !.latest[lpn] = [s \in Sectors |-> IF s \in off .. off + cnt - 1 THEN d ELSE @[s]]]

SwitchPastEnd(a) ==                                                    \* mistake
  IF a.m.swlog_offset = PAGES_PER_BLK THEN [switch_merge(a) EXCEPT !.gc = TRUE] ELSE a
SwitchIfFull(a) == IF a.m.swlog_offset = LAST THEN [switch_merge(a) EXCEPT !.gc = TRUE] ELSE a

progressive_merge(a) ==
  LET c == [a EXCEPT !.m.pmerge_trigger = @ + 1]
  IN IF a.gc THEN a
     ELSE IF a.m.isol_free_blk_cnt <= RESERV_ISOL_BLK
     THEN [full_merge(a) EXCEPT !.m.inc_pmerge = TRUE]
     ELSE IF a.m.isol_free_blk_cnt >= ISOL_BLK_PER_BANK - 1 \/ get_log_lbn(a.to) = SW_LOG_LBN THEN a
     ELSE IF c.m.pmerge_trigger >= (a.m.pmerge_interval + bank) * 2
     THEN [full_merge(c) EXCEPT !.m.pmerge_trigger = 0]
     ELSE c

\* how often progressive_merge works, tuned from the isolation blocks that are left
Tune(a) ==
  LET base == IF a.m.base_pmerge_interval < 2 THEN PAGES_PER_BLK \div 4 ELSE a.m.base_pmerge_interval
      less == IF base > 1 THEN base - 1 ELSE base
      c    == [a EXCEPT !.m.write_before_pmerge = 0, !.m.base_pmerge_interval = base]
  IN IF a.m.write_before_pmerge < ADJ_PMERGE_PERIOD \/ a.m.isol_free_blk_cnt >= ISOL_BLK_PER_BANK THEN a
     ELSE IF a.m.isol_free_blk_cnt > ISOL_BLK_PER_BANK - 2
     THEN [c EXCEPT !.m.pmerge_interval = @ + 1]
     ELSE IF ~a.m.inc_pmerge THEN c
     ELSE [c EXCEPT !.m.base_pmerge_interval = less, !.m.pmerge_interval = less, !.m.inc_pmerge = FALSE]

\* the state after a command; an ASSERT stops the firmware
Become(a) ==
  IF a.fail # "none"
  THEN /\ fail' = a.fail
       /\ UNCHANGED <<ftl, latest>>
  ELSE /\ data_bmt' = a.data /\ log_bmt' = a.log /\ isol_bmt' = a.isol /\ free_bmt' = a.free
       /\ shashtbl' = a.hash /\ vc_bitmap' = a.vc /\ sc_bitmap' = a.sc
       /\ g_misc_meta' = a.m /\ nand' = a.nand /\ latest' = a.latest
       /\ UNCHANGED fail

\* As the FTL only moves data, one marked sector at a time is enough to see one that is
\* lost, old or another's; any write may be the marked one.
MarkGone == \A v \in VBlks, p \in Offsets :
  IsData(nand[v][p]) => \A s \in Sectors : nand[v][p].data[s] # Mark
Request(w) ==
  /\ fail = "none" /\ step <= Len(Workload) /\ w \in Workload[step]
  /\ w # Flush => (w[4] = Mark => MarkGone)
  /\ step' = step + 1

\* what ftl_write and prepare_to_new_write do before they choose one of the four cases
Prepared(lpn) == Correlated([Now EXCEPT !.m.write_before_pmerge = @ + 1], lpn)
\* the rest, c being the state once the place of the new page is known
write_to_log_block(w, c) ==
  LET d == PutPage(c, w[1], w[2], w[3], w[4])
  IN IF c.fail # "none" THEN Become(c) ELSE Become(Tune(progressive_merge(SwitchIfFull(d))))

Wr(w) == w # Flush /\ Request(w)
SW_NO(w) == Wr(w) /\ ~SW_APPEND(Now, w[1]) /\ ~SW_DETECT(Now, w[1])
WriteAppend(w) ==
  Wr(w) /\ SW_APPEND(Now, w[1]) /\ write_to_log_block(w, AppendSw(Prepared(w[1]), w[1]))
WriteDetect(w) ==
  Wr(w) /\ SW_DETECT(Now, w[1]) /\ write_to_log_block(w, StartSw(Prepared(w[1]), w[1]))
WriteLog(w) ==
  SW_NO(w) /\ ~AtFull(Now) /\ write_to_log_block(w, IncRwLog(Prepared(w[1])))
WriteNextLog(w) ==
  SW_NO(w) /\ AtFull(Now) /\ write_to_log_block(w, NextRwBlock(Prepared(w[1])))

-----------------------------------------------------------------------------
(* Format and flush *)

\* pages of block v: the table pages at vpns
Logged(blk, v, vpns) ==
  [p \in Offsets |-> IF v * PAGES_PER_BLK + p \in vpns THEN Over(blk[p], LogPage) ELSE blk[p]]

\* A table has at least a page.  The room asked for is of one page in NUM_BANKS.
flush_dram_metadata_into_mapblk(a, t) ==
  LET vpn == a.m.mapblk_vpn[t]
      old == vpn \div PAGES_PER_BLK
      c == IF 1 \div NUM_BANKS < PAGES_PER_BLK - (vpn % PAGES_PER_BLK) THEN a
           ELSE Recycle([a EXCEPT !.m.mapblk_vpn[t] = NextFree(a) * PAGES_PER_BLK - 1], old)
      at == c.m.mapblk_vpn[t]
  IN [c EXCEPT !.nand = [v \in VBlks |-> Logged(@[v], v, at + 1 .. at + TablePages[t])],
               !.m.mapblk_vpn[t] = @ + TablePages[t]]

flush_misc_metadata(a) ==
  LET next == a.m.miscblk_vpn + 1
      wrap == next \div PAGES_PER_BLK # MISCBLK_VBN
      vpn  == IF wrap THEN MISCBLK_VBN * PAGES_PER_BLK ELSE next
  IN [a EXCEPT !.nand[MISCBLK_VBN] = Logged(IF wrap THEN ErasedBlock ELSE @, MISCBLK_VBN, {vpn}),
               !.m.miscblk_vpn = vpn]

Flushed(a) == flush_misc_metadata(FoldLeft(flush_dram_metadata_into_mapblk, a, <<2, 1, 0>>))
ftl_flush == Request(Flush) /\ Become(Flushed(Now))

NoList == [p \in Offsets |-> 0]
init_metadata_sram ==
  [miscblk_vpn |-> MISCBLK_VBN * PAGES_PER_BLK - 1,
   mapblk_vpn |-> [t \in 0 .. MAP_BLK_PER_BANK - 1 |-> MapBlock(t) * PAGES_PER_BLK - 1],
   swlog_offset |-> INVALID, swlog_data_lbn |-> INVALID, corr_ref |-> <<INVALID, INVALID>>,
   rwlog_lpn |-> PAGES_PER_BLK - 1, isol_lpn |-> INVALID, vt_isol_lpn |-> INVALID,
   rwlog_free_blk_cnt |-> LOG_BLK_PER_BANK - 1 - Cardinality(bad),
   isol_free_blk_cnt |-> ISOL_BLK_PER_BANK,
   write_before_pmerge |-> 0, pmerge_trigger |-> 0, inc_pmerge |-> FALSE,
   pmerge_interval |-> PAGES_PER_BLK \div 4, base_pmerge_interval |-> PAGES_PER_BLK \div 4,
   list_rw |-> NoList, list_isol |-> NoList, list_vt |-> NoList]

\* format, which ftl_open always calls, erases every block
format ==
  [data |-> [lbn \in DataLbns |-> DataBlock(lbn)],
   log  |-> [lbn \in LogLbns |-> IF lbn < LOG_BLK_PER_BANK - Cardinality(bad) THEN LogBlock(lbn)
                                 ELSE INVALID16],
   isol |-> [lbn \in IsolLbns |-> IsolBlock(lbn)],
   free |-> [n \in 1 .. FREE_BLK_PER_BANK |-> FreeBlock(n)],
   hash |-> <<>>, vc |-> {}, sc |-> {}, m |-> init_metadata_sram,
   nand |-> [v \in VBlks |-> ErasedBlock], latest |-> [l \in LPages |-> Blank],
   fail |-> "none", gc |-> FALSE, to |-> INVALID]

Init ==
  LET a == Flushed(format)
  IN /\ data_bmt = a.data /\ log_bmt = a.log /\ isol_bmt = a.isol /\ free_bmt = a.free
     /\ shashtbl = a.hash /\ vc_bitmap = a.vc /\ sc_bitmap = a.sc
     /\ g_misc_meta = a.m /\ nand = a.nand /\ fail = a.fail
     /\ latest = a.latest
     /\ step = 1

Commands == IF step <= Len(Workload) THEN Workload[step] ELSE {}
Next ==
  \/ \E w \in Commands : WriteAppend(w) \/ WriteDetect(w) \/ WriteLog(w) \/ WriteNextLog(w)
  \/ ftl_flush

Spec == Init /\ [][Next]_vars

\* ftl_read and issd_read_sectors of a logical page
ftl_read(lpn) == Sects(PageOf(Now, lpn))

-----------------------------------------------------------------------------
(* Properties *)

\* Types of the tables: the log page index maps logical pages to log pages, the two
\* bitmaps are of logical and of log pages.
TypeOK ==
  /\ data_bmt \in [DataLbns -> VBlks]
  /\ log_bmt \in [LogLbns -> VBlks \cup {INVALID16}]
  /\ isol_bmt \in [IsolLbns -> VBlks]
  /\ free_bmt \in Seq(VBlks)
  /\ DOMAIN shashtbl \subseteq LPages /\ Range(shashtbl) \subseteq LogLpns
  /\ vc_bitmap \subseteq LPages /\ sc_bitmap \subseteq LogLpns
  /\ fail \in {"none", "past_full", "isol_full", "endless_gc", "assert"}

\* The host reads what it wrote last, wherever switch, partial and full merges, the
\* second chance and the isolation have moved it, and whatever of it was overwritten.
ReadsLatest == \A lpn \in LPages : ftl_read(lpn) = latest[lpn]

\* No page is programmed twice without an erase, by pages of the host, copies of the
\* merges and of the collection, page lists in last pages, and table pages.
NoReprogram == \A v \in VBlks, p \in Offsets : nand[v][p] # Clobbered

\* the logical page that the FTL will find on record for log page x
RecordedAt(x) ==
  LET p == get_log_offset(x)
      i == get_log_lbn(x) - LOG_BLK_PER_BANK
  IN IF get_log_lbn(x) = SW_LOG_LBN THEN get_data_lpn(g_misc_meta.swlog_data_lbn, p)
     ELSE IF get_log_lbn(x) = get_log_lbn(g_misc_meta.rwlog_lpn) THEN g_misc_meta.list_rw[p]
     ELSE IF g_misc_meta.isol_lpn # INVALID /\ i = g_misc_meta.isol_lpn \div PAGES_PER_BLK
     THEN g_misc_meta.list_isol[p]
     ELSE ListIn(nand[LogVbn(Now, x)])[p]

\* The index and the bitmap of invalid data pages agree; no two logical pages share a
\* log page; and the list from which a collection or a merge will learn what a log page
\* holds, in SRAM or in the block's last page, names the logical page that is there.
LogIndexAgrees ==
  /\ DOMAIN shashtbl = vc_bitmap
  /\ IsInjective(shashtbl)
  /\ \A l \in vc_bitmap : RecordedAt(shashtbl[l]) = l

InUse == {MISCBLK_VBN} \cup Range(data_bmt) \cup (Range(log_bmt) \ {INVALID16}) \cup Range(isol_bmt)
           \cup {MapBlock(t) : t \in 0 .. MAP_BLK_PER_BANK - 1} \cup Range(free_bmt)
\* No block is lost or used twice through any merge or collection: every good block has
\* one role, and the free ones are erased.
BlocksAccounted ==
  /\ InUse = Good \cup {MISCBLK_VBN}
  /\ Len(free_bmt) = FREE_BLK_PER_BANK
  /\ \A v \in Range(free_bmt) : nand[v] = ErasedBlock

\* The tables have their types, and index, lists and free blocks agree with the flash.
TablesSound == TypeOK /\ LogIndexAgrees /\ BlocksAccounted

\* The firmware stops in two situations only: with the isolation area down to its
\* reserve, as no merge is done in the writes that collect, the collection reaches the
\* block that is merged or has just been freed; or a partial
\* merge on the way to a full merge has folded the page at FULL itself, so that the
\* victim block is not freed and the next full merge steps onto its list.  No other
\* ASSERT fails, and the collection ends.
StopsOnlyIsolation ==
  fail # "none" =>
    \/ fail = "isol_full" /\ g_misc_meta.isol_free_blk_cnt <= RESERV_ISOL_BLK
    \/ fail = "past_full" /\ get_log_offset(g_misc_meta.vt_isol_lpn) = FULL
=============================================================================
