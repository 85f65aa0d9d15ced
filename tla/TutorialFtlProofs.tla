-------------------------- MODULE TutorialFtlProofs --------------------------
(***************************************************************************)
(* Proofs about TutorialFtl for every geometry, every number of logical    *)
(* pages and buffers, all scan lists and every workload inside the device. *)
(***************************************************************************)
EXTENDS TutorialFtl, NumberLemmas, SequenceTheorems, TLAPS

PPB == PAGES_PER_BANK
SPP == SECTORS_PER_PAGE

-----------------------------------------------------------------------------
(* Types *)

Commands == [fc : {"READ", "PROG"}, bank : Banks, row : Rows, col : Nat, cnt : Nat,
             buf : Buffers, page : Nat]

FlashTypes ==
  /\ wroom \in Commands \cup {NoCmd}
  /\ bsp \in [Banks -> Commands \cup {NoCmd}]
  /\ \A b \in Banks : bsp[b] # NoCmd => bsp[b].bank = b
  /\ flash \in [Banks -> [Rows -> Pages]]
  /\ dram \in [Buffers -> Pages]

FtlTypes ==
  /\ page_map \in [LPages -> 0 .. NUM_BANKS * PPB - 1]
  /\ g_target_bank \in Banks
  /\ g_target_row \in [Banks -> 0 .. PPB]
  /\ g_ftl_write_buf_id \in 0 .. NUM_WR_BUFFERS - 1
  /\ g_ftl_read_buf_id \in 0 .. NUM_RD_BUFFERS - 1
  /\ latest \in [LSectors -> Data]

Packets == [id : 1 .. MaxOps, lpage : LPages, col : Int, cnt : Int]

SataTypes ==
  /\ ops \in 0 .. MaxOps
  /\ received \in Nat
  /\ issued \in Nat
  /\ wrPages \in Seq(Packets)

(* A place in a call: the loop's page, offset and sectors that remain.     *)
Places == [lpage : Nat, off : Sectors, remain : Nat]
First(at) == at.lpage * SPP + at.off
Inside(at) == First(at) + at.remain <= NUM_LPAGES * SPP

ReadCalls  == [call : {"read"}, at : Places]
WriteCalls == [call : {"write"}, pc : {"page", "left", "right", "prog", "stopped"},
               id : 1 .. MaxOps, at : Places]
CopyReads  == [call : {"copy"}, pc : {"read", "finish"}, page : Nat, at : Places,
               from : LSectors, to : LSectors, n : Nat \ {0}, old : {op.old}]
CopyWrites == [call : {"copy"}, pc : {"page", "left", "right", "prog", "stopped", "done"},
               src : Nat, at : Places, to : LSectors, old : {op.old}]

(* do_issd_backup: what has been read, and what is still to be written     *)
CopyReading == /\ op.old \in [0 .. op.n - 1 -> Data]
               /\ op.from + op.n <= NUM_LPAGES * SPP
               /\ op.to + op.n <= NUM_LPAGES * SPP
               /\ op.page <= op.at.lpage
               /\ op.pc = "read" => op.at.remain > 0
CopyWriting == /\ op.at.remain > 0
               /\ First(op.at) >= op.to
               /\ op.old \in [0 .. First(op.at) + op.at.remain - op.to - 1 -> Data]
               /\ op.src + op.at.remain < (NUM_LPAGES + 1) * SPP

CallTypes ==
  \/ op = [call |-> "none"]
  \/ op \in ReadCalls /\ op.at.remain > 0 /\ Inside(op.at)
  \/ op \in WriteCalls /\ op.at.remain > 0 /\ Inside(op.at)
  \/ op \in CopyReads /\ CopyReading /\ Inside(op.at)
  \/ op \in CopyWrites /\ CopyWriting /\ Inside(op.at)

Types == FlashTypes /\ FtlTypes /\ SataTypes /\ CallTypes

-----------------------------------------------------------------------------
(* Pages of the flash *)

(* Nothing is in the page and no program command is on its way to it.      *)
Free(b, row) == /\ flash[b][row] = ErasedPage
                /\ \A c \in Pending : ~(c.bank = b /\ c.row = row)

(* a page of a good vblock, or of that of the last bad block               *)
Usable(b, row) == BadBlock(b, row \div PAGES_PER_VBLK) =>
                    row \div PAGES_PER_VBLK = Last(scan_list[b]) \div 2

(* StartPage has taken a page that ProgramPage has not programmed yet.     *)
Chosen == op.call \in {"write", "copy"} /\ op.pc \in {"left", "right", "prog"}

(* get_free_page hands out the pages of a bank from the first to the last. *)
RowsAhead ==
  /\ \A b \in Banks, row \in Rows : row >= g_target_row[b] => Free(b, row)
  /\ Chosen => NewRow \in Rows /\ Free(NewBank, NewRow) /\ Usable(NewBank, NewRow)

(* The program commands on their way go to erased pages, each to its own.  *)
PendingApart ==
  /\ NoReprogram
  /\ \A b \in Banks : wroom.fc = "PROG" /\ bsp[b].fc = "PROG" /\ wroom.bank = b =>
       wroom.row # bsp[b].row

RowsUsable ==
  /\ \A b \in Banks : g_target_row[b] % PAGES_PER_VBLK # 0 => Usable(b, g_target_row[b])
  /\ \A c \in Pending : Usable(c.bank, c.row)

IInv == Types /\ RowsAhead /\ PendingApart /\ RowsUsable

-----------------------------------------------------------------------------
(* Addresses *)

\* The geometry as the proofs need it.
LEMMA GeometryFacts ==
  /\ NUM_BANKS \in Nat \ {0} /\ SPP \in Nat \ {0} /\ PAGES_PER_VBLK \in Nat \ {0}
  /\ VBLKS_PER_BANK \in Nat \ {0, 1}
  /\ PPB \in Nat \ {0} /\ Rows = 0 .. PPB - 1 /\ Sectors = 0 .. SPP - 1
  /\ PPB = VBLKS_PER_BANK * PAGES_PER_VBLK
  /\ NUM_LPAGES \in Nat /\ MaxOps \in Nat /\ NUM_LPAGES * SPP \in Nat
  /\ NUM_WR_BUFFERS \in Nat /\ NUM_RD_BUFFERS \in Nat
  /\ NUM_WR_BUFFERS > NUM_BANKS /\ NUM_RD_BUFFERS > 1
<1>1. /\ NUM_BANKS \in Nat \ {0} /\ SPP \in Nat \ {0} /\ PAGES_PER_VBLK \in Nat \ {0}
      /\ VBLKS_PER_BANK \in Nat \ {0, 1}
      /\ PPB = VBLKS_PER_BANK * PAGES_PER_VBLK
  BY Geometry DEF SPP, PPB, PAGES_PER_BANK
<1>2. PPB \in Nat \ {0}
  BY <1>1, SMTT(30)
<1>3. /\ NUM_LPAGES \in Nat /\ MaxOps \in Nat
      /\ NUM_WR_BUFFERS \in Nat /\ NUM_RD_BUFFERS \in Nat
      /\ NUM_WR_BUFFERS > NUM_BANKS /\ NUM_RD_BUFFERS > 1
  BY BufferCounts
<1>4. NUM_LPAGES * SPP \in Nat
  BY <1>1, <1>3, SMTT(30)
<1> QED
  BY <1>1, <1>2, <1>3, <1>4 DEF Rows, Sectors, SPP, PPB, PAGES_PER_BANK

\* A product grows with its factor.
LEMMA Products ==
  ASSUME NEW N \in Nat \ {0}, NEW a \in Nat, NEW b \in Nat
  PROVE  /\ a * N \in Nat /\ (a + 1) * N = a * N + N
         /\ a < b => a * N + N <= b * N
         /\ a * N < b * N => a < b
         /\ a * N = N * a
<1>1. a * N \in Nat /\ (a + 1) * N = a * N + N /\ a * N = N * a /\ b * N = N * b
  BY SMTT(30)
<1>2. ASSUME a < b PROVE a * N + N <= b * N
  <2>1. b - a - 1 \in Nat BY <1>2
  <2>2. (b - a - 1) * N \in Nat BY <2>1, SMTT(30)
  <2>3. b * N = a * N + N + (b - a - 1) * N BY <2>1, SMTT(30)
  <2> QED BY <1>1, <2>2, <2>3
<1>3. ASSUME a * N < b * N PROVE a < b
  <2> SUFFICES ASSUME b <= a PROVE FALSE OBVIOUS
  <2>1. a - b \in Nat OBVIOUS
  <2>2. (a - b) * N \in Nat BY <2>1, SMTT(30)
  <2>3. a * N = b * N + (a - b) * N BY <2>1, SMTT(30)
  <2> QED BY <1>1, <1>3, <2>2, <2>3, SMTT(30)
<1> QED
  BY <1>1, <1>2, <1>3

\* A quotient stays below the factor of the bound.
LEMMA Quotient ==
  ASSUME NEW a \in Nat, NEW N \in Nat \ {0}, NEW V \in Nat
  PROVE  /\ a \div N \in Nat /\ a % N \in 0 .. N - 1
         /\ a < V * N => a \div N < V
<1> DEFINE q == a \div N  r == a % N
<1>1. a = N * q + r /\ q \in Int /\ r \in 0 .. N - 1
  <2>1. a \in Int OBVIOUS
  <2> QED BY <2>1, DivMod
<1> HIDE DEF q, r
<1>2. q \in Nat BY <1>1, SMTT(30)
<1>3. q * N = N * q /\ q * N \in Nat BY <1>2, Products
<1>4. ASSUME a < V * N PROVE q < V
  <2>1. V * N \in Nat BY Products
  <2>2. q * N < V * N BY <1>1, <1>3, <1>4, <2>1
  <2> QED BY <1>2, <2>2, Products
<1> QED BY <1>1, <1>2, <1>4 DEF q, r

\* Physical pages: bank and row, and back.
LEMMA PhysFacts ==
  /\ \A p \in 0 .. NUM_BANKS * PPB - 1 : BankOf(p) \in Banks /\ RowOf(p) \in Rows
  /\ \A b \in Banks, r \in Rows :
       /\ b * PPB + r \in 0 .. NUM_BANKS * PPB - 1
       /\ BankOf(b * PPB + r) = b /\ RowOf(b * PPB + r) = r
<1>1. NUM_BANKS \in Nat \ {0} /\ PPB \in Nat \ {0} /\ Rows = 0 .. PPB - 1
  BY GeometryFacts
<1>2. NUM_BANKS * PPB \in Nat BY <1>1, SMTT(30)
<1>3. ASSUME NEW p \in 0 .. NUM_BANKS * PPB - 1
      PROVE  BankOf(p) \in Banks /\ RowOf(p) \in Rows
  <2> DEFINE q == p \div PPB  r == p % PPB
  <2>1. p \in Nat /\ p < NUM_BANKS * PPB BY <1>1, <1>2
  <2>2. p = PPB * q + r /\ q \in Int /\ r \in 0 .. PPB - 1
    BY <1>1, <2>1, DivMod
  <2> HIDE DEF q, r
  <2>3. q \in Nat BY <1>1, <2>1, <2>2, SMTT(30)
  <2>4. q * PPB = PPB * q /\ q * PPB \in Nat BY <1>1, <2>3, Products
  <2>5. q * PPB < NUM_BANKS * PPB BY <1>1, <1>2, <2>1, <2>2, <2>4
  <2>6. q < NUM_BANKS BY <1>1, <2>3, <2>5, Products
  <2> QED BY <1>1, <2>2, <2>3, <2>6 DEF q, r, BankOf, RowOf, Banks, PPB
<1>4. ASSUME NEW b \in Banks, NEW r \in Rows
      PROVE  /\ b * PPB + r \in 0 .. NUM_BANKS * PPB - 1
             /\ BankOf(b * PPB + r) = b /\ RowOf(b * PPB + r) = r
  <2>1. b \in Nat /\ b < NUM_BANKS /\ r \in 0 .. PPB - 1 BY <1>1 DEF Banks
  <2>2. b * PPB + PPB <= NUM_BANKS * PPB /\ b * PPB \in Nat /\ b * PPB = PPB * b
    BY <1>1, <2>1, Products
  <2>3. (PPB * b + r) \div PPB = b /\ (PPB * b + r) % PPB = r
    <3>1. b \in Int /\ r \in 0 .. PPB - 1 /\ PPB \in Nat \ {0} BY <1>1, <2>1
    <3> QED BY <3>1, DivModUnique
  <2> QED BY <1>1, <1>2, <2>1, <2>2, <2>3 DEF BankOf, RowOf, PPB
<1> QED
  BY <1>1, <1>3, <1>4

\* A sector of a logical page is a logical sector, of that page only.
LEMMA SectorFacts ==
  ASSUME NEW l \in LPages, NEW s \in Sectors
  PROVE  /\ l * SPP + s \in LSectors
         /\ (l * SPP + s) \div SPP = l /\ (l * SPP + s) % SPP = s
<1>1. SPP \in Nat \ {0} /\ Sectors = 0 .. SPP - 1 /\ NUM_LPAGES \in Nat /\ NUM_LPAGES * SPP \in Nat
  BY GeometryFacts
<1>2. l \in Nat /\ l < NUM_LPAGES /\ s \in 0 .. SPP - 1 BY <1>1 DEF LPages
<1>3. l * SPP \in Nat /\ l * SPP + SPP <= NUM_LPAGES * SPP /\ l * SPP = SPP * l
  BY <1>1, <1>2, Products
<1>4. (SPP * l + s) \div SPP = l /\ (SPP * l + s) % SPP = s
  <2>1. l \in Int /\ s \in 0 .. SPP - 1 /\ SPP \in Nat \ {0} BY <1>1, <1>2
  <2> QED BY <2>1, DivModUnique
<1> QED BY <1>1, <1>2, <1>3, <1>4 DEF LSectors, SPP

\* A call that has sectors left is at a logical page.
LEMMA PlaceInside ==
  ASSUME NEW at \in Places, at.remain > 0, Inside(at)
  PROVE  at.lpage \in LPages
<1>1. SPP \in Nat \ {0} /\ Sectors = 0 .. SPP - 1 /\ NUM_LPAGES \in Nat /\ NUM_LPAGES * SPP \in Nat
  BY GeometryFacts
<1>2. at.lpage \in Nat /\ at.off \in Nat /\ at.remain \in Nat BY <1>1 DEF Places
<1>3. at.lpage * SPP \in Nat BY <1>1, <1>2, Products
<1>4. at.lpage * SPP < NUM_LPAGES * SPP BY <1>1, <1>2, <1>3 DEF Inside, First
<1>5. at.lpage < NUM_LPAGES BY <1>1, <1>2, <1>4, Products
<1> QED BY <1>1, <1>2, <1>5 DEF LPages

\* The loops' arithmetic.
LEMMA NextFacts ==
  ASSUME NEW at \in Places, at.remain > 0, Inside(at)
  PROVE  /\ Now(at) \in 1 .. at.remain /\ at.off + Now(at) <= SPP
         /\ NextPage(at) \in Places /\ Inside(NextPage(at))
         /\ NextPage(at).lpage = at.lpage + 1 /\ NextPage(at).off = 0
         /\ NextPage(at).remain = at.remain - Now(at)
         /\ NextPage(at).remain > 0 => First(NextPage(at)) = First(at) + Now(at)
         /\ NextPage(at).remain = 0 => Now(at) = at.remain
<1>1. SPP \in Nat \ {0} /\ Sectors = 0 .. SPP - 1 /\ NUM_LPAGES \in Nat /\ NUM_LPAGES * SPP \in Nat
  BY GeometryFacts
<1>2. /\ at.lpage \in Nat /\ at.off \in 0 .. SPP - 1 /\ at.remain \in Nat
      /\ at.lpage \in LPages /\ at.lpage < NUM_LPAGES
  BY <1>1, PlaceInside DEF Places, LPages
<1>3. Now(at) \in 1 .. at.remain /\ at.off + Now(at) <= SPP
      /\ (Now(at) = at.remain \/ Now(at) = SPP - at.off)
  BY <1>1, <1>2 DEF Now, SPP
<1>4. /\ NextPage(at).lpage = at.lpage + 1 /\ NextPage(at).off = 0
      /\ NextPage(at).remain = at.remain - Now(at)
  BY <1>1 DEF NextPage
<1>5. at.remain - Now(at) \in Nat /\ 0 \in Sectors BY <1>1, <1>2, <1>3
<1>6. NextPage(at) \in Places BY <1>1, <1>2, <1>5 DEF NextPage, Places
<1>7. /\ at.lpage * SPP \in Nat /\ (at.lpage + 1) * SPP = at.lpage * SPP + SPP
      /\ at.lpage * SPP + SPP <= NUM_LPAGES * SPP
  BY <1>1, <1>2, Products
<1>8. First(NextPage(at)) = at.lpage * SPP + SPP BY <1>1, <1>4, <1>7 DEF First
<1>9. CASE Now(at) = at.remain
  BY <1>1, <1>2, <1>3, <1>4, <1>6, <1>7, <1>8, <1>9 DEF Inside
<1>10. CASE Now(at) = SPP - at.off
  <2>1. NextPage(at).remain = at.remain - (SPP - at.off) BY <1>4, <1>10
  <2> DEFINE x == at.lpage * SPP
  <2>2. /\ x \in Int /\ First(at) = x + at.off /\ First(NextPage(at)) = x + SPP
        /\ at.off \in Int /\ at.remain \in Int /\ SPP \in Int
    BY <1>1, <1>2, <1>7, <1>8 DEF First
  <2> HIDE DEF x
  <2>3. First(NextPage(at)) + NextPage(at).remain = First(at) + at.remain
    BY <2>1, <2>2
  <2>4. Inside(NextPage(at)) BY <2>3 DEF Inside
  <2>5. First(NextPage(at)) = First(at) + Now(at)
    BY <1>10, <2>2
  <2> QED BY <1>2, <1>3, <1>4, <1>6, <2>4, <2>5
<1> QED BY <1>1, <1>3, <1>9, <1>10

\* How a call begins.
LEMMA Span0Facts ==
  ASSUME NEW lba, NEW n, InDevice(lba, n)
  PROVE  /\ Span0(lba, n) \in Places /\ Inside(Span0(lba, n))
         /\ First(Span0(lba, n)) = lba /\ Span0(lba, n).remain = n
         /\ Span0(lba, n).off = lba % SPP
         /\ lba \in LSectors /\ n \in Nat \ {0} /\ lba + n <= NUM_LPAGES * SPP
<1>1. SPP \in Nat \ {0} /\ Sectors = 0 .. SPP - 1 /\ NUM_LPAGES \in Nat /\ NUM_LPAGES * SPP \in Nat
  BY GeometryFacts
<1>2. lba \in LSectors /\ n \in Nat \ {0} /\ lba + n <= NUM_LPAGES * SPP /\ lba \in Nat
  BY <1>1 DEF InDevice, LSectors, SPP
<1> DEFINE q == lba \div SPP  r == lba % SPP
<1>3. lba = SPP * q + r /\ q \in Int /\ r \in 0 .. SPP - 1
  <2>1. lba \in Int /\ SPP \in Nat \ {0} BY <1>1, <1>2
  <2> QED BY <2>1, DivMod
<1>4. Span0(lba, n) = [lpage |-> q, off |-> r, remain |-> n] BY <1>1 DEF Span0, SPP
<1> HIDE DEF q, r
<1>5. q \in Nat BY <1>1, <1>2, <1>3, SMTT(30)
<1>6. q * SPP = SPP * q BY <1>1, <1>5, Products
<1> QED BY <1>1, <1>2, <1>3, <1>4, <1>5, <1>6 DEF Places, Inside, First, q, r

\* The target bank goes round the banks; NewBank is the one before.
LEMMA BankRound ==
  ASSUME NEW b \in Banks
  PROVE  /\ (b + 1) % NUM_BANKS \in Banks
         /\ (b + NUM_BANKS - 1) % NUM_BANKS \in Banks
         /\ (((b + 1) % NUM_BANKS) + NUM_BANKS - 1) % NUM_BANKS = b
<1>1. NUM_BANKS \in Nat \ {0}
  BY GeometryFacts
<1>2. b \in 0 .. NUM_BANKS - 1 BY <1>1 DEF Banks
<1>3. (b + 1) % NUM_BANKS \in Banks /\ (b + NUM_BANKS - 1) % NUM_BANKS \in Banks
  BY <1>1, <1>2, DivMod DEF Banks
<1>4. CASE b + 1 < NUM_BANKS
  <2>1. (b + 1) % NUM_BANKS = b + 1 BY <1>1, <1>2, <1>4, ModSmall
  <2>2. b + 1 + NUM_BANKS - 1 = NUM_BANKS * 1 + b BY <1>1, <1>2
  <2>3. (NUM_BANKS * 1 + b) % NUM_BANKS = b BY <1>1, <1>2, DivModUnique
  <2> QED BY <1>1, <1>3, <2>1, <2>2, <2>3
<1>5. CASE b + 1 = NUM_BANKS
  <2>1. (b + 1) % NUM_BANKS = 0 BY <1>1, <1>5, ModSmall
  <2>2. 0 + NUM_BANKS - 1 = b BY <1>1, <1>2, <1>5
  <2>3. b % NUM_BANKS = b BY <1>1, <1>2, ModSmall
  <2> QED BY <1>1, <1>3, <2>1, <2>2, <2>3
<1> QED BY <1>1, <1>2, <1>4, <1>5

-----------------------------------------------------------------------------
(* Commands of the flash controller *)

\* What a command is.
LEMMA CommandFacts ==
  /\ NoCmd \notin Commands /\ NoCmd.fc = "none"
  /\ \A c \in Commands : /\ c.fc \in {"READ", "PROG"} /\ c.bank \in Banks /\ c.row \in Rows
                         /\ c.buf \in Buffers /\ c.col \in Nat /\ c.cnt \in Nat
                         /\ c.page \in Nat /\ c # NoCmd
<1>1. NoCmd.fc = "none" BY DEF NoCmd
<1>2. \A c \in Commands : /\ c.fc \in {"READ", "PROG"} /\ c.bank \in Banks /\ c.row \in Rows
                          /\ c.buf \in Buffers /\ c.col \in Nat /\ c.cnt \in Nat
                          /\ c.page \in Nat
  BY DEF Commands
<1> QED BY <1>1, <1>2

\* What Cmd makes.
LEMMA CmdMade ==
  ASSUME NEW fc \in {"READ", "PROG"}, NEW b \in Banks, NEW row \in Rows, NEW col \in Nat,
         NEW cnt \in Nat, NEW buf \in Buffers, NEW page \in Nat
  PROVE  LET c == Cmd(fc, b, row, col, cnt, buf, page)
         IN /\ c \in Commands
            /\ c.fc = fc /\ c.bank = b /\ c.row = row /\ c.col = col /\ c.cnt = cnt
            /\ c.buf = buf /\ c.page = page
BY DEF Cmd, Commands

\* The program commands are in the Waiting Room or with the banks.
LEMMA PendingFacts ==
  ASSUME FlashTypes
  PROVE  /\ \A c : c \in Pending <=> c.fc = "PROG" /\ (c = wroom \/ \E b \in Banks : c = bsp[b])
         /\ \A c \in Pending : c \in Commands
<1>1. \A c : c \in Pending <=> c.fc = "PROG" /\ (c = wroom \/ \E b \in Banks : c = bsp[b])
  BY DEF Pending, UnderWay
<1> QED BY <1>1, CommandFacts DEF FlashTypes

\* Accept moves a command and nothing else.
LEMMA AcceptFacts ==
  ASSUME FlashTypes, Accept
  PROVE  /\ FlashTypes' /\ wroom' = NoCmd
         /\ \A c : c \in Pending' => c \in Pending
         /\ UNCHANGED <<flash, dram>>
<1>1. wroom \in Commands /\ wroom.bank \in Banks /\ bsp[wroom.bank] = NoCmd
  BY CommandFacts DEF FlashTypes, Accept
<1>2. bsp' = [bsp EXCEPT ![wroom.bank] = wroom] /\ wroom' = NoCmd /\ UNCHANGED <<flash, dram>>
  BY DEF Accept
<1>3. FlashTypes' BY <1>1, <1>2 DEF FlashTypes
<1>4. \A c : c \in Pending' => c \in Pending
  BY <1>1, <1>2, CommandFacts DEF Pending, UnderWay, FlashTypes
<1> QED BY <1>2, <1>3, <1>4

\* What the page becomes that a bank programs, and the buffer that it reads into
Programmed(c) == [s \in Sectors |-> IF s \in Span(c) THEN dram[c.buf][s]
                                    ELSE flash[c.bank][c.row][s]]
Filled(c) == [s \in Sectors |-> IF s \in Span(c) THEN flash[c.bank][c.row][s]
                                ELSE dram[c.buf][s]]

\* A bank that finishes moves the data of its command.
LEMMA CompleteFacts ==
  ASSUME FlashTypes, NEW b \in Banks, Complete(b)
  PROVE  /\ FlashTypes' /\ wroom' = wroom /\ bsp[b] \in Commands /\ bsp[b].bank = b
         /\ bsp' = [bsp EXCEPT ![b] = NoCmd]
         /\ \A c : c \in Pending' => c \in Pending
         /\ \A x \in Banks, r \in Rows :
              flash'[x][r] = IF bsp[b].fc = "PROG" /\ x = b /\ r = bsp[b].row
                             THEN Programmed(bsp[b]) ELSE flash[x][r]
         /\ \A buf \in Buffers :
              dram'[buf] = IF bsp[b].fc = "READ" /\ buf = bsp[b].buf
                           THEN Filled(bsp[b]) ELSE dram[buf]
<1> DEFINE c == bsp[b]
<1>1. c \in Commands /\ c.bank = b /\ c.fc \in {"READ", "PROG"} /\ c.row \in Rows /\ c.buf \in Buffers
  BY CommandFacts DEF FlashTypes, Complete
<1>2. bsp' = [bsp EXCEPT ![b] = NoCmd] /\ wroom' = wroom BY DEF Complete
<1>3. Programmed(c) \in Pages /\ Filled(c) \in Pages
  BY <1>1 DEF Programmed, Filled, Pages, FlashTypes
<1>4. /\ flash' \in [Banks -> [Rows -> Pages]] /\ dram' \in [Buffers -> Pages]
      /\ \A x \in Banks, r \in Rows :
           flash'[x][r] = IF c.fc = "PROG" /\ x = b /\ r = c.row
                          THEN Programmed(c) ELSE flash[x][r]
      /\ \A buf \in Buffers :
           dram'[buf] = IF c.fc = "READ" /\ buf = c.buf THEN Filled(c) ELSE dram[buf]
  <2>1. CASE c.fc = "PROG"
    <3>1. flash' = [flash EXCEPT ![b][c.row] = Programmed(c)] /\ dram' = dram
      BY <1>1, <2>1 DEF Complete, Program, Programmed, FlashTypes
    <3> QED BY <1>1, <1>3, <2>1, <3>1 DEF FlashTypes
  <2>2. CASE c.fc = "READ"
    <3>1. dram' = [dram EXCEPT ![c.buf] = Filled(c)] /\ flash' = flash
      BY <1>1, <2>2 DEF Complete, ReadOut, Filled, FlashTypes
    <3> QED BY <1>1, <1>3, <2>2, <3>1 DEF FlashTypes
  <2> QED BY <1>1, <2>1, <2>2
<1>5. FlashTypes' BY <1>1, <1>2, <1>4 DEF FlashTypes
<1>6. \A d : d \in Pending' => d \in Pending
  BY <1>1, <1>2, CommandFacts DEF Pending, UnderWay, FlashTypes
<1> QED BY <1>1, <1>2, <1>4, <1>5, <1>6

\* A command is issued to the Waiting Room.
LEMMA IssueFacts ==
  ASSUME FlashTypes, NEW cmd \in Commands, flash_issue_cmd(cmd), UNCHANGED <<bsp, flash, dram>>
  PROVE  /\ FlashTypes' /\ wroom = NoCmd /\ wroom' = cmd
         /\ \A c : c \in Pending' => c \in Pending \/ (c = cmd /\ cmd.fc = "PROG")
BY DEF FlashTypes, flash_issue_cmd, Pending, UnderWay

-----------------------------------------------------------------------------
(* Rows *)

RowInv == RowsAhead /\ PendingApart /\ RowsUsable

\* Rows stay in order where no page is taken and no program command is added.
LEMMA RowsSteady ==
  ASSUME Types, RowInv, FlashTypes', UNCHANGED <<flash, g_target_row, g_target_bank>>,
         \A c : c \in Pending' => c \in Pending,
         wroom'.fc = "PROG" => UNCHANGED <<wroom, bsp>>,
         Chosen' => Chosen
  PROVE  RowInv'
<1>1. RowsAhead' BY DEF RowInv, RowsAhead, Free, Usable, NewRow, NewBank
<1>2. PendingApart' BY DEF RowInv, PendingApart, NoReprogram
<1>3. RowsUsable' BY DEF RowInv, RowsUsable, Usable
<1> QED BY <1>1, <1>2, <1>3 DEF RowInv

\* A bank that finishes programs its own page and no other.
LEMMA RowsComplete ==
  ASSUME Types, RowInv, NEW b \in Banks, Complete(b),
         UNCHANGED <<g_target_row, g_target_bank, op>>
  PROVE  RowInv'
<1> USE DEF Types, RowInv
<1>1. /\ FlashTypes' /\ wroom' = wroom /\ bsp[b] \in Commands /\ bsp[b].bank = b
      /\ bsp' = [bsp EXCEPT ![b] = NoCmd]
      /\ \A c : c \in Pending' => c \in Pending
      /\ \A x \in Banks, r \in Rows :
           flash'[x][r] = IF bsp[b].fc = "PROG" /\ x = b /\ r = bsp[b].row
                          THEN Programmed(bsp[b]) ELSE flash[x][r]
  BY CompleteFacts
<1>2. bsp[b].fc = "PROG" => bsp[b] \in Pending BY DEF Pending, UnderWay
<1>3. \A x \in Banks, r \in Rows : Free(x, r) => Free(x, r)'
  BY <1>1, <1>2 DEF Free
<1>4. RowsAhead'
  <2>1. NewBank \in Banks BY BankRound DEF FtlTypes, NewBank
  <2>2. NewBank' = NewBank /\ NewRow' = NewRow BY DEF NewBank, NewRow
  <2>3. \A x \in Banks, row \in Rows : row >= g_target_row'[x] => Free(x, row)'
    BY <1>3 DEF RowsAhead
  <2>4. Chosen' => NewRow' \in Rows /\ Free(NewBank, NewRow)' /\ Usable(NewBank, NewRow)'
    BY <1>3, <2>1, <2>2 DEF RowsAhead, Chosen, Usable
  <2> QED BY <2>3, <2>4 DEF RowsAhead
<1>5. ASSUME NEW c \in Pending' PROVE flash'[c.bank][c.row] = ErasedPage
  <2>1. c \in Pending /\ c.bank \in Banks /\ c.row \in Rows
    BY <1>1, PendingFacts, CommandFacts
  <2>2. c = wroom \/ \E x \in Banks \ {b} : c = bsp[x]
    <3>1. c.fc = "PROG" /\ (c = wroom' \/ \E x \in Banks : c = bsp'[x])
      BY <1>5 DEF Pending, UnderWay
    <3>2. c # NoCmd BY <3>1, CommandFacts
    <3> QED BY <1>1, <3>1, <3>2 DEF FlashTypes
  <2>3. ~(bsp[b].fc = "PROG" /\ c.bank = b /\ c.row = bsp[b].row)
    BY <2>1, <2>2, PendingFacts, CommandFacts DEF PendingApart, FlashTypes
  <2> QED BY <1>1, <2>1, <2>3 DEF PendingApart, NoReprogram
<1>6. PendingApart'
  BY <1>1, <1>5, CommandFacts DEF PendingApart, NoReprogram, FlashTypes
<1>7. RowsUsable' BY <1>1 DEF RowsUsable, Usable
<1> QED BY <1>4, <1>6, <1>7
\* Rows after one another lie in one vblock but for the first of a vblock.
LEMMA SameVblock ==
  ASSUME NEW N \in Nat \ {0}, NEW r \in Nat, (r + 1) % N # 0
  PROVE  (r + 1) \div N = r \div N
<1> DEFINE q == r \div N  m == r % N
<1>1. r = N * q + m /\ q \in Int /\ m \in 0 .. N - 1
  <2>1. r \in Int OBVIOUS
  <2> QED BY <2>1, DivMod
<1> HIDE DEF q, m
<1>2. m # N - 1
  <2> SUFFICES ASSUME m = N - 1 PROVE FALSE OBVIOUS
  <2>1. r + 1 = N * (q + 1) + 0 BY <1>1, SMTT(30)
  <2>2. q + 1 \in Int /\ 0 \in 0 .. N - 1 BY <1>1
  <2> QED BY <2>1, <2>2, DivModUnique
<1>3. m + 1 \in 0 .. N - 1 BY <1>1, <1>2
<1>4. r + 1 = N * q + (m + 1) BY <1>1, SMTT(30)
<1>5. (r + 1) \div N = q BY <1>1, <1>3, <1>4, DivModUnique
<1> QED BY <1>5 DEF q

\* The first row of a vblock, and the row behind the last vblock.
LEMMA FirstRow ==
  ASSUME NEW N \in Nat \ {0}, NEW V \in Nat, NEW r \in Nat, r <= V * N, r % N = 0
  PROVE  r \div N \in Nat /\ r = (r \div N) * N /\ r \div N <= V
<1>1. r \in Int /\ N \in Nat \ {0} OBVIOUS
<1>2. r = N * (r \div N) + (r % N) BY <1>1, DivMod, Zenon
<1>3. r \div N \in Int BY <1>1, DivMod, Zenon
<1> DEFINE q == r \div N
<1> HIDE DEF q
<1>4. r = N * q + 0 BY <1>2, Zenon DEF q
<1>5. q \in Int BY <1>3 DEF q
<1>6. r = N * q BY <1>4, <1>5
<1>7. q \in Nat BY <1>1, <1>5, <1>6, SMTT(30)
<1>8. r = q * N BY <1>6, <1>7, Products
<1>9. q <= V
  <2>1. V < q => V * N + N <= q * N BY <1>7, Products
  <2>2. V * N \in Nat BY Products
  <2> QED BY <1>7, <1>8, <2>1, <2>2
<1> QED BY <1>7, <1>8, <1>9 DEF q

\* get_free_page finds the next row that may be used, or none.
LEMMA FreeRowFacts ==
  ASSUME FtlTypes, RowsUsable, NEW b \in Banks
  PROVE  /\ FreeRow(b) \in Nat /\ FreeRow(b) >= g_target_row[b]
         /\ FreeRow(b) < PPB =>
              /\ FreeRow(b) \in Rows /\ FreeRow(b) + 1 \in 0 .. PPB /\ Usable(b, FreeRow(b))
              /\ (FreeRow(b) + 1) % PAGES_PER_VBLK # 0 => Usable(b, FreeRow(b) + 1)
<1> DEFINE row == g_target_row[b]
           N == PAGES_PER_VBLK
           Good == {v \in row \div N .. VBLKS_PER_BANK :
                      v = VBLKS_PER_BANK \/ ~is_bad_block(b, v)}
<1>1. /\ N \in Nat \ {0} /\ PPB \in Nat \ {0} /\ VBLKS_PER_BANK \in Nat
      /\ PPB = VBLKS_PER_BANK * N /\ Rows = 0 .. PPB - 1
  BY GeometryFacts
<1>2. row \in Nat /\ row <= PPB BY <1>1 DEF FtlTypes
<1>3. FreeRow(b) = IF row % N # 0 THEN row ELSE Min(Good) * N BY DEF FreeRow
<1> HIDE DEF N, Good, row
<1>4. FreeRow(b) \in Nat /\ FreeRow(b) >= row /\ (FreeRow(b) < PPB => Usable(b, FreeRow(b)))
  <2>1. CASE row % N # 0
    BY <1>2, <1>3, <2>1 DEF RowsUsable, N, row
  <2>2. CASE row % N = 0
    <3> DEFINE q == row \div N
    <3>1. q \in Nat /\ row = q * N /\ q <= VBLKS_PER_BANK
      BY <1>1, <1>2, <2>2, FirstRow
    <3>2. row = q * N BY <3>1
    <3> HIDE DEF q
    <3>3. q \in Nat /\ q <= VBLKS_PER_BANK BY <3>1
    <3>4. Good \in SUBSET Nat /\ VBLKS_PER_BANK \in Good
      BY <1>1, <3>3 DEF Good, q
    <3>5. Min(Good) \in Good BY <3>4, LeastNat DEF Min
    <3> DEFINE v == Min(Good)
    <3>6. v \in Nat /\ v >= q /\ (v = VBLKS_PER_BANK \/ ~is_bad_block(b, v))
      BY <1>1, <3>3, <3>5 DEF Good, q
    <3>7. FreeRow(b) = v * N BY <1>3, <2>2
    <3> HIDE DEF v
    <3>8. v * N \in Nat /\ v * N >= q * N
      <4>1. q < v => q * N + N <= v * N BY <1>1, <3>3, <3>6, Products
      <4>2. v * N \in Nat /\ q * N \in Nat BY <1>1, <3>3, <3>6, Products
      <4> QED BY <1>1, <3>3, <3>6, <4>1, <4>2
    <3>9. ASSUME v * N < PPB PROVE Usable(b, v * N)
      <4>1. (N * v + 0) \div N = v /\ v * N = N * v
        <5>1. v \in Int /\ 0 \in 0 .. N - 1 BY <1>1, <3>6
        <5>2. v * N = N * v BY <1>1, <3>6, Products
        <5> QED BY <1>1, <5>1, <5>2, DivModUnique
      <4>2. N * v + 0 = v * N BY <1>1, <3>8, <4>1
      <4>3. (v * N) \div PAGES_PER_VBLK = v BY <4>1, <4>2 DEF N
      <4>4. ~is_bad_block(b, v) BY <1>1, <3>6, <3>9
      <4>5. ASSUME BadBlock(b, v) PROVE v = Last(scan_list[b]) \div 2
        <5>1. scan_list[b] \in Seq(Int) BY ScanLists, GeometryFacts
        <5> DEFINE s == scan_list[b]
        <5>2. Len(s) \in Nat /\ DOMAIN s = 1 .. Len(s) /\ \A i \in 1 .. Len(s) : s[i] \in Int
          BY <5>1
        <5>3. PICK i \in 1 .. Len(s) : s[i] \in {2 * v, 2 * v + 1}
          BY <4>5, <5>2 DEF BadBlock, Range
        <5>4. ~(i \in 1 .. Len(s) - 1)
          BY <4>4, <5>3 DEF is_bad_block, Searched
        <5>5. i = Len(s) BY <5>2, <5>3, <5>4
        <5>6. Last(s) \in {2 * v, 2 * v + 1} BY <5>3, <5>5 DEF Last
        <5> HIDE DEF s
        <5> QED BY <3>6, <5>6 DEF s
      <4> QED BY <4>3, <4>5 DEF Usable
    <3> QED BY <3>2, <3>7, <3>8, <3>9
  <2> QED BY <2>1, <2>2
<1>5. ASSUME FreeRow(b) < PPB, (FreeRow(b) + 1) % N # 0 PROVE Usable(b, FreeRow(b) + 1)
  <2>1. (FreeRow(b) + 1) \div N = FreeRow(b) \div N BY <1>1, <1>4, <1>5, SameVblock
  <2> QED BY <1>4, <1>5, <2>1 DEF Usable, N
<1> QED BY <1>1, <1>4, <1>5 DEF N, row

\* StartPage takes the next row that may be used.
LEMMA RowsStartPage ==
  ASSUME Types, RowInv, StartPage
  PROVE  RowInv'
<1> DEFINE b == g_target_bank  row == FreeRow(b)
<1> USE DEF Types
<1>1. b \in Banks /\ row \in Nat /\ row >= g_target_row[b] /\ PPB \in Nat \ {0}
  BY FreeRowFacts, GeometryFacts DEF RowInv, FtlTypes
<1>2. /\ UNCHANGED <<wroom, bsp, flash>> /\ g_target_bank' = (b + 1) % NUM_BANKS
      /\ op.call \in {"write", "copy"} /\ op.pc = "page"
  BY DEF StartPage
<1>3. /\ \A c : c \in Pending' <=> c \in Pending
      /\ NewBank' = b
  BY <1>1, <1>2, BankRound DEF Pending, UnderWay, NewBank
<1>4. CASE row >= PPB
  <2>1. UNCHANGED g_target_row /\ op' = [op EXCEPT !.pc = "stopped"]
    BY <1>4 DEF StartPage, PPB
  <2>2. ~Chosen'
    <3>1. op'.pc = "stopped" BY <2>1 DEF CallTypes, ReadCalls, WriteCalls, CopyReads, CopyWrites
    <3> QED BY <3>1 DEF Chosen
  <2>3. RowsAhead' BY <1>2, <1>3, <2>1, <2>2 DEF RowInv, RowsAhead, Free
  <2>4. PendingApart' BY <1>2, <1>3 DEF RowInv, PendingApart, NoReprogram
  <2>5. RowsUsable' BY <1>2, <1>3, <2>1 DEF RowInv, RowsUsable, Usable
  <2> QED BY <2>3, <2>4, <2>5 DEF RowInv
<1>5. CASE row < PPB
  <2>1. g_target_row' = [g_target_row EXCEPT ![b] = row + 1]
    BY <1>1, <1>5 DEF StartPage, PPB
  <2>2. /\ row \in Rows /\ row + 1 \in 0 .. PPB /\ Usable(b, row)
        /\ (row + 1) % PAGES_PER_VBLK # 0 => Usable(b, row + 1)
    BY <1>1, <1>5, FreeRowFacts DEF RowInv
  <2>3. g_target_row' \in [Banks -> 0 .. PPB] /\ g_target_row'[b] = row + 1
        /\ \A x \in Banks \ {b} : g_target_row'[x] = g_target_row[x]
    BY <1>1, <2>1, <2>2 DEF FtlTypes
  <2> HIDE DEF b, row
  <2>4. NewRow' = row BY <1>1, <1>3, <2>3 DEF NewRow
  <2>5. Free(b, row) BY <1>1, <2>2 DEF RowInv, RowsAhead
  <2>6. Free(NewBank, NewRow)' /\ Usable(NewBank, NewRow)' /\ NewRow' \in Rows
    BY <1>2, <1>3, <2>2, <2>4, <2>5 DEF Free, Usable
  <2>7. ASSUME NEW x \in Banks, NEW r \in Rows, r >= g_target_row'[x] PROVE Free(x, r)'
    <3>1. r >= g_target_row[x] /\ r \in Nat
      BY <1>1, <2>3, <2>7, GeometryFacts DEF FtlTypes
    <3> QED BY <1>2, <1>3, <3>1 DEF RowInv, RowsAhead, Free
  <2>8. RowsAhead' BY <2>6, <2>7 DEF RowsAhead
  <2>9. PendingApart' BY <1>2, <1>3 DEF RowInv, PendingApart, NoReprogram
  <2>10. RowsUsable' BY <1>2, <1>3, <2>2, <2>3 DEF RowInv, RowsUsable, Usable
  <2> QED BY <2>8, <2>9, <2>10 DEF RowInv
<1> QED BY <1>1, <1>4, <1>5

\* ProgramPage issues the command for the row that StartPage has taken.
LEMMA RowsProgramPage ==
  ASSUME Types, RowInv, Chosen, ~Chosen',
         NEW cmd \in Commands, cmd.fc = "PROG", cmd.bank = NewBank, cmd.row = NewRow,
         flash_issue_cmd(cmd), UNCHANGED <<bsp, flash, dram, g_target_bank, g_target_row>>
  PROVE  RowInv'
<1> USE DEF Types
<1>1. /\ FlashTypes' /\ wroom' = cmd /\ wroom = NoCmd
      /\ \A c : c \in Pending' => c \in Pending \/ c = cmd
  BY IssueFacts
<1>2. NewRow \in Rows /\ Free(NewBank, NewRow) /\ Usable(NewBank, NewRow)
      /\ NewBank \in Banks
  BY BankRound DEF RowInv, RowsAhead, FtlTypes, NewBank
<1>3. NewRow < g_target_row[NewBank]
  BY <1>2, GeometryFacts DEF NewRow, FtlTypes
<1>4. RowsAhead'
  <2>1. ASSUME NEW x \in Banks, NEW r \in Rows, r >= g_target_row[x] PROVE Free(x, r)'
    <3>1. Free(x, r) BY <2>1 DEF RowInv, RowsAhead
    <3>2. ~(cmd.bank = x /\ cmd.row = r)
      BY <1>2, <1>3, <2>1, GeometryFacts DEF FtlTypes
    <3> QED BY <1>1, <3>1, <3>2 DEF Free
  <2> QED BY <2>1 DEF RowsAhead
<1>5. NoReprogram' BY <1>1, <1>2 DEF RowInv, PendingApart, NoReprogram, Free
<1>6. ASSUME NEW x \in Banks, bsp[x].fc = "PROG", cmd.bank = x PROVE cmd.row # bsp[x].row
  <2>1. bsp[x] \in Pending /\ bsp[x].bank = x
    BY <1>6, CommandFacts DEF Pending, UnderWay, FlashTypes
  <2> QED BY <1>2, <1>6, <2>1 DEF Free
<1>7. PendingApart' BY <1>1, <1>5, <1>6 DEF PendingApart
<1>8. RowsUsable' BY <1>1, <1>2 DEF RowInv, RowsUsable, Usable
<1> QED BY <1>4, <1>7, <1>8 DEF RowInv

-----------------------------------------------------------------------------
(* Types *)

\* What each call keeps.
LEMMA CallFacts ==
  ASSUME CallTypes
  PROVE  /\ op.call \in {"none", "write", "read", "copy"}
         /\ op.call = "none" => op = [call |-> "none"]
         /\ op.call = "read" => op \in ReadCalls
         /\ op.call = "write" => op \in WriteCalls
         /\ op.call = "copy" => \/ op \in CopyReads /\ CopyReading
                                \/ op \in CopyWrites /\ CopyWriting
         /\ op.call # "none" => op.at \in Places /\ Inside(op.at)
         /\ op.call \in {"read", "write"} => op.at.remain > 0
         /\ op.call = "copy" /\ op.pc \notin {"read", "finish"} =>
              op \in CopyWrites /\ CopyWriting /\ op.at.remain > 0
         /\ op.call = "copy" /\ op.pc \in {"read", "finish"} =>
              op \in CopyReads /\ CopyReading
         /\ op.call = "copy" /\ op.pc = "read" => op.at.remain > 0
<1>1. CASE op = [call |-> "none"] BY <1>1
<1>2. CASE op \in ReadCalls /\ op.at.remain > 0 /\ Inside(op.at)
  BY <1>2 DEF ReadCalls
<1>3. CASE op \in WriteCalls /\ op.at.remain > 0 /\ Inside(op.at)
  BY <1>3 DEF WriteCalls
<1>4. CASE op \in CopyReads /\ CopyReading /\ Inside(op.at)
  <2>1. op.call = "copy" /\ op.pc \in {"read", "finish"} /\ op.at \in Places
    BY <1>4 DEF CopyReads
  <2> QED BY <1>4, <2>1 DEF CopyReading
<1>5. CASE op \in CopyWrites /\ CopyWriting /\ Inside(op.at)
  <2>1. /\ op.call = "copy" /\ op.at \in Places
        /\ op.pc \in {"page", "left", "right", "prog", "stopped", "done"}
    BY <1>5 DEF CopyWrites
  <2> QED BY <1>5, <2>1 DEF CopyWriting
<1> QED BY <1>1, <1>2, <1>3, <1>4, <1>5 DEF CallTypes

\* A call that has not moved.
LEMMA CallSteady ==
  ASSUME CallTypes, UNCHANGED op
  PROVE  CallTypes'
BY DEF CallTypes, CopyReads, CopyWrites, CopyReading, CopyWriting

\* The next step of a page that is written.
LEMMA PcMoves ==
  ASSUME CallTypes, op.call \in {"write", "copy"}, op.pc \notin {"read", "finish"},
         NEW pc \in {"page", "left", "right", "prog", "stopped", "done"},
         pc = "done" => op.call = "copy", op' = [op EXCEPT !.pc = pc]
  PROVE  /\ CallTypes' /\ op'.call = op.call /\ op'.pc = pc
<1>1. CASE op.call = "write"
  <2>1. op \in WriteCalls /\ op.at.remain > 0 /\ Inside(op.at) BY <1>1, CallFacts
  <2>2. op' \in WriteCalls /\ op'.at = op.at /\ op'.call = op.call /\ op'.pc = pc
    BY <2>1 DEF WriteCalls
  <2> QED BY <2>1, <2>2 DEF CallTypes, Inside, First
<1>2. CASE op.call = "copy"
  <2>1. op \in CopyWrites /\ CopyWriting /\ Inside(op.at) BY <1>2, CallFacts
  <2>2. op' \in CopyWrites' /\ op'.at = op.at /\ op'.call = op.call /\ op'.pc = pc
        /\ op'.src = op.src /\ op'.to = op.to /\ op'.old = op.old
    BY <2>1 DEF CopyWrites
  <2>3. CopyWriting' BY <2>1, <2>2 DEF CopyWriting, First
  <2> QED BY <2>1, <2>2, <2>3 DEF CallTypes, Inside, First
<1> QED BY <1>1, <1>2

\* The buffers.
LEMMA BufferFacts ==
  /\ \A i \in 0 .. NUM_WR_BUFFERS - 1 : WR_BUF(i) \in Buffers
  /\ \A i \in 0 .. NUM_RD_BUFFERS - 1 : RD_BUF(i) \in Buffers
  /\ \A p \in 0 .. NUM_LPAGES : COMP(p) \in Buffers
  /\ ISSD_WR_BUF \in Buffers
  /\ \A n \in Nat : n % NUM_WR_BUFFERS \in 0 .. NUM_WR_BUFFERS - 1
                    /\ n % NUM_RD_BUFFERS \in 0 .. NUM_RD_BUFFERS - 1
<1>1. \A n \in Nat : n % NUM_WR_BUFFERS \in 0 .. NUM_WR_BUFFERS - 1
                     /\ n % NUM_RD_BUFFERS \in 0 .. NUM_RD_BUFFERS - 1
  <2>1. NUM_WR_BUFFERS \in Nat \ {0} /\ NUM_RD_BUFFERS \in Nat \ {0} BY GeometryFacts
  <2> QED BY <2>1, DivMod
<1> QED BY <1>1, BuffersAndData DEF FtlBuffers

\* Data: what the host writes and what a page may hold besides.
LEMMA DataFacts ==
  /\ Erased \in Data /\ Cleared \in Data
  /\ ErasedPage \in Pages /\ [s \in Sectors |-> Cleared] \in Pages
  /\ \A id \in 1 .. MaxOps, s \in LSectors : <<id, s>> \in Data
BY BuffersAndData DEF Written, ErasedPage, Pages

\* Where the pages of the call lie.
LEMMA PageFacts ==
  ASSUME Types, op.call # "none", op.at.remain > 0
  PROVE  /\ op.at.lpage \in LPages /\ op.at.lpage \in Nat
         /\ op.at.off \in Sectors /\ op.at.remain \in Nat \ {0}
         /\ Old \in 0 .. NUM_BANKS * PPB - 1
         /\ BankOf(Old) \in Banks /\ RowOf(Old) \in Rows
         /\ Now(op.at) \in Nat \ {0} /\ Left = op.at.off
         /\ Left \in Nat /\ Right \in 0 .. SPP - 1
         /\ (op.call \in {"write", "copy"} => Buf \in Buffers)
<1>1. op.at \in Places /\ Inside(op.at) BY CallFacts DEF Types
<1>2. op.at.lpage \in LPages BY <1>1, PlaceInside
<1>3. /\ op.at.lpage \in Nat /\ op.at.off \in Sectors /\ op.at.remain \in Nat \ {0}
      /\ op.at.off \in Nat
  BY <1>1, GeometryFacts DEF Places
<1>4. Old \in 0 .. NUM_BANKS * PPB - 1 BY <1>2 DEF Types, FtlTypes, Old
<1>5. BankOf(Old) \in Banks /\ RowOf(Old) \in Rows BY <1>4, PhysFacts
<1>6. Now(op.at) \in Nat \ {0}
  <2>1. Now(op.at) \in 1 .. op.at.remain BY <1>1, NextFacts
  <2> QED BY <1>3, <2>1
<1>7. Right \in 0 .. SPP - 1
  <2>1. SPP \in Nat \ {0} BY GeometryFacts
  <2> QED BY <1>3, <2>1 DEF Right, SPP
<1>8. Buf \in Buffers BY BufferFacts DEF Buf, Types, FtlTypes
<1> QED BY <1>2, <1>3, <1>4, <1>5, <1>6, <1>7, <1>8 DEF Left

-----------------------------------------------------------------------------
(* The hardware's steps *)

\* The page of write data that arrives is one of a write in the device.
LEMMA HostSendsKeeps ==
  ASSUME IInv, HostSends
  PROVE  IInv'
<1> DEFINE w == Head(wrPages)  buf == WR_BUF(received % NUM_WR_BUFFERS)
           new == [s \in Sectors |-> IF s \in w.col .. w.col + w.cnt - 1
                     THEN <<w.id, w.lpage * SECTORS_PER_PAGE + s>> ELSE dram[buf][s]]
<1>1. w \in Packets /\ Tail(wrPages) \in Seq(Packets) /\ received + 1 \in Nat
  BY HeadTailProperties DEF IInv, Types, SataTypes, HostSends
<1>2. buf \in Buffers BY BufferFacts DEF IInv, Types, SataTypes
<1>3. dram \in [Buffers -> Pages] BY DEF IInv, Types, FlashTypes
<1>4. dram' = [dram EXCEPT ![buf] = new]
  BY <1>2, <1>3 DEF HostSends
<1>5. new \in Pages
  <2>1. w.id \in 1 .. MaxOps /\ w.lpage \in LPages BY <1>1 DEF Packets
  <2>2. dram[buf] \in [Sectors -> Data] BY <1>2, <1>3 DEF Pages
  <2>3. \A s \in Sectors : <<w.id, w.lpage * SECTORS_PER_PAGE + s>> \in Data
    BY <2>1, SectorFacts, DataFacts DEF SPP
  <2> HIDE DEF w, buf
  <2> QED BY <2>2, <2>3 DEF Pages
<1> HIDE DEF w, buf, new
<1>6. /\ UNCHANGED <<wroom, bsp, flash, ftlVars, op, ops, issued, latest>>
      /\ wrPages' = Tail(wrPages) /\ received' = received + 1
  BY DEF HostSends
<1>7. FlashTypes' BY <1>3, <1>4, <1>5, <1>6 DEF IInv, Types, FlashTypes
<1>8. FtlTypes' BY <1>6 DEF IInv, Types, FtlTypes, ftlVars
<1>9. SataTypes' BY <1>1, <1>6 DEF IInv, Types, SataTypes
<1>10. CallTypes'
  <2>1. CallTypes BY DEF IInv, Types
  <2> QED BY <1>6, <2>1, CallSteady
<1>11. RowInv'
  <2>1. Types /\ RowInv BY DEF IInv, RowInv
  <2>2. \A c : c \in Pending' => c \in Pending BY <1>6 DEF Pending, UnderWay
  <2>3. UNCHANGED <<wroom, bsp, flash, g_target_row, g_target_bank, op>> BY <1>6 DEF ftlVars
  <2>4. Chosen' => Chosen BY <2>3 DEF Chosen
  <2> QED BY <1>7, <2>1, <2>2, <2>3, <2>4, RowsSteady
<1> QED BY <1>7, <1>8, <1>9, <1>10, <1>11 DEF IInv, Types, RowInv

\* The host takes a buffer.
LEMMA HostReceivesKeeps ==
  ASSUME IInv, HostReceives
  PROVE  IInv'
<1>1. UNCHANGED <<flashVars, ftlVars, op, ops, wrPages, received, issued, latest>>
  BY DEF HostReceives
<1>2. FlashTypes' BY <1>1 DEF IInv, Types, FlashTypes, flashVars
<1>3. FtlTypes' /\ SataTypes' BY <1>1 DEF IInv, Types, FtlTypes, SataTypes, ftlVars
<1>4. CallTypes'
  <2>1. CallTypes BY DEF IInv, Types
  <2> QED BY <1>1, <2>1, CallSteady
<1>5. RowInv'
  <2>1. Types /\ RowInv BY DEF IInv, RowInv
  <2>2. UNCHANGED <<wroom, bsp, flash, g_target_row, g_target_bank, op>>
    BY <1>1 DEF ftlVars, flashVars
  <2>3. \A c : c \in Pending' => c \in Pending BY <2>2 DEF Pending, UnderWay
  <2>4. Chosen' => Chosen BY <2>2 DEF Chosen
  <2> QED BY <1>2, <2>1, <2>2, <2>3, <2>4, RowsSteady
<1> QED BY <1>2, <1>3, <1>4, <1>5 DEF IInv, Types, RowInv

\* The Waiting Room hands its command to the bank.
LEMMA BankAcceptsKeeps ==
  ASSUME IInv, BankAccepts
  PROVE  IInv'
<1>1. /\ Accept /\ UNCHANGED <<ftlVars, op, ops, sataVars, latest>>
      /\ Types /\ RowInv /\ FlashTypes
  BY DEF BankAccepts, IInv, Types, RowInv
<1>2. /\ FlashTypes' /\ wroom' = NoCmd /\ \A c : c \in Pending' => c \in Pending
      /\ UNCHANGED flash
  BY <1>1, AcceptFacts
<1>3. FtlTypes' /\ SataTypes'
  BY <1>1 DEF Types, FtlTypes, SataTypes, ftlVars, sataVars
<1>4. CallTypes'
  <2>1. CallTypes BY <1>1 DEF Types
  <2> QED BY <1>1, <2>1, CallSteady
<1>5. RowInv'
  <2>1. UNCHANGED <<flash, g_target_row, g_target_bank, op>> BY <1>1, <1>2 DEF ftlVars
  <2>2. Chosen' => Chosen BY <2>1 DEF Chosen
  <2>3. wroom'.fc # "PROG" BY <1>2, CommandFacts
  <2> QED BY <1>1, <1>2, <2>1, <2>2, <2>3, RowsSteady
<1> QED BY <1>2, <1>3, <1>4, <1>5 DEF IInv, Types, RowInv

\* A bank finishes its command.
LEMMA BankCompletesKeeps ==
  ASSUME IInv, NEW b \in Banks, BankCompletes(b)
  PROVE  IInv'
<1>1. /\ Complete(b) /\ UNCHANGED <<ftlVars, op, ops, wrPages, received, issued, latest>>
      /\ Types /\ RowInv /\ FlashTypes
  BY DEF BankCompletes, IInv, Types, RowInv
<1>2. FlashTypes' BY <1>1, CompleteFacts
<1>3. FtlTypes' /\ SataTypes'
  BY <1>1 DEF Types, FtlTypes, SataTypes, ftlVars
<1>4. CallTypes'
  <2>1. CallTypes BY <1>1 DEF Types
  <2> QED BY <1>1, <2>1, CallSteady
<1>5. RowInv'
  <2>1. UNCHANGED <<g_target_row, g_target_bank, op>> BY <1>1 DEF ftlVars
  <2> QED BY <1>1, <2>1, RowsComplete
<1> QED BY <1>2, <1>3, <1>4, <1>5 DEF IInv, Types, RowInv

-----------------------------------------------------------------------------
(* Calls begin *)

\* The pages of a write lie in the device.
LEMMA PagesOfFacts ==
  ASSUME NEW id \in 1 .. MaxOps, NEW lba, NEW n, InDevice(lba, n)
  PROVE  PagesOf(id, lba, n) \in Seq(Packets)
<1>1. SPP \in Nat \ {0} /\ NUM_LPAGES \in Nat /\ NUM_LPAGES * SPP \in Nat
  BY GeometryFacts
<1>2. lba \in Nat /\ n \in Nat \ {0} /\ lba + n <= NUM_LPAGES * SPP
  BY <1>1 DEF InDevice, LSectors, SPP
<1> DEFINE z == lba + n - 1  first == lba \div SPP  last == z \div SPP
<1>3. z \in Nat /\ z < NUM_LPAGES * SPP BY <1>1, <1>2
<1> HIDE DEF z
<1>4. first \in Nat /\ lba % SPP \in 0 .. SPP - 1 BY <1>1, <1>2, Quotient
<1>5. last \in Nat /\ z % SPP \in 0 .. SPP - 1 /\ last < NUM_LPAGES
  BY <1>1, <1>3, Quotient
<1> HIDE DEF first, last
<1> DEFINE from(l) == IF l = first THEN lba % SPP ELSE 0
           to(l) == IF l = last THEN z % SPP ELSE SPP - 1
           N == last - first + 1
           page(k) == [id |-> id, lpage |-> first + k - 1, col |-> from(first + k - 1),
                       cnt |-> to(first + k - 1) - from(first + k - 1) + 1]
<1>6. PagesOf(id, lba, n) = [k \in 1 .. N |-> page(k)]
  BY DEF PagesOf, first, last, z, SPP
<1>7. ASSUME NEW k \in 1 .. N PROVE page(k) \in Packets
  <2>1. first + k - 1 \in LPages BY <1>1, <1>4, <1>5 DEF LPages
  <2>2. from(first + k - 1) \in Int /\ to(first + k - 1) \in Int BY <1>1, <1>4, <1>5
  <2> HIDE DEF from, to
  <2> QED BY <2>1, <2>2 DEF Packets
<1>8. N \in Int BY <1>4, <1>5
<1> HIDE DEF page, N
<1>9. CASE N >= 0
  <2>1. N \in Nat BY <1>8, <1>9
  <2> QED BY <1>6, <1>7, <2>1
<1>10. CASE N < 0
  <2>1. 1 .. N = 1 .. 0 BY <1>8, <1>10
  <2>2. [k \in 1 .. N |-> page(k)] = [k \in 1 .. 0 |-> page(k)] BY <2>1
  <2>3. \A k \in 1 .. 0 : page(k) \in Packets OBVIOUS
  <2>4. [k \in 1 .. 0 |-> page(k)] \in Seq(Packets) BY <2>3
  <2> QED BY <1>6, <2>2, <2>4
<1> QED BY <1>8, <1>9, <1>10

\* Main begins a call.
LEMMA BeginKeeps ==
  ASSUME IInv, NEW call, Begin(call), wrPages' \in Seq(Packets),
         CallTypes', call.call \in {"read", "write", "copy"},
         call.call # "read" => call.pc \notin {"left", "right", "prog"}
  PROVE  IInv'
<1>1. /\ ops < MaxOps /\ ops' = ops + 1 /\ op' = call
      /\ UNCHANGED <<flashVars, ftlVars, received, issued, rdPages, latest>>
  BY DEF Begin
<1>2. FlashTypes' BY <1>1 DEF IInv, Types, FlashTypes, flashVars
<1>3. FtlTypes' BY <1>1 DEF IInv, Types, FtlTypes, ftlVars
<1>4. SataTypes' BY <1>1, GeometryFacts DEF IInv, Types, SataTypes
<1>5. RowInv'
  <2>1. Types /\ RowInv BY DEF IInv, RowInv
  <2>2. UNCHANGED <<wroom, bsp, flash, g_target_row, g_target_bank>>
    BY <1>1 DEF ftlVars, flashVars
  <2>3. \A c : c \in Pending' => c \in Pending BY <2>2 DEF Pending, UnderWay
  <2>4. ~Chosen' BY <1>1 DEF Chosen
  <2> QED BY <1>2, <2>1, <2>2, <2>3, <2>4, RowsSteady
<1> QED BY <1>2, <1>3, <1>4, <1>5 DEF IInv, Types, RowInv

\* ftl_write, its pages on their way.
LEMMA BeginWriteKeeps ==
  ASSUME IInv, NEW w \in Writes, BeginWrite(w[1], w[2])
  PROVE  IInv'
<1> DEFINE call == [call |-> "write", pc |-> "page", id |-> ops + 1, at |-> Span0(w[1], w[2])]
<1>1. Begin(call) /\ wrPages' = wrPages \o PagesOf(ops + 1, w[1], w[2]) BY DEF BeginWrite
<1>2. InDevice(w[1], w[2]) BY Requests
<1>3. ops + 1 \in 1 .. MaxOps
  BY <1>1, GeometryFacts DEF Begin, IInv, Types, SataTypes
<1>4. wrPages \in Seq(Packets) BY DEF IInv, Types, SataTypes
<1>5. PagesOf(ops + 1, w[1], w[2]) \in Seq(Packets) BY <1>2, <1>3, PagesOfFacts
<1>6. wrPages' \in Seq(Packets) BY <1>1, <1>4, <1>5, ConcatProperties
<1>7. CallTypes'
  <2>1. /\ Span0(w[1], w[2]) \in Places /\ Inside(Span0(w[1], w[2]))
        /\ Span0(w[1], w[2]).remain = w[2] /\ w[2] \in Nat \ {0}
    BY <1>2, Span0Facts
  <2>2. op' = call BY <1>1 DEF Begin
  <2>3. op' \in WriteCalls /\ op'.at = Span0(w[1], w[2]) BY <1>3, <2>1, <2>2 DEF WriteCalls
  <2>4. op'.at.remain > 0 /\ Inside(op'.at) BY <2>1, <2>3
  <2> QED BY <2>3, <2>4 DEF CallTypes, Inside, First
<1> HIDE DEF call
<1>8. call.call = "write" /\ call.pc = "page" BY DEF call
<1> QED BY <1>1, <1>6, <1>7, <1>8, BeginKeeps

\* ftl_read.
LEMMA BeginReadKeeps ==
  ASSUME IInv, NEW r \in Reads, BeginRead(r[1], r[2])
  PROVE  IInv'
<1> DEFINE call == [call |-> "read", at |-> Span0(r[1], r[2])]
<1>1. Begin(call) /\ wrPages' = wrPages BY DEF BeginRead
<1>2. InDevice(r[1], r[2]) BY Requests
<1>3. wrPages' \in Seq(Packets) BY <1>1 DEF IInv, Types, SataTypes
<1>4. CallTypes'
  <2>1. /\ Span0(r[1], r[2]) \in Places /\ Inside(Span0(r[1], r[2]))
        /\ Span0(r[1], r[2]).remain = r[2] /\ r[2] \in Nat \ {0}
    BY <1>2, Span0Facts
  <2>2. op' = call BY <1>1 DEF Begin
  <2>3. op' \in ReadCalls /\ op'.at = Span0(r[1], r[2]) BY <2>1, <2>2 DEF ReadCalls
  <2>4. op'.at.remain > 0 /\ Inside(op'.at) BY <2>1, <2>3
  <2> QED BY <2>3, <2>4 DEF CallTypes, Inside, First
<1> HIDE DEF call
<1>5. call.call = "read" BY DEF call
<1> QED BY <1>1, <1>3, <1>4, <1>5, BeginKeeps

\* do_issd_backup.
LEMMA BeginCopyKeeps ==
  ASSUME IInv, NEW c \in Copies, BeginCopy(c[1], c[2], c[3])
  PROVE  IInv'
<1> DEFINE src == c[1]  dst == c[2]  n == c[3]
           old == [k \in 0 .. n - 1 |-> latest[src + k]]
           call == [call |-> "copy", pc |-> "read", page |-> 0, at |-> Span0(src, n),
                    from |-> src, to |-> dst, n |-> n, old |-> old]
<1>1. Begin(call) /\ wrPages' = wrPages BY DEF BeginCopy
<1>2. InDevice(src, n) /\ InDevice(dst, n) BY Requests
<1>3. wrPages' \in Seq(Packets) BY <1>1 DEF IInv, Types, SataTypes
<1>4. CallTypes'
  <2>1. /\ Span0(src, n) \in Places /\ Inside(Span0(src, n))
        /\ Span0(src, n).remain = n /\ n \in Nat \ {0}
        /\ src \in LSectors /\ dst \in LSectors
        /\ src + n <= NUM_LPAGES * SPP /\ dst + n <= NUM_LPAGES * SPP
    BY <1>2, Span0Facts
  <2>2. op' = call BY <1>1 DEF Begin
  <2>3. old \in [0 .. n - 1 -> Data]
    <3>1. \A k \in 0 .. n - 1 : src + k \in LSectors
      BY <2>1, GeometryFacts DEF LSectors, SPP
    <3>2. latest \in [LSectors -> Data] BY DEF IInv, Types, FtlTypes
    <3> HIDE DEF src, n
    <3> QED BY <3>1, <3>2
  <2> HIDE DEF old, src, dst, n
  <2>4. /\ op' \in CopyReads' /\ op'.at = Span0(src, n) /\ op'.pc = "read" /\ op'.page = 0
        /\ op'.from = src /\ op'.to = dst /\ op'.n = n /\ op'.old = old
    BY <2>1, <2>2 DEF CopyReads
  <2>5. op'.at.remain > 0 /\ Inside(op'.at) BY <2>1, <2>4
  <2>6. op'.page <= op'.at.lpage
    BY <2>1, <2>4 DEF Places
  <2>7. CopyReading' BY <2>1, <2>3, <2>4, <2>5, <2>6 DEF CopyReading
  <2> QED BY <2>4, <2>5, <2>7 DEF CallTypes, Inside, First
<1> HIDE DEF call
<1>5. call.call = "copy" /\ call.pc = "read" BY DEF call
<1> QED BY <1>1, <1>3, <1>4, <1>5, BeginKeeps

-----------------------------------------------------------------------------
(* Calls run *)

\* A read command disturbs no row.
LEMMA ReadIssued ==
  ASSUME IInv, NEW cmd \in Commands, cmd.fc = "READ", flash_issue_cmd(cmd),
         UNCHANGED <<bsp, flash, dram, g_target_bank, g_target_row>>, Chosen' => Chosen
  PROVE  FlashTypes' /\ RowInv'
<1>1. Types /\ RowInv /\ FlashTypes BY DEF IInv, RowInv, Types
<1>2. /\ FlashTypes' /\ wroom' = cmd
      /\ \A c : c \in Pending' => c \in Pending
  BY <1>1, IssueFacts
<1> QED BY <1>1, <1>2, RowsSteady

\* Nothing but the call moves.
LEMMA CallMoves ==
  ASSUME IInv, UNCHANGED <<flashVars, ftlVars, ops, sataVars, latest>>, CallTypes', ~Chosen'
  PROVE  IInv'
<1>1. FlashTypes' BY DEF IInv, Types, FlashTypes, flashVars
<1>2. FtlTypes' /\ SataTypes' BY DEF IInv, Types, FtlTypes, SataTypes, ftlVars, sataVars
<1>3. RowInv'
  <2>1. Types /\ RowInv BY DEF IInv, RowInv
  <2>2. UNCHANGED <<wroom, bsp, flash, g_target_row, g_target_bank>>
    BY DEF ftlVars, flashVars
  <2>3. \A c : c \in Pending' => c \in Pending BY <2>2 DEF Pending, UnderWay
  <2> QED BY <1>1, <2>1, <2>2, <2>3, RowsSteady
<1> QED BY <1>1, <1>2, <1>3 DEF IInv, Types, RowInv

\* The loop of ftl_read goes on, or ftl_read returns.
LEMMA ContinueFacts ==
  ASSUME CallTypes, op.call = "read", Continue(op.at)
  PROVE  CallTypes' /\ ~Chosen'
<1>1. op \in ReadCalls /\ op.at \in Places /\ op.at.remain > 0 /\ Inside(op.at)
  BY CallFacts
<1> DEFINE next == NextPage(op.at)
<1>2. next \in Places /\ Inside(next) BY <1>1, NextFacts
<1>3. CASE next.remain = 0
  <2>1. op' = [call |-> "none"] BY <1>3 DEF Continue, Return
  <2> QED BY <2>1 DEF CallTypes, Chosen
<1>4. CASE next.remain # 0
  <2>1. op' = [op EXCEPT !.at = next] BY <1>4 DEF Continue
  <2> HIDE DEF next
  <2>2. op' \in ReadCalls /\ op'.at = next /\ op'.call = "read"
    BY <1>1, <1>2, <2>1 DEF ReadCalls
  <2>3. op'.at.remain > 0 BY <1>2, <1>4, <2>2 DEF Places
  <2> QED BY <1>2, <2>2, <2>3 DEF CallTypes, Chosen, Inside, First
<1> QED BY <1>3, <1>4

\* What ReadPage leaves alone, and the next read buffer.
LEMMA ReadPageFacts ==
  ASSUME Types, NEW ready \in BOOLEAN, ReadPage(ready)
  PROVE  /\ FtlTypes' /\ SataTypes' /\ Continue(op.at)
         /\ UNCHANGED <<g_target_bank, g_target_row>>
<1>1. /\ g_ftl_read_buf_id' = (g_ftl_read_buf_id + 1) % NUM_RD_BUFFERS /\ Continue(op.at)
      /\ UNCHANGED <<page_map, g_target_bank, g_target_row, g_ftl_write_buf_id, ops,
                     wrPages, received, issued, latest>>
  BY DEF ReadPage
<1>2. g_ftl_read_buf_id + 1 \in Nat BY GeometryFacts DEF Types, FtlTypes
<1>3. g_ftl_read_buf_id' \in 0 .. NUM_RD_BUFFERS - 1 BY <1>1, <1>2, BufferFacts
<1>4. FtlTypes' BY <1>1, <1>3 DEF Types, FtlTypes
<1>5. SataTypes' BY <1>1 DEF Types, SataTypes
<1> QED BY <1>1, <1>4, <1>5

\* ftl_read reads a page.
LEMMA FtlReadMappedKeeps ==
  ASSUME IInv, ftl_read_mapped
  PROVE  IInv'
<1> DEFINE cmd == Cmd("READ", BankOf(Old), RowOf(Old), op.at.off, Now(op.at),
                      RD_BUF(g_ftl_read_buf_id), NoPage)
<1>1. Types /\ CallTypes BY DEF IInv, Types
<1>2. /\ op.call = "read" /\ flash_issue_cmd(cmd) /\ ReadPage(FALSE)
      /\ UNCHANGED <<bsp, flash, dram>>
  BY DEF ftl_read_mapped, Old
<1>3. op.at.remain > 0 BY <1>1, <1>2, CallFacts
<1>4. cmd \in Commands /\ cmd.fc = "READ"
  <2>1. RD_BUF(g_ftl_read_buf_id) \in Buffers BY <1>1, BufferFacts DEF Types, FtlTypes
  <2>2. BankOf(Old) \in Banks /\ RowOf(Old) \in Rows /\ op.at.off \in Nat /\ Now(op.at) \in Nat
    BY <1>1, <1>2, <1>3, PageFacts DEF Left
  <2> QED BY <2>1, <2>2, CmdMade DEF NoPage
<1> HIDE DEF cmd
<1>5. /\ FtlTypes' /\ SataTypes' /\ Continue(op.at) /\ UNCHANGED <<g_target_bank, g_target_row>>
  BY <1>1, <1>2, ReadPageFacts
<1>6. CallTypes' /\ ~Chosen' BY <1>1, <1>2, <1>5, ContinueFacts
<1>7. FlashTypes' /\ RowInv' BY <1>2, <1>4, <1>5, <1>6, ReadIssued
<1> QED BY <1>5, <1>6, <1>7 DEF IInv, Types, RowInv

\* ftl_read fills in a page never written.
LEMMA FtlReadUnwrittenKeeps ==
  ASSUME IInv, ftl_read_unwritten
  PROVE  IInv'
<1> DEFINE buf == RD_BUF(g_ftl_read_buf_id)
           new == [s \in Sectors |-> IF s \in op.at.off .. op.at.off + Now(op.at) - 1
                                     THEN Erased ELSE dram[buf][s]]
<1>1. Types /\ CallTypes /\ RowInv BY DEF IInv, Types, RowInv
<1>2. op.call = "read" /\ ReadPage(TRUE) /\ UNCHANGED <<wroom, bsp, flash>>
  BY DEF ftl_read_unwritten
<1>3. buf \in Buffers BY <1>1, BufferFacts DEF Types, FtlTypes
<1>4. dram \in [Buffers -> Pages] BY <1>1 DEF Types, FlashTypes
<1>5. dram' = [dram EXCEPT ![buf] = new] BY <1>3, <1>4 DEF ftl_read_unwritten
<1>6. new \in Pages
  <2>1. dram[buf] \in [Sectors -> Data] BY <1>3, <1>4 DEF Pages
  <2> HIDE DEF buf
  <2> QED BY <2>1, DataFacts DEF Pages
<1> HIDE DEF buf, new
<1>7. FlashTypes' BY <1>1, <1>2, <1>4, <1>5, <1>6 DEF Types, FlashTypes
<1>8. /\ FtlTypes' /\ SataTypes' /\ Continue(op.at) /\ UNCHANGED <<g_target_bank, g_target_row>>
  BY <1>1, <1>2, ReadPageFacts
<1>9. CallTypes' /\ ~Chosen' BY <1>1, <1>2, <1>8, ContinueFacts
<1>10. \A c : c \in Pending' => c \in Pending BY <1>2 DEF Pending, UnderWay
<1>11. RowInv' BY <1>1, <1>2, <1>7, <1>8, <1>9, <1>10, RowsSteady
<1> QED BY <1>7, <1>8, <1>9, <1>11 DEF IInv, Types, RowInv

\* A new page is begun.
LEMMA StartPageKeeps ==
  ASSUME IInv, StartPage
  PROVE  IInv'
<1> DEFINE b == g_target_bank  row == FreeRow(b)
<1>1. Types /\ RowInv /\ CallTypes BY DEF IInv, RowInv, Types
<1>2. RowInv' BY <1>1, RowsStartPage
<1>3. /\ op.call \in {"write", "copy"} /\ op.pc = "page" /\ b \in Banks
      /\ g_target_bank' = (b + 1) % NUM_BANKS
      /\ UNCHANGED <<wroom, bsp, flash, page_map, g_ftl_write_buf_id, g_ftl_read_buf_id,
                     ops, sataVars, latest>>
  BY <1>1 DEF StartPage, Types, FtlTypes
<1>4. SataTypes' BY <1>1, <1>3 DEF Types, SataTypes, sataVars
<1>5. g_target_bank' \in Banks BY <1>3, BankRound
<1>6. FtlTypes'
  <2>1. g_target_row' \in [Banks -> 0 .. PPB]
    <3>1. g_target_row \in [Banks -> 0 .. PPB] BY <1>1 DEF Types, FtlTypes
    <3>2. CASE row >= PPB BY <3>1, <3>2 DEF StartPage, PPB
    <3>3. CASE row < PPB
      <4>1. row + 1 \in 0 .. PPB BY <1>1, <1>3, <3>3, FreeRowFacts DEF RowInv, Types
      <4>2. g_target_row' = [g_target_row EXCEPT ![b] = row + 1]
        <5>1. ~(row >= PAGES_PER_BANK)
          BY <1>1, <1>3, <3>3, FreeRowFacts, GeometryFacts DEF RowInv, Types, PPB
        <5> QED BY <5>1 DEF StartPage
      <4> QED BY <3>1, <4>1, <4>2
    <3>4. row \in Nat /\ PPB \in Nat
      BY <1>1, <1>3, FreeRowFacts, GeometryFacts DEF RowInv, Types
    <3> QED BY <3>2, <3>3, <3>4
  <2> QED BY <1>1, <1>3, <1>5, <2>1 DEF Types, FtlTypes
<1>7. CallTypes'
  <2>1. PICK pc \in {"page", "left", "right", "prog", "stopped"} : op' = [op EXCEPT !.pc = pc]
    BY DEF StartPage
  <2> QED BY <1>1, <1>3, <2>1, PcMoves
<1>8. dram' \in [Buffers -> Pages]
  <2>1. dram \in [Buffers -> Pages] BY <1>1 DEF Types, FlashTypes
  <2>2. CASE dram' = dram BY <2>1, <2>2
  <2>3. CASE op.call = "copy" /\ dram' = CopyIn
    <3> DEFINE new == [s \in Sectors |-> IF s \in Left .. Left + Now(op.at) - 1
                         THEN Computed(op.src + s - Left) ELSE dram[ISSD_WR_BUF][s]]
    <3>1. dram' = [dram EXCEPT ![ISSD_WR_BUF] = new]
      BY <2>1, <2>3, BufferFacts DEF CopyIn
    <3>2. /\ op.src \in Nat /\ op.at.remain \in Nat \ {0} /\ Now(op.at) \in 1 .. op.at.remain
          /\ op.src + op.at.remain < (NUM_LPAGES + 1) * SPP
          /\ Left \in Nat
      <4>1. op \in CopyWrites /\ CopyWriting /\ op.at \in Places /\ op.at.remain > 0 /\ Inside(op.at)
        BY <1>1, <1>3, <2>3, CallFacts
      <4>2. Now(op.at) \in 1 .. op.at.remain BY <4>1, NextFacts
      <4>3. op.src \in Nat /\ op.at.remain \in Nat \ {0}
        BY <4>1 DEF CopyWrites, Places
      <4>4. Left \in Nat BY <4>1, GeometryFacts DEF Left, Places
      <4> QED BY <4>1, <4>2, <4>3, <4>4 DEF CopyWriting
    <3>3. ASSUME NEW s \in Sectors, s \in Left .. Left + Now(op.at) - 1
          PROVE  Computed(op.src + s - Left) \in Data
      <4> DEFINE k == op.src + s - Left
      <4>1. k \in Nat /\ k < op.src + op.at.remain
        <5>1. s \in Int BY GeometryFacts
        <5>2. /\ op.src \in Nat /\ op.at.remain \in Nat \ {0} /\ Left \in Nat
              /\ Now(op.at) \in 1 .. op.at.remain
          BY <3>2
        <5> HIDE DEF new
        <5> QED BY <3>3, <5>1, <5>2
      <4>2. SPP \in Nat \ {0} /\ NUM_LPAGES + 1 \in Nat BY GeometryFacts
      <4>3. (NUM_LPAGES + 1) * SPP \in Nat BY <4>2, Products
      <4>4. k < (NUM_LPAGES + 1) * SPP BY <3>2, <4>1, <4>3
      <4> HIDE DEF k
      <4>5. k \div SPP \in Nat /\ k \div SPP < NUM_LPAGES + 1 /\ k % SPP \in 0 .. SPP - 1
        BY <4>1, <4>2, <4>4, Quotient
      <4>6. COMP(k \div SPP) \in Buffers /\ k % SPP \in Sectors
        BY <4>2, <4>5, GeometryFacts, BufferFacts
      <4>7. dram[COMP(k \div SPP)] \in [Sectors -> Data] BY <2>1, <4>6 DEF Pages
      <4>8. Computed(k) = dram[COMP(k \div SPP)][k % SPP] BY DEF Computed, SPP
      <4>9. Computed(k) \in Data BY <4>6, <4>7, <4>8
      <4> QED BY <4>9 DEF k
    <3>4. dram[ISSD_WR_BUF] \in [Sectors -> Data] BY <2>1, BufferFacts DEF Pages
    <3>5. new \in Pages BY <3>3, <3>4 DEF Pages
    <3> HIDE DEF new
    <3> QED BY <2>1, <3>1, <3>5
  <2> QED BY <2>2, <2>3 DEF StartPage
<1>9. FlashTypes' BY <1>1, <1>3, <1>8 DEF Types, FlashTypes
<1> QED BY <1>2, <1>4, <1>6, <1>7, <1>9 DEF IInv, Types, RowInv

\* One of the holes beside the new sectors is read.
LEMMA ReadHoleKeeps ==
  ASSUME IInv, op.call \in {"write", "copy"}, op.pc \in {"left", "right"},
         NEW col \in Nat, NEW cnt \in Nat, NEW pc \in {"right", "prog"}, ReadHole(col, cnt, pc)
  PROVE  IInv'
<1> DEFINE cmd == Cmd("READ", BankOf(Old), RowOf(Old), col, cnt, Buf, NoPage)
<1>1. Types /\ CallTypes BY DEF IInv, Types
<1>2. /\ flash_issue_cmd(cmd) /\ op' = [op EXCEPT !.pc = pc]
      /\ UNCHANGED <<bsp, flash, dram, ftlVars, ops, sataVars, latest>>
  BY DEF ReadHole
<1>3. cmd \in Commands /\ cmd.fc = "READ"
  <2>1. op.at.remain > 0 BY <1>1, CallFacts
  <2>2. BankOf(Old) \in Banks /\ RowOf(Old) \in Rows /\ Buf \in Buffers
    BY <1>1, <2>1, PageFacts
  <2> QED BY <2>2, CmdMade DEF NoPage
<1> HIDE DEF cmd
<1>4. CallTypes' BY <1>1, <1>2, PcMoves
<1>5. Chosen BY DEF Chosen
<1>6. FlashTypes' /\ RowInv' BY <1>2, <1>3, <1>5, ReadIssued DEF ftlVars
<1>7. FtlTypes' /\ SataTypes' BY <1>1, <1>2 DEF Types, FtlTypes, SataTypes, ftlVars, sataVars
<1> QED BY <1>4, <1>6, <1>7 DEF IInv, Types, RowInv

\* The left and the right hole.
LEMMA ReadHolesKeep ==
  ASSUME IInv, ReadLeftHole \/ ReadRightHole
  PROVE  IInv'
<1>1. op.call \in {"write", "copy"} /\ op.pc \in {"left", "right"}
  BY DEF ReadLeftHole, ReadRightHole
<1>2. Left \in Nat /\ Right \in Nat /\ SECTORS_PER_PAGE - Right \in Nat
  <2>1. Types /\ op.at.remain > 0 BY <1>1, CallFacts DEF IInv, Types
  <2>2. Left \in Nat /\ Right \in 0 .. SPP - 1 BY <1>1, <2>1, PageFacts
  <2>3. SPP \in Nat BY GeometryFacts
  <2> QED BY <2>2, <2>3 DEF SPP
<1>3. CASE ReadLeftHole
  <2>1. ReadHole(0, Left, IF Right # 0 THEN "right" ELSE "prog") BY <1>3 DEF ReadLeftHole
  <2> QED BY <1>1, <1>2, <2>1, ReadHoleKeeps
<1>4. CASE ReadRightHole
  <2>1. ReadHole(SECTORS_PER_PAGE - Right, Right, "prog") BY <1>4 DEF ReadRightHole
  <2> QED BY <1>1, <1>2, <2>1, ReadHoleKeeps
<1> QED BY <1>3, <1>4

\* A page goes to the flash, and the map to it.
LEMMA ProgramPageFacts ==
  ASSUME IInv, op.call \in {"write", "copy"}, NEW page \in Nat, ProgramPage(page), ~Chosen'
  PROVE  /\ FlashTypes' /\ RowInv'
         /\ page_map' \in [LPages -> 0 .. NUM_BANKS * PPB - 1]
         /\ UNCHANGED <<g_target_bank, g_target_row, g_ftl_read_buf_id,
                        ops, wrPages, received, rdPages>>
<1> DEFINE cmd == Cmd("PROG", NewBank, NewRow, 0, SECTORS_PER_PAGE, Buf, page)
<1>1. Types /\ RowInv /\ CallTypes BY DEF IInv, Types, RowInv
<1>2. /\ op.pc = "prog" /\ flash_issue_cmd(cmd)
      /\ page_map' = [page_map EXCEPT ![op.at.lpage] = NewBank * PAGES_PER_BANK + NewRow]
      /\ UNCHANGED <<bsp, flash, dram, g_target_bank, g_target_row, g_ftl_read_buf_id,
                     ops, wrPages, received, rdPages>>
  BY DEF ProgramPage
<1>3. Chosen BY <1>2 DEF Chosen
<1>4. NewBank \in Banks /\ NewRow \in Rows
  BY <1>1, <1>3, BankRound DEF RowInv, RowsAhead, Types, FtlTypes, NewBank
<1>5. cmd \in Commands /\ cmd.fc = "PROG" /\ cmd.bank = NewBank /\ cmd.row = NewRow
  <2>1. op.at.remain > 0 BY <1>1, <1>2, CallFacts
  <2>2. Buf \in Buffers BY <1>1, <2>1, PageFacts
  <2>3. SECTORS_PER_PAGE \in Nat BY GeometryFacts DEF SPP
  <2> QED BY <1>4, <2>2, <2>3, CmdMade
<1>6. page_map' \in [LPages -> 0 .. NUM_BANKS * PPB - 1]
  <2>1. NewBank * PAGES_PER_BANK + NewRow \in 0 .. NUM_BANKS * PPB - 1
    BY <1>4, PhysFacts DEF PPB
  <2> DEFINE phys == NewBank * PAGES_PER_BANK + NewRow
             S == 0 .. NUM_BANKS * PPB - 1
  <2>2. page_map \in [LPages -> S] BY <1>1 DEF Types, FtlTypes
  <2> HIDE DEF phys, S
  <2>3. phys \in S BY <2>1 DEF phys, S
  <2>4. page_map' = [page_map EXCEPT ![op.at.lpage] = phys] BY <1>2 DEF phys
  <2>5. page_map' \in [LPages -> S] BY <2>2, <2>3, <2>4
  <2> QED BY <2>5 DEF S
<1> HIDE DEF cmd
<1>7. RowInv' BY <1>1, <1>2, <1>3, <1>5, RowsProgramPage
<1>8. FlashTypes' BY <1>1, <1>2, <1>5, IssueFacts DEF Types
<1> QED BY <1>2, <1>6, <1>7, <1>8

\* A page of a write of the host.
LEMMA FtlWritePageKeeps ==
  ASSUME IInv, ftl_write_page
  PROVE  IInv'
<1> DEFINE next == NextPage(op.at)
<1>1. Types /\ CallTypes BY DEF IInv, Types
<1>2. /\ op.call = "write" /\ ProgramPage(issued + 1) /\ issued' = issued + 1
      /\ latest' = [s \in LSectors |-> IF s \in NowSectors THEN <<op.id, s>> ELSE latest[s]]
      /\ g_ftl_write_buf_id' = (g_ftl_write_buf_id + 1) % NUM_WR_BUFFERS
  BY DEF ftl_write_page
<1>3. /\ op \in WriteCalls /\ op.id \in 1 .. MaxOps
      /\ op.at \in Places /\ op.at.remain > 0 /\ Inside(op.at)
  BY <1>1, <1>2, CallFacts DEF WriteCalls
<1>4. next \in Places /\ Inside(next) BY <1>3, NextFacts
<1>5. CallTypes' /\ ~Chosen'
  <2>1. CASE next.remain = 0
    <3>1. op' = [call |-> "none"] BY <2>1 DEF ftl_write_page, Return
    <3> QED BY <3>1 DEF CallTypes, Chosen
  <2>2. CASE next.remain # 0
    <3>1. op' = [op EXCEPT !.at = next, !.pc = "page"] BY <2>2 DEF ftl_write_page
    <3> HIDE DEF next
    <3>2. op' \in WriteCalls /\ op'.at = next /\ op'.pc = "page"
      BY <1>3, <1>4, <3>1 DEF WriteCalls
    <3>3. op'.at.remain > 0 BY <1>4, <2>2, <3>2 DEF Places
    <3> QED BY <1>4, <3>2, <3>3 DEF CallTypes, Chosen, Inside, First
  <2> QED BY <2>1, <2>2
<1>6. issued \in Nat /\ issued + 1 \in Nat BY <1>1 DEF Types, SataTypes
<1>7. /\ FlashTypes' /\ RowInv'
      /\ page_map' \in [LPages -> 0 .. NUM_BANKS * PPB - 1]
      /\ UNCHANGED <<g_target_bank, g_target_row, g_ftl_read_buf_id,
                     ops, wrPages, received, rdPages>>
  BY <1>2, <1>5, <1>6, ProgramPageFacts
<1>8. g_ftl_write_buf_id' \in 0 .. NUM_WR_BUFFERS - 1
  <2>1. g_ftl_write_buf_id + 1 \in Nat BY <1>1, GeometryFacts DEF Types, FtlTypes
  <2> QED BY <1>2, <2>1, BufferFacts
<1>9. latest' \in [LSectors -> Data]
  BY <1>1, <1>2, <1>3, DataFacts DEF Types, FtlTypes
<1>10. FtlTypes' BY <1>1, <1>7, <1>8, <1>9 DEF Types, FtlTypes
<1>11. SataTypes' BY <1>1, <1>2, <1>6, <1>7 DEF Types, SataTypes
<1> QED BY <1>5, <1>7, <1>10, <1>11 DEF IInv, Types, RowInv

\* A page of a copy.
LEMMA IssdWritePageKeeps ==
  ASSUME IInv, issd_write_page
  PROVE  IInv'
<1>1. Types /\ CallTypes BY DEF IInv, Types
<1>2. /\ op.call = "copy" /\ ProgramPage(NoPage) /\ op.pc = "prog"
      /\ latest' = [s \in LSectors |-> IF s \in NowSectors THEN op.old[s - op.to] ELSE latest[s]]
      /\ op' = [op EXCEPT !.pc = "done"]
      /\ UNCHANGED <<issued, g_ftl_write_buf_id>>
  BY DEF issd_write_page, ProgramPage
<1>3. /\ op \in CopyWrites /\ CopyWriting
      /\ op.at \in Places /\ op.at.remain > 0 /\ Inside(op.at)
  BY <1>1, <1>2, CallFacts
<1>4. CallTypes' /\ op'.call = "copy" /\ op'.pc = "done" BY <1>1, <1>2, PcMoves
<1>5. ~Chosen' BY <1>4 DEF Chosen
<1>6. /\ FlashTypes' /\ RowInv'
      /\ page_map' \in [LPages -> 0 .. NUM_BANKS * PPB - 1]
      /\ UNCHANGED <<g_target_bank, g_target_row, g_ftl_read_buf_id,
                     ops, wrPages, received, rdPages>>
  BY <1>2, <1>5, ProgramPageFacts DEF NoPage
<1>7. ASSUME NEW s \in NowSectors PROVE op.old[s - op.to] \in Data
  <2> DEFINE x == op.at.lpage * SPP
  <2>1. PICK k \in Left .. Left + Now(op.at) - 1 : s = x + k
    BY <1>7 DEF NowSectors, SPP
  <2>2. x \in Nat /\ Left \in Nat /\ op.at.remain \in Nat
    BY <1>3, GeometryFacts, Products DEF Places, Left
  <2>3. First(op.at) = x + Left BY DEF First, Left
  <2> HIDE DEF x
  <2>4. Now(op.at) \in 1 .. op.at.remain BY <1>3, NextFacts
  <2>5. op.to \in Nat BY <1>3, GeometryFacts DEF CopyWrites, LSectors, SPP
  <2> DEFINE f == First(op.at)
  <2>6. f >= op.to /\ op.old \in [0 .. f + op.at.remain - op.to - 1 -> Data]
    BY <1>3 DEF CopyWriting
  <2>7. f = x + Left BY <2>3
  <2> HIDE DEF f
  <2>8. s - op.to \in 0 .. f + op.at.remain - op.to - 1
    BY <2>1, <2>2, <2>4, <2>5, <2>6, <2>7
  <2> QED BY <2>6, <2>8
<1>8. latest' \in [LSectors -> Data] BY <1>1, <1>2, <1>7 DEF Types, FtlTypes
<1>9. FtlTypes' BY <1>1, <1>2, <1>6, <1>8 DEF Types, FtlTypes
<1>10. SataTypes' BY <1>1, <1>2, <1>6 DEF Types, SataTypes
<1> QED BY <1>4, <1>6, <1>9, <1>10 DEF IInv, Types, RowInv

\* The next page of a copy, or its end.
LEMMA IssdWriteDoneKeeps ==
  ASSUME IInv, issd_write_done
  PROVE  IInv'
<1> DEFINE next == NextPage(op.at)
<1>1. CallTypes BY DEF IInv, Types
<1>2. /\ op.call = "copy" /\ op.pc = "done"
      /\ UNCHANGED <<flashVars, ftlVars, ops, sataVars, latest>>
  BY DEF issd_write_done
<1>3. /\ op \in CopyWrites /\ CopyWriting
      /\ op.at \in Places /\ op.at.remain > 0 /\ Inside(op.at)
  BY <1>1, <1>2, CallFacts
<1>4. CallTypes' /\ ~Chosen'
  <2>1. CASE next.remain = 0
    <3>1. op' = [call |-> "none"] BY <2>1 DEF issd_write_done, Return
    <3> QED BY <3>1 DEF CallTypes, Chosen
  <2>2. CASE next.remain # 0
    <3>1. /\ Now(op.at) \in 1 .. op.at.remain /\ next \in Places /\ Inside(next)
          /\ next.remain = op.at.remain - Now(op.at) /\ next.remain \in Nat
      BY <1>3, NextFacts DEF Places
    <3>2. next.remain > 0 BY <2>2, <3>1
    <3>3. First(next) = First(op.at) + Now(op.at) BY <1>3, <3>2, NextFacts
    <3>4. op' = [op EXCEPT !.at = next, !.src = @ + Now(op.at), !.pc = "page"]
      BY <2>2 DEF issd_write_done
    <3>5. op.src \in Nat /\ op.to \in Nat /\ op.at.remain \in Nat /\ First(op.at) \in Nat
      <4>1. op.src \in Nat /\ op.to \in Nat BY <1>3, GeometryFacts DEF CopyWrites, LSectors, SPP
      <4>2. op.at.lpage \in Nat /\ op.at.off \in Nat /\ op.at.remain \in Nat /\ SPP \in Nat \ {0}
        BY <1>3, GeometryFacts DEF Places
      <4>3. op.at.lpage * SPP \in Nat BY <4>2, Products
      <4> QED BY <4>1, <4>2, <4>3 DEF First
    <3>6. Now(op.at) \in Nat BY <3>1, <3>5
    <3> DEFINE at == op.at  now == Now(at)
    <3>7. op' = [op EXCEPT !.at = next, !.src = op.src + now, !.pc = "page"]
      BY <1>3, <3>4 DEF CopyWrites
    <3>8. op.src + now \in Nat BY <3>5, <3>6
    <3> HIDE DEF next, at, now
    <3>9. /\ op' \in CopyWrites' /\ op'.at = next /\ op'.src = op.src + now
          /\ op'.to = op.to /\ op'.old = op.old /\ op'.pc = "page"
      BY <1>3, <3>1, <3>7, <3>8 DEF CopyWrites
    <3>10. /\ op.old \in [0 .. First(op.at) + op.at.remain - op.to - 1 -> Data]
           /\ First(op.at) >= op.to
           /\ op.src + op.at.remain < (NUM_LPAGES + 1) * SPP
      BY <1>3 DEF CopyWriting
    <3>11. /\ First(next) + next.remain = First(op.at) + op.at.remain
           /\ op.src + now + next.remain = op.src + op.at.remain
           /\ First(next) >= op.to
      <4>1. now \in Nat /\ next.remain = op.at.remain - now /\ First(next) = First(op.at) + now
        BY <3>1, <3>3, <3>6 DEF now, at
      <4>2. First(op.at) >= op.to BY <3>10
      <4> DEFINE f == First(op.at)
      <4>3. f \in Nat /\ f >= op.to /\ First(next) = f + now BY <3>5, <4>1, <4>2
      <4> HIDE DEF f
      <4>4. f = First(op.at) BY DEF f
      <4> QED BY <3>5, <4>1, <4>3, <4>4
    <3>12. CopyWriting'
      <4>1. op'.at.remain > 0 /\ First(op'.at) >= op'.to BY <3>2, <3>9, <3>11
      <4>2. op'.old \in [0 .. First(op'.at) + op'.at.remain - op'.to - 1 -> Data]
        <5>1. op.old \in [0 .. First(op.at) + op.at.remain - op.to - 1 -> Data] BY <3>10
        <5>2. First(op'.at) + op'.at.remain - op'.to - 1 = First(op.at) + op.at.remain - op.to - 1
          <6>1. op'.at = next /\ op'.to = op.to BY <3>9
          <6>2. First(next) + next.remain = First(op.at) + op.at.remain BY <3>11
          <6>3. First(next) + next.remain - op.to - 1 = First(op.at) + op.at.remain - op.to - 1
            BY <3>1, <3>3, <3>5, <3>6, <6>2
          <6> QED BY <6>1, <6>3
        <5> QED BY <3>9, <5>1, <5>2
      <4>3. op'.src + op'.at.remain < (NUM_LPAGES + 1) * SPP
        BY <3>9, <3>10, <3>11
      <4> QED BY <4>1, <4>2, <4>3 DEF CopyWriting, First
    <3>13. Inside(op'.at) BY <3>1, <3>9
    <3> QED BY <3>9, <3>12, <3>13 DEF CallTypes, Chosen, Inside, First
  <2> QED BY <2>1, <2>2
<1> QED BY <1>2, <1>4, CallMoves

\* issd_read_sectors reads a page.
LEMMA IssdReadPageKeeps ==
  ASSUME IInv, issd_read_page
  PROVE  IInv'
<1> DEFINE next == NextPage(op.at)
           cmd == Cmd("READ", BankOf(Old), RowOf(Old), op.at.off, Now(op.at),
                      COMP(op.page), NoPage)
<1>1. Types /\ CallTypes BY DEF IInv, Types
<1>2. /\ op.call = "copy" /\ op.pc = "read" /\ flash_issue_cmd(cmd)
      /\ op' = [op EXCEPT !.at = next, !.page = @ + 1,
                          !.pc = IF next.remain = 0 THEN "finish" ELSE "read"]
      /\ UNCHANGED <<bsp, flash, dram, ftlVars, ops, sataVars, latest>>
  BY DEF issd_read_page
<1>3. /\ op \in CopyReads /\ CopyReading /\ op.at \in Places /\ op.at.remain > 0
      /\ Inside(op.at) /\ op.page \in Nat
  BY <1>1, <1>2, CallFacts DEF CopyReads
<1>4. op.page \in 0 .. NUM_LPAGES
  <2>1. op.page <= op.at.lpage BY <1>3 DEF CopyReading
  <2>2. op.at.lpage \in Nat /\ op.at.lpage < NUM_LPAGES /\ NUM_LPAGES \in Nat
    BY <1>3, PlaceInside, GeometryFacts DEF LPages, Places
  <2> QED BY <1>3, <2>1, <2>2
<1>5. cmd \in Commands /\ cmd.fc = "READ"
  <2>1. COMP(op.page) \in Buffers BY <1>4, BufferFacts
  <2>2. BankOf(Old) \in Banks /\ RowOf(Old) \in Rows /\ op.at.off \in Nat /\ Now(op.at) \in Nat
    BY <1>1, <1>2, <1>3, PageFacts DEF Left
  <2> QED BY <2>1, <2>2, CmdMade DEF NoPage
<1> HIDE DEF cmd
<1>6. /\ next \in Places /\ Inside(next) /\ next.lpage = op.at.lpage + 1
      /\ next.remain \in Nat
  BY <1>3, NextFacts DEF Places
<1> HIDE DEF next
<1> DEFINE pc == IF next.remain = 0 THEN "finish" ELSE "read"
<1>7. op' = [op EXCEPT !.at = next, !.page = op.page + 1, !.pc = pc]
  BY <1>2, <1>3 DEF CopyReads
<1>8. pc \in {"read", "finish"} /\ (pc = "read" => next.remain > 0) BY <1>6
<1> HIDE DEF pc
<1>9. /\ op' \in CopyReads' /\ op'.at = next /\ op'.page = op.page + 1 /\ op'.pc = pc
      /\ op'.old = op.old /\ op'.n = op.n /\ op'.from = op.from /\ op'.to = op.to
  <2> DEFINE page == op.page + 1
  <2>1. page \in Nat BY <1>3
  <2>2. op' = [op EXCEPT !.at = next, !.page = page, !.pc = pc] BY <1>7
  <2> HIDE DEF page
  <2>3. /\ op' \in CopyReads' /\ op'.at = next /\ op'.page = page /\ op'.pc = pc
        /\ op'.old = op.old /\ op'.n = op.n /\ op'.from = op.from /\ op'.to = op.to
    BY <1>3, <1>6, <1>8, <2>1, <2>2 DEF CopyReads
  <2> QED BY <2>3 DEF page
<1>10. CopyReading'
  <2>1. op.page + 1 <= op.at.lpage + 1
    <3>1. op.at.lpage \in Nat BY <1>3 DEF Places
    <3> QED BY <1>3, <3>1 DEF CopyReading
  <2>2. op'.page <= op'.at.lpage BY <1>6, <1>9, <2>1
  <2> QED BY <1>3, <1>8, <1>9, <2>2 DEF CopyReading
<1>11. CallTypes' /\ ~Chosen'
  <2>1. Inside(op'.at) BY <1>6, <1>9
  <2>2. op'.pc \in {"read", "finish"} BY <1>8, <1>9
  <2> QED BY <1>9, <1>10, <2>1, <2>2 DEF CallTypes, Chosen, Inside, First
<1>12. FlashTypes' /\ RowInv' BY <1>2, <1>5, <1>11, ReadIssued DEF ftlVars
<1>13. FtlTypes' /\ SataTypes' BY <1>1, <1>2 DEF Types, FtlTypes, SataTypes, ftlVars, sataVars
<1> QED BY <1>11, <1>12, <1>13 DEF IInv, Types, RowInv

\* A copy of a page never written fails.
LEMMA IssdReadUnwrittenKeeps ==
  ASSUME IInv, issd_read_unwritten
  PROVE  IInv'
<1>1. UNCHANGED <<flashVars, ftlVars, ops, sataVars, latest>> /\ op' = [call |-> "none"]
  BY DEF issd_read_unwritten, Return
<1>2. CallTypes' /\ ~Chosen' BY <1>1 DEF CallTypes, Chosen
<1> QED BY <1>1, <1>2, CallMoves

\* All is read, the writing begins.
LEMMA IssdReadDoneKeeps ==
  ASSUME IInv, issd_read_done
  PROVE  IInv'
<1>1. CallTypes BY DEF IInv, Types
<1> DEFINE src == op.from % SECTORS_PER_PAGE  at == Span0(op.to, op.n)
<1>2. /\ op.call = "copy" /\ op.pc = "finish"
      /\ op' = [call |-> "copy", pc |-> "page", src |-> src, at |-> at, to |-> op.to,
                old |-> op.old]
      /\ UNCHANGED <<flashVars, ftlVars, ops, sataVars, latest>>
  BY DEF issd_read_done
<1>3. op \in CopyReads /\ CopyReading BY <1>1, <1>2, CallFacts
<1>4. /\ op.from \in LSectors /\ op.to \in LSectors /\ op.n \in Nat \ {0}
      /\ op.old \in [0 .. op.n - 1 -> Data]
      /\ op.to + op.n <= NUM_LPAGES * SPP /\ op.from + op.n <= NUM_LPAGES * SPP
  BY <1>3 DEF CopyReads, CopyReading
<1>5. SPP \in Nat \ {0} /\ NUM_LPAGES \in Nat /\ NUM_LPAGES * SPP \in Nat
  BY GeometryFacts
<1>6. op.from \in Nat /\ op.to \in Nat BY <1>4, <1>5 DEF LSectors, SPP
<1>7. src \in 0 .. SPP - 1 BY <1>5, <1>6, Quotient DEF SPP
<1>8. src \in Nat BY <1>5, <1>7
<1>9. InDevice(op.to, op.n) BY <1>4 DEF InDevice, SPP
<1>10. /\ at \in Places /\ Inside(at) /\ First(at) = op.to /\ at.remain = op.n
  BY <1>9, Span0Facts
<1> HIDE DEF src, at
<1>11. /\ op' \in CopyWrites' /\ op'.src = src /\ op'.at = at /\ op'.to = op.to
       /\ op'.old = op.old /\ op'.pc = "page"
  BY <1>2, <1>4, <1>8, <1>10 DEF CopyWrites
<1>12. src + op.n < (NUM_LPAGES + 1) * SPP
  <2> DEFINE x == NUM_LPAGES * SPP
  <2>1. (NUM_LPAGES + 1) * SPP = x + SPP BY <1>5, Products
  <2>2. x \in Nat /\ op.from + op.n <= x /\ SPP \in Nat BY <1>4, <1>5
  <2> HIDE DEF x
  <2> QED BY <1>4, <1>6, <1>7, <2>1, <2>2
<1>13. CopyWriting'
  <2>1. op'.at.remain > 0 /\ First(op'.at) >= op'.to BY <1>4, <1>6, <1>10, <1>11
  <2>2. op'.src + op'.at.remain < (NUM_LPAGES + 1) * SPP BY <1>10, <1>11, <1>12
  <2>3. First(op'.at) + op'.at.remain - op'.to - 1 = op.n - 1
    BY <1>4, <1>6, <1>10, <1>11
  <2>4. op'.old \in [0 .. First(op'.at) + op'.at.remain - op'.to - 1 -> Data]
    BY <1>4, <1>11, <2>3
  <2> QED BY <2>1, <2>2, <2>4 DEF CopyWriting, First
<1>14. CallTypes' /\ ~Chosen'
  <2>1. Inside(op'.at) BY <1>10, <1>11
  <2> QED BY <1>11, <1>13, <2>1 DEF CallTypes, Chosen, Inside, First
<1> QED BY <1>2, <1>14, CallMoves

-----------------------------------------------------------------------------
(* The invariant *)

\* The invariant holds when the firmware has formatted the flash.
LEMMA InitIInv == Init => IInv
<1> SUFFICES ASSUME Init PROVE IInv
  OBVIOUS
<1>1. /\ wroom = NoCmd /\ bsp = [b \in Banks |-> NoCmd]
      /\ flash = [b \in Banks |-> [r \in Rows |-> ErasedPage]]
      /\ dram = [b \in Buffers |-> [s \in Sectors |-> Cleared]]
  BY DEF Init, FlashInit
<1>2. FlashTypes BY <1>1, DataFacts DEF FlashTypes
<1>3. \A c : c \notin Pending BY <1>1, CommandFacts DEF Pending, UnderWay
<1>4. /\ page_map = [l \in LPages |-> 0] /\ g_target_bank = 0
      /\ g_target_row = [b \in Banks |-> PAGES_PER_VBLK]
      /\ g_ftl_write_buf_id = 0 /\ g_ftl_read_buf_id = 0
      /\ latest = [s \in LSectors |-> Erased]
  BY DEF Init, NULL
<1>5. PAGES_PER_VBLK \in 0 .. PPB /\ PAGES_PER_VBLK % PAGES_PER_VBLK = 0
  <2>1. PAGES_PER_VBLK \in Nat \ {0} /\ VBLKS_PER_BANK \in Nat \ {0, 1} BY GeometryFacts
  <2>2. 1 * PAGES_PER_VBLK + PAGES_PER_VBLK <= VBLKS_PER_BANK * PAGES_PER_VBLK
    BY <2>1, Products
  <2> QED BY <2>1, <2>2, GeometryFacts, ModSmall
<1>6. FtlTypes
  <2>1. 0 \in 0 .. NUM_BANKS * PPB - 1
    <3>1. NUM_BANKS \in Nat \ {0} /\ PPB \in Nat \ {0} BY GeometryFacts
    <3>2. 0 \in Banks /\ 0 \in Rows BY <3>1, GeometryFacts DEF Banks
    <3>3. 0 * PPB + 0 \in 0 .. NUM_BANKS * PPB - 1 BY <3>2, PhysFacts
    <3>4. 0 * PPB = 0 BY <3>1
    <3> QED BY <3>3, <3>4
  <2>2. 0 \in Banks /\ 0 \in 0 .. NUM_WR_BUFFERS - 1 /\ 0 \in 0 .. NUM_RD_BUFFERS - 1
    BY GeometryFacts DEF Banks
  <2> DEFINE S == 0 .. NUM_BANKS * PPB - 1
  <2>3. page_map \in [LPages -> S] BY <1>4, <2>1
  <2> HIDE DEF S
  <2>4. latest \in [LSectors -> Data] BY <1>4, DataFacts
  <2> QED BY <1>4, <1>5, <2>2, <2>3, <2>4 DEF FtlTypes, S
<1>7. SataTypes
  <2>1. ops = 0 /\ received = 0 /\ issued = 0 /\ wrPages = << >> BY DEF Init
  <2> QED BY <2>1, GeometryFacts DEF SataTypes
<1>8. CallTypes /\ ~Chosen BY DEF Init, CallTypes, Chosen
<1>9. RowsAhead BY <1>1, <1>3, <1>8 DEF RowsAhead, Free
<1>10. PendingApart BY <1>1, <1>3, CommandFacts DEF PendingApart, NoReprogram
<1>11. RowsUsable BY <1>3, <1>4, <1>5 DEF RowsUsable
<1> QED BY <1>2, <1>6, <1>7, <1>8, <1>9, <1>10, <1>11 DEF IInv, Types

\* Every step keeps the invariant.
LEMMA NextIInv == IInv /\ [Next]_vars => IInv'
<1> SUFFICES ASSUME IInv, [Next]_vars PROVE IInv'
  OBVIOUS
<1>1. CASE UNCHANGED vars
  <2>1. UNCHANGED <<flashVars, ftlVars, op, ops, wrPages, received, issued, latest>>
    BY <1>1 DEF vars, sataVars
  <2>2. CallTypes' BY <2>1, CallSteady DEF IInv, Types
  <2>3. Types' BY <2>1, <2>2 DEF IInv, Types, FlashTypes, FtlTypes, SataTypes, flashVars, ftlVars
  <2>4. RowInv'
    <3>1. UNCHANGED <<wroom, bsp, flash, g_target_row, g_target_bank, op>>
      BY <2>1 DEF flashVars, ftlVars
    <3>2. \A c : c \in Pending' => c \in Pending BY <3>1 DEF Pending, UnderWay
    <3>3. Chosen' => Chosen BY <3>1 DEF Chosen
    <3>4. Types /\ RowInv /\ FlashTypes' BY <2>3 DEF IInv, RowInv, Types
    <3> QED BY <3>1, <3>2, <3>3, <3>4, RowsSteady
  <2> QED BY <2>3, <2>4 DEF IInv, RowInv
<1>2. CASE \E w \in Writes : BeginWrite(w[1], w[2]) BY <1>2, BeginWriteKeeps
<1>3. CASE \E r \in Reads : BeginRead(r[1], r[2]) BY <1>3, BeginReadKeeps
<1>4. CASE \E c \in Copies : BeginCopy(c[1], c[2], c[3]) BY <1>4, BeginCopyKeeps
<1>5. CASE ftl_read BY <1>5, FtlReadMappedKeeps, FtlReadUnwrittenKeeps DEF ftl_read
<1>6. CASE ftl_write
  BY <1>6, StartPageKeeps, ReadHolesKeep, FtlWritePageKeeps DEF ftl_write
<1>7. CASE issd_copy
  BY <1>7, IssdReadPageKeeps, IssdReadUnwrittenKeeps, IssdReadDoneKeeps,
     IssdWritePageKeeps, IssdWriteDoneKeeps DEF issd_copy
<1>8. CASE hardware
  BY <1>8, HostSendsKeeps, HostReceivesKeeps, BankAcceptsKeeps, BankCompletesKeeps DEF hardware
<1> QED BY <1>1, <1>2, <1>3, <1>4, <1>5, <1>6, <1>7, <1>8 DEF Next

(* The inductive invariant: get_free_page takes the rows of a bank in      *)
(* order, one page at a time, and what lies ahead is erased.               *)
THEOREM Invariance == Spec => []IInv
<1> QED
  BY InitIInv, NextIInv, PTL DEF Spec

(* Every program command of the tutorial FTL goes to a page inside the     *)
(* device that was erased and not programmed since, and get_free_page      *)
(* leaves out every bad vblock but that of the last entry of the scan list.*)
THEOREM ProgramsAlwaysSound == Spec => []ProgramsSound
<1>1. ASSUME IInv PROVE ProgramsSound
  <2>1. FlashTypes /\ FtlTypes /\ SataTypes /\ CallTypes BY <1>1 DEF IInv, Types
  <2>2. \A c \in Pending : c.bank \in Banks /\ c.row \in Rows /\ c.buf \in Buffers
    BY <2>1, PendingFacts, CommandFacts
  <2>3. TypeOK
    BY <2>1, <2>2, CallFacts DEF TypeOK, FlashTypes, FtlTypes, SataTypes, PPB
  <2>4. NoReprogram BY <1>1 DEF IInv, PendingApart
  <2>5. BadBlocksSkippedButLast
    BY <1>1 DEF IInv, RowsUsable, Usable, BadBlocksSkippedButLast, ProgramsBad
  <2> QED BY <2>3, <2>4, <2>5 DEF ProgramsSound
<1> QED
  BY <1>1, Invariance, PTL

(***************************************************************************)
(* The data: what the host, the copies inside the device, the write        *)
(* buffers and the banks do to the sectors of a page on its way to the     *)
(* flash and back.                                                         *)
(***************************************************************************)

NWB == NUM_WR_BUFFERS

-----------------------------------------------------------------------------
(* Pages of write data, and the banks and buffers they take in turn *)

Stopped == op.call \in {"write", "copy"} /\ op.pc = "stopped"

(* The reading of the old data of a page has begun.                        *)
HolesBegun == Chosen /\ ReadOld /\ (op.pc = "prog" \/ (op.pc = "right" /\ Left # 0))

(* What ftl_write has still to issue of the write under way.               *)
PagesFrom(id, at) == PagesOf(id, First(at), at.remain)
Remaining == PagesFrom(op.id, op.at)

(* the buffer of page q of write data                                      *)
BufOf(q) == WR_BUF((q - 1) % NWB)

ProgCommands ==
  /\ \A c \in Pending :
       /\ c.col = 0 /\ c.cnt = SPP /\ c.page <= issued
       /\ c.buf = IF c.page > 0 THEN BufOf(c.page) ELSE ISSD_WR_BUF
       /\ c.page = 0 => op.call = "copy" /\ op.pc = "done" /\ c.bank = NewBank
  /\ g_ftl_write_buf_id = issued % NWB
  /\ HolesBegun => wroom.fc # "PROG"

(* The host's data: what is not yet received belongs to commands that wait *)
(* for it, or to pages that ftl_write has not come to.                     *)
HostData ==
  /\ received + Len(wrPages) = issued + (IF op.call = "write" THEN Len(Remaining) ELSE 0)
  /\ op.call = "write" =>
       \A q \in issued + 1 .. issued + Len(Remaining) :
         q > received => wrPages[q - received] = Remaining[q - issued]
  /\ \A q \in received + 1 .. issued : \E c \in Pending : c.page = q
  /\ \A q \in 1 .. received - NWB : ~InUse(q)

(* Pages begun since the last that went to bank b                          *)
Turn(t, b) == (t + NUM_BANKS - b - 1) % NUM_BANKS
Since(b) == Turn(g_target_bank, b)
Started == IF Chosen THEN 1 ELSE 0

(* A page on its way and the pages issued after it: at most one per bank.  *)
InTurn(c) == \/ c.row + 1 = g_target_row[c.bank] /\ issued - c.page + Started <= Since(c.bank)
             \/ Chosen /\ NewBank = c.bank /\ issued - c.page < NUM_BANKS
Turns ==
  /\ \A c \in Pending : c.page > 0 => issued - c.page <= NUM_BANKS
  /\ ~Stopped => \A c \in Pending : c.page > 0 =>
       InTurn(c) \/ (c # wroom /\ wroom.fc = "PROG" /\ wroom.bank = c.bank)

-----------------------------------------------------------------------------
(* Read commands under way *)

Readers == {r \in UnderWay : r.fc = "READ"}
Reading(buf, s) == \E r \in Readers : r.buf = buf /\ s \in Span(r)
At(c, l) == page_map[l] # NULL /\ c.bank = BankOf(page_map[l]) /\ c.row = RowOf(page_map[l])

(* a sector of the old page whose reading has begun                        *)
HoleRead(s) == \/ s < Left /\ op.pc \in {"right", "prog"}
               \/ s >= SPP - Right /\ op.pc = "prog"

WriteBuffers == {WR_BUF(i) : i \in 0 .. NWB - 1} \cup {ISSD_WR_BUF}
ReadBuffers  == {RD_BUF(i) : i \in 0 .. NUM_RD_BUFFERS - 1}

CopyPage(p) == op.from \div SPP + p

(* the holes that are still to be read                                     *)
HolesAhead == Chosen => /\ op.pc = "left" => ReadOld /\ Left # 0
                        /\ op.pc = "right" => ReadOld /\ Right # 0

HoleReads ==
  \A r \in Readers : r.buf \in WriteBuffers =>
    \/ HolesBegun /\ r.buf = Buf /\ At(r, op.at.lpage) /\ \A s \in Span(r) : HoleRead(s)
    \/ wroom.fc = "PROG" /\ r.buf = wroom.buf /\ r = bsp[wroom.bank]

CopyReadings ==
  \A r \in Readers, p \in 0 .. NUM_LPAGES : r.buf = COMP(p) /\ op.call = "copy" =>
    op.pc \in {"read", "finish"} /\ p < op.page /\ At(r, CopyPage(p))

(* issd_read_sectors: what is read, and from where                         *)
CopyPlace ==
  op.call = "copy" /\ op.pc \in {"read", "finish"} =>
    /\ op.at.lpage = CopyPage(op.page)
    /\ op.page = 0 => op.at = Span0(op.from, op.n) /\ op.pc = "read"
    /\ op.page > 0 => op.at.off = 0 /\ wroom.fc # "PROG"
    /\ op.pc = "read" => First(op.at) + op.at.remain = op.from + op.n
    /\ op.pc = "finish" => First(op.at) >= op.from + op.n
    /\ \A k \in 0 .. op.n - 1 : op.old[k] = latest[op.from + k]

-----------------------------------------------------------------------------
(* Data *)

Val(l, s) == latest[l * SPP + s]

Mapping ==
  /\ \A b \in Banks : g_target_row[b] >= PAGES_PER_VBLK
  /\ Chosen => NewRow >= PAGES_PER_VBLK
  /\ \A l \in LPages : page_map[l] # NULL =>
       LET b == BankOf(page_map[l]) row == RowOf(page_map[l])
       IN row < g_target_row[b] /\ ~(Chosen /\ b = NewBank /\ row = NewRow)
  /\ \A k, l \in LPages : page_map[k] = page_map[l] /\ page_map[k] # NULL => k = l
  /\ \A s \in LSectors : latest[s] \in Written \cup {Erased}
  /\ \A l \in LPages, s \in Sectors : Val(l, s) \in Written => page_map[l] # NULL
  /\ op.call = "copy" => \A k \in DOMAIN op.old : op.old[k] \in Written \cup {Erased}

(* data of page q that the host has not sent yet                           *)
Arrives(q, s) == /\ q > received
                 /\ LET w == wrPages[q - received] IN s \in w.col .. w.col + w.cnt - 1

(* What the buffer of a program command will hold when it is programmed.   *)
Comes(c, l, s) ==
  /\ Arrives(c.page, s) =>
       /\ ~Reading(c.buf, s)
       /\ Val(l, s) = <<wrPages[c.page - received].id, l * SPP + s>>
       /\ wrPages[c.page - received].lpage = l
  /\ ~Arrives(c.page, s) =>
       IF Reading(c.buf, s)
       THEN c = wroom /\ flash[c.bank][bsp[c.bank].row][s] = Val(l, s)
       ELSE dram[c.buf][s] = Val(l, s)

OnTheWay ==
  \A c \in Pending, l \in LPages, s \in Sectors :
    At(c, l) /\ Val(l, s) \in Written => Comes(c, l, s)

(* What the buffer of the page under way holds: the old data around it...  *)
HolesFilled ==
  HolesBegun =>
    \A s \in Sectors : HoleRead(s) /\ Val(op.at.lpage, s) \in Written /\ ~Reading(Buf, s) =>
      dram[Buf][s] = Val(op.at.lpage, s)

(* ... and the new data, from the computing buffer or from the host        *)
CopiedIn ==
  Chosen /\ op.call = "copy" =>
    \A s \in Left .. Left + Now(op.at) - 1 :
      op.old[(op.at.lpage * SPP + s) - op.to] \in Written =>
        dram[ISSD_WR_BUF][s] = op.old[(op.at.lpage * SPP + s) - op.to]

Received ==
  op.call = "write" =>
    \A q \in issued + 1 .. received :
      LET w == Remaining[q - issued]
      IN \A s \in Sectors : s \in w.col .. w.col + w.cnt - 1 =>
           dram[BufOf(q)][s] = <<w.id, w.lpage * SPP + s>>

CopyRead ==
  op.call = "copy" /\ op.pc \in {"read", "finish"} =>
    \A p \in 0 .. op.page - 1, s \in Sectors :
      /\ CopyPage(p) * SPP + s \in op.from .. op.from + op.n - 1
      /\ Val(CopyPage(p), s) \in Written
      /\ ~Reading(COMP(p), s)
      => dram[COMP(p)][s] = Val(CopyPage(p), s)

CopyComputed ==
  op.call = "copy" /\ op.pc \notin {"read", "finish"} =>
    \A k \in 0 .. op.at.remain - 1 :
      op.old[First(op.at) - op.to + k] \in Written =>
        Computed(op.src + k) = op.old[First(op.at) - op.to + k]

-----------------------------------------------------------------------------
(* Numbers *)

\* How far the target bank is from a bank.
LEMMA TurnFacts ==
  ASSUME NEW t \in Banks, NEW b \in Banks
  PROVE  /\ Turn(t, b) \in 0 .. NUM_BANKS - 1
         /\ t = b => Turn(t, b) = NUM_BANKS - 1
         /\ Turn((t + 1) % NUM_BANKS, b) = IF t = b THEN 0 ELSE Turn(t, b) + 1
         /\ (Turn(t, b) = 0 <=> (t + NUM_BANKS - 1) % NUM_BANKS = b)
<1>0. NUM_BANKS \in Nat \ {0} BY GeometryFacts
<1>1. t \in 0 .. NUM_BANKS - 1 /\ b \in 0 .. NUM_BANKS - 1 BY <1>0 DEF Banks
<1>2. \A x, y \in 0 .. NUM_BANKS - 1 :
        Turn(x, y) = IF x > y THEN x - y - 1 ELSE x + NUM_BANKS - y - 1
  <2> SUFFICES ASSUME NEW x \in 0 .. NUM_BANKS - 1, NEW y \in 0 .. NUM_BANKS - 1
               PROVE  Turn(x, y) = IF x > y THEN x - y - 1 ELSE x + NUM_BANKS - y - 1
    OBVIOUS
  <2>1. CASE x > y
    <3>1. x + NUM_BANKS - y - 1 = NUM_BANKS * 1 + (x - y - 1) /\ x - y - 1 \in 0 .. NUM_BANKS - 1
      BY <1>0, <2>1
    <3>2. (NUM_BANKS * 1 + (x - y - 1)) % NUM_BANKS = x - y - 1
      BY <1>0, <3>1, DivModUnique
    <3> QED BY <2>1, <3>1, <3>2 DEF Turn
  <2>2. CASE ~(x > y)
    <3>1. x + NUM_BANKS - y - 1 \in 0 .. NUM_BANKS - 1 BY <1>0, <2>2
    <3>2. (x + NUM_BANKS - y - 1) % NUM_BANKS = x + NUM_BANKS - y - 1
      BY <1>0, <3>1, ModSmall
    <3> QED BY <2>2, <3>2 DEF Turn
  <2> QED BY <2>1, <2>2
<1>3. (t + 1) % NUM_BANKS = IF t + 1 = NUM_BANKS THEN 0 ELSE t + 1
  BY <1>0, <1>1, ModSmall
<1>4. (t + NUM_BANKS - 1) % NUM_BANKS = IF t = 0 THEN NUM_BANKS - 1 ELSE t - 1
  <2>1. CASE t = 0
    <3>1. t + NUM_BANKS - 1 \in 0 .. NUM_BANKS - 1 BY <1>0, <2>1
    <3>2. (t + NUM_BANKS - 1) % NUM_BANKS = t + NUM_BANKS - 1 BY <1>0, <3>1, ModSmall
    <3> QED BY <1>0, <2>1, <3>2
  <2>2. CASE t # 0
    <3>1. t + NUM_BANKS - 1 = NUM_BANKS * 1 + (t - 1) /\ t - 1 \in 0 .. NUM_BANKS - 1
      BY <1>0, <1>1, <2>2
    <3>2. (NUM_BANKS * 1 + (t - 1)) % NUM_BANKS = t - 1 BY <1>0, <3>1, DivModUnique
    <3> QED BY <2>2, <3>1, <3>2
  <2> QED BY <2>1, <2>2
<1>5. (t + 1) % NUM_BANKS \in 0 .. NUM_BANKS - 1 BY <1>0, <1>1, <1>3
<1>6. /\ Turn(t, b) = IF t > b THEN t - b - 1 ELSE t + NUM_BANKS - b - 1
      /\ Turn((t + 1) % NUM_BANKS, b) = IF (t + 1) % NUM_BANKS > b THEN ((t + 1) % NUM_BANKS) - b - 1
                                        ELSE ((t + 1) % NUM_BANKS) + NUM_BANKS - b - 1
  BY <1>1, <1>2, <1>5
<1>7. Turn((t + 1) % NUM_BANKS, b) = IF t = b THEN 0 ELSE Turn(t, b) + 1
  BY <1>0, <1>1, <1>3, <1>6
<1>8. Turn(t, b) = 0 <=> (t + NUM_BANKS - 1) % NUM_BANKS = b
  BY <1>0, <1>1, <1>4, <1>6
<1>9. Turn(t, b) \in 0 .. NUM_BANKS - 1 /\ (t = b => Turn(t, b) = NUM_BANKS - 1)
  BY <1>0, <1>1, <1>6
<1> QED BY <1>7, <1>8, <1>9

\* The place and its page.
LEMMA FirstFacts ==
  ASSUME NEW at \in Places
  PROVE  /\ First(at) \in Nat
         /\ First(at) \div SPP = at.lpage /\ First(at) % SPP = at.off
<1>0. SPP \in Nat \ {0} BY GeometryFacts
<1>1. at.lpage \in Nat /\ at.off \in 0 .. SPP - 1 BY GeometryFacts DEF Places
<1>2. at.lpage * SPP = SPP * at.lpage /\ at.lpage * SPP \in Nat BY <1>0, <1>1, Products
<1>3. (SPP * at.lpage + at.off) \div SPP = at.lpage /\ (SPP * at.lpage + at.off) % SPP = at.off
  <2>1. at.lpage \in Int BY <1>1
  <2> QED BY <1>0, <1>1, <2>1, DivModUnique
<1>4. First(at) \in Nat
  <2> DEFINE x == at.lpage * SPP
  <2>1. x \in Nat /\ at.off \in Nat BY <1>0, <1>1, <1>2
  <2> HIDE DEF x
  <2>2. x + at.off \in Nat BY <2>1
  <2> QED BY <2>2 DEF First, x
<1> QED BY <1>2, <1>3, <1>4 DEF First

(* the last page that the sectors of a place reach                         *)
LastPage(at) == (First(at) + at.remain - 1) \div SPP
PageAt(id, at, k) ==
  LET z == First(at) + at.remain - 1
      col == IF k = 1 THEN at.off ELSE 0
      end == IF at.lpage + k - 1 = LastPage(at) THEN z % SPP ELSE SPP - 1
  IN [id |-> id, lpage |-> at.lpage + k - 1, col |-> col, cnt |-> end - col + 1]

\* The pages of the sectors from a place on.
LEMMA PagesOfPlace ==
  ASSUME NEW at \in Places, at.remain > 0, NEW id
  PROVE  /\ LastPage(at) \in Nat /\ LastPage(at) >= at.lpage
         /\ PagesOf(id, First(at), at.remain)
              = [k \in 1 .. LastPage(at) - at.lpage + 1 |-> PageAt(id, at, k)]
<1>0. SPP \in Nat \ {0} BY GeometryFacts
<1>1. /\ First(at) \in Nat /\ First(at) \div SPP = at.lpage /\ First(at) % SPP = at.off
      /\ at.lpage \in Nat /\ at.remain \in Nat
  BY FirstFacts DEF Places
<1> DEFINE z == First(at) + at.remain - 1
<1>2. z \in Nat /\ z >= First(at) BY <1>1
<1>3. LastPage(at) \in Nat
  <2> HIDE DEF z
  <2>1. z \div SPP \in Nat BY <1>0, <1>2, Quotient
  <2> QED BY <2>1 DEF LastPage, z
<1>4. LastPage(at) >= at.lpage
  <2> DEFINE l == at.lpage  m == LastPage(at)
  <2>1. /\ First(at) = SPP * l + (First(at) % SPP) /\ z = SPP * m + (z % SPP)
        /\ First(at) % SPP \in 0 .. SPP - 1 /\ z % SPP \in 0 .. SPP - 1
    <3>1. First(at) \in Int /\ z \in Int BY <1>1, <1>2
    <3>2. First(at) = SPP * (First(at) \div SPP) + (First(at) % SPP) BY <1>0, <3>1, DivMod, Zenon
    <3>3. z = SPP * (z \div SPP) + (z % SPP) BY <1>0, <3>1, DivMod, Zenon
    <3>4. First(at) % SPP \in 0 .. SPP - 1 /\ z % SPP \in 0 .. SPP - 1
      BY <1>0, <3>1, DivMod, Zenon
    <3> QED BY <1>1, <3>2, <3>3, <3>4 DEF LastPage
  <2> SUFFICES ASSUME m < l PROVE FALSE BY <1>1, <1>3
  <2>2. m * SPP + SPP <= l * SPP /\ m * SPP = SPP * m /\ l * SPP = SPP * l
        /\ m * SPP \in Nat /\ l * SPP \in Nat
    BY <1>0, <1>1, <1>3, Products
  <2> DEFINE a == m * SPP  b == l * SPP
  <2>3. a \in Nat /\ b \in Nat /\ a + SPP <= b BY <2>2
  <2>4. First(at) = b + (First(at) % SPP) /\ z = a + (z % SPP) BY <2>1, <2>2
  <2> HIDE DEF a, b, z, m, l
  <2> QED BY <1>0, <1>2, <2>1, <2>3, <2>4
<1>5. PagesOf(id, First(at), at.remain)
        = [k \in 1 .. LastPage(at) - at.lpage + 1 |-> PageAt(id, at, k)]
  <2> DEFINE from(l) == IF l = at.lpage THEN at.off ELSE 0
             to(l) == IF l = LastPage(at) THEN z % SPP ELSE SPP - 1
             rec(k) == LET l == at.lpage + k - 1
                       IN [id |-> id, lpage |-> l, col |-> from(l), cnt |-> to(l) - from(l) + 1]
  <2>1. PagesOf(id, First(at), at.remain) = [k \in 1 .. LastPage(at) - at.lpage + 1 |-> rec(k)]
    BY <1>1 DEF PagesOf, LastPage, SPP
  <2>2. ASSUME NEW k \in 1 .. LastPage(at) - at.lpage + 1 PROVE rec(k) = PageAt(id, at, k)
    <3>1. at.lpage + k - 1 = at.lpage <=> k = 1 BY <1>1, <1>3
    <3> QED BY <3>1 DEF PageAt
  <2> HIDE DEF rec
  <2> QED BY <2>1, <2>2
<1> QED BY <1>3, <1>4, <1>5

\* The first of the pages is the one that the loop is at, the others are those that
\* remain after it.
LEMMA PagesOfNext ==
  ASSUME NEW at \in Places, at.remain > 0, Inside(at), NEW id
  PROVE  /\ Len(PagesFrom(id, at)) \in Nat \ {0}
         /\ DOMAIN PagesFrom(id, at) = 1 .. Len(PagesFrom(id, at))
         /\ PagesFrom(id, at)[1].id = id /\ PagesFrom(id, at)[1].lpage = at.lpage
         /\ PagesFrom(id, at)[1].col = at.off /\ PagesFrom(id, at)[1].cnt = Now(at)
         /\ \A k \in 1 .. Len(PagesFrom(id, at)) : PagesFrom(id, at)[k].id = id
         /\ NextPage(at).remain = 0 => Len(PagesFrom(id, at)) = 1
         /\ NextPage(at).remain > 0 =>
              /\ Len(PagesFrom(id, NextPage(at))) = Len(PagesFrom(id, at)) - 1
              /\ \A k \in 1 .. Len(PagesFrom(id, NextPage(at))) :
                   PagesFrom(id, NextPage(at))[k] = PagesFrom(id, at)[k + 1]
<1> DEFINE P == PagesFrom(id, at)
           next == NextPage(at)
           Q == PagesFrom(id, next)
           z == First(at) + at.remain - 1
           last == LastPage(at)
           l == at.lpage
           N == last - l + 1
<1>0. SPP \in Nat \ {0} BY GeometryFacts
<1>1. /\ last \in Nat /\ last >= l /\ l \in Nat
      /\ P = [k \in 1 .. N |-> PageAt(id, at, k)]
  BY PagesOfPlace DEF Places, PagesFrom
<1>2. N \in Nat \ {0} BY <1>1
<1>3. Len(P) = N /\ DOMAIN P = 1 .. N
  <2> HIDE DEF N, P
  <2>1. P = [k \in 1 .. N |-> PageAt(id, at, k)] BY <1>1 DEF N
  <2> QED BY <1>2, <2>1
<1>4. \A k \in 1 .. N : P[k] = PageAt(id, at, k) BY <1>1
<1>5. ASSUME NEW k \in 1 .. N PROVE P[k].id = id
  <2>1. PageAt(id, at, k).id = id BY DEF PageAt
  <2> QED BY <1>4, <2>1
<1>6. /\ Now(at) \in 1 .. at.remain /\ at.off + Now(at) <= SPP
      /\ next \in Places /\ next.lpage = l + 1 /\ next.off = 0
      /\ next.remain = at.remain - Now(at)
      /\ next.remain > 0 => First(next) = First(at) + Now(at)
      /\ next.remain = 0 => Now(at) = at.remain
      /\ at.off \in 0 .. SPP - 1 /\ at.remain \in Nat
  BY NextFacts, GeometryFacts DEF Places
<1>7. Now(at) = at.remain \/ Now(at) = SPP - at.off BY DEF Now, SPP
<1>8. PageAt(id, at, 1).lpage = l /\ PageAt(id, at, 1).col = at.off /\ PageAt(id, at, 1).id = id
  BY <1>1 DEF PageAt
<1>9. PageAt(id, at, 1).cnt = (IF l = last THEN z % SPP ELSE SPP - 1) - at.off + 1
  BY <1>1 DEF PageAt
<1>10. First(at) \in Nat /\ First(at) = l * SPP + at.off BY FirstFacts DEF First
<1>11. CASE next.remain = 0
  <2>1. z = l * SPP + (at.off + at.remain - 1) /\ at.off + at.remain - 1 \in 0 .. SPP - 1
    <3> DEFINE x == l * SPP
    <3>1. x \in Nat BY <1>0, <1>1, Products
    <3> HIDE DEF x
    <3>2. First(at) = x + at.off BY <1>10 DEF x
    <3> HIDE DEF next
    <3>3. at.off + at.remain - 1 \in 0 .. SPP - 1 BY <1>0, <1>6, <1>11
    <3>4. z = x + (at.off + at.remain - 1) BY <1>6, <3>1, <3>2
    <3> QED BY <3>3, <3>4 DEF x
  <2> DEFINE r == at.off + at.remain - 1
  <2>2. z = SPP * l + r
    <3>1. l * SPP = SPP * l BY <1>0, <1>1, Products
    <3> HIDE DEF z, r
    <3> QED BY <2>1, <3>1 DEF r
  <2>3. z \div SPP = l /\ z % SPP = r
    <3> HIDE DEF z, r
    <3>1. l \in Int /\ r \in 0 .. SPP - 1 BY <1>1, <2>1 DEF r
    <3> QED BY <1>0, <2>2, <3>1, DivModUnique
  <2>4. last = l BY <2>3 DEF LastPage
  <2>5. N = 1 BY <1>1, <2>4
  <2>6. PageAt(id, at, 1).cnt = r - at.off + 1 BY <1>9, <2>3, <2>4
  <2>7. r - at.off + 1 = Now(at)
    <3> HIDE DEF next
    <3> QED BY <1>6, <1>11
  <2> HIDE DEF P, Q, next, N, z, r
  <2> QED BY <1>2, <1>3, <1>4, <1>5, <1>8, <1>11, <2>5, <2>6, <2>7 DEF P, Q, next
<1>12. CASE next.remain > 0
  <2>1. Now(at) = SPP - at.off /\ First(next) = First(at) + Now(at)
    <3> HIDE DEF next
    <3> QED BY <1>6, <1>7, <1>12
  <2> DEFINE M == LastPage(next) - next.lpage + 1
  <2>2. /\ LastPage(next) \in Nat /\ LastPage(next) >= next.lpage
        /\ Q = [k \in 1 .. M |-> PageAt(id, next, k)]
    BY <1>6, <1>12, PagesOfPlace DEF PagesFrom
  <2>3. First(next) + next.remain - 1 = z
    <3> HIDE DEF next
    <3> QED BY <1>6, <1>10, <2>1
  <2>4. LastPage(next) = last BY <2>3 DEF LastPage
  <2>5. M = N - 1 /\ M \in Nat
    <3> HIDE DEF next, last
    <3> QED BY <1>1, <1>6, <2>2, <2>4
  <2>6. Len(Q) = M /\ DOMAIN Q = 1 .. M
    <3> HIDE DEF M, Q
    <3>1. Q = [k \in 1 .. M |-> PageAt(id, next, k)] BY <2>2 DEF M
    <3> QED BY <2>5, <3>1
  <2>7. ASSUME NEW k \in 1 .. M PROVE Q[k] = P[k + 1]
    <3>1. Q[k] = PageAt(id, next, k) BY <2>2
    <3>2. k + 1 \in 1 .. N /\ k + 1 # 1 /\ k \in Nat
      <4> HIDE DEF M, N
      <4> QED BY <1>2, <2>5
    <3>3. P[k + 1] = PageAt(id, at, k + 1) BY <1>4, <3>2
    <3>4. next.lpage + k - 1 = l + (k + 1) - 1
      <4> HIDE DEF next
      <4> QED BY <1>1, <1>6, <3>2
    <3>5. PageAt(id, next, k) = PageAt(id, at, k + 1)
      <4> DEFINE nl == next.lpage + k - 1
      <4>1. PageAt(id, next, k)
              = [id |-> id, lpage |-> nl, col |-> 0,
                 cnt |-> (IF nl = LastPage(next) THEN z % SPP ELSE SPP - 1) - 0 + 1]
        <5>1. (IF k = 1 THEN next.off ELSE 0) = 0 BY <1>6
        <5> HIDE DEF z, next, nl
        <5> QED BY <2>3, <5>1 DEF PageAt, nl
      <4>2. PageAt(id, at, k + 1)
              = [id |-> id, lpage |-> l + (k + 1) - 1, col |-> 0,
                 cnt |-> (IF l + (k + 1) - 1 = last THEN z % SPP ELSE SPP - 1) - 0 + 1]
        <5>1. (IF k + 1 = 1 THEN at.off ELSE 0) = 0 BY <3>2
        <5> HIDE DEF last
        <5> QED BY <5>1 DEF PageAt, last
      <4> HIDE DEF z, next, last, l
      <4> QED BY <2>4, <3>4, <4>1, <4>2 DEF last
    <3> QED BY <3>1, <3>3, <3>5
  <2>8. PageAt(id, at, 1).cnt = Now(at)
    <3>1. l # last
      <4> HIDE DEF next, last
      <4> QED BY <1>1, <1>6, <2>2, <2>4
    <3>2. PageAt(id, at, 1).cnt = SPP - 1 - at.off + 1 BY <1>9, <3>1
    <3>3. SPP - 1 - at.off + 1 = SPP - at.off
      <4> HIDE DEF next
      <4> QED BY <1>0, <1>6
    <3> QED BY <2>1, <3>2, <3>3
  <2>9. next.remain # 0
    <3> HIDE DEF next
    <3> QED BY <1>12
  <2>10. 1 \in 1 .. N BY <1>2
  <2> HIDE DEF P, Q, next, N, M, z
  <2> QED BY <1>2, <1>3, <1>4, <1>5, <1>8, <1>12, <2>5, <2>6, <2>7, <2>8, <2>9, <2>10
        DEF P, Q, next
<1> HIDE DEF P, Q, N, z, last
<1>13. next.remain = 0 \/ next.remain > 0
  <2>1. next.remain \in Nat BY <1>6 DEF Places
  <2> HIDE DEF next
  <2> QED BY <2>1
<1> HIDE DEF next
<1> QED BY <1>11, <1>12, <1>13 DEF P, Q, next

-----------------------------------------------------------------------------
(* Commands under way *)

\* What is under way is in the Waiting Room or with its bank.
LEMMA UnderWayFacts ==
  ASSUME FlashTypes
  PROVE  /\ \A c : c \in UnderWay <=> c = wroom \/ \E b \in Banks : c = bsp[b]
         /\ \A c : c \in Pending <=> c \in UnderWay /\ c.fc = "PROG"
         /\ \A c : c \in Readers <=> c \in UnderWay /\ c.fc = "READ"
         /\ \A c \in UnderWay : c \in Commands \/ c = NoCmd
         /\ Pending \subseteq Commands /\ Readers \subseteq Commands
         /\ \A c \in Commands : c \in UnderWay => c = wroom \/ c = bsp[c.bank]
<1>1. \A c : c \in UnderWay <=> c = wroom \/ \E b \in Banks : c = bsp[b] BY DEF UnderWay
<1>2. \A c \in UnderWay : c \in Commands \/ c = NoCmd BY <1>1 DEF FlashTypes
<1>3. Pending \subseteq Commands /\ Readers \subseteq Commands
  BY <1>2, CommandFacts DEF Pending, Readers
<1>4. \A c \in Commands : c \in UnderWay => c = wroom \/ c = bsp[c.bank]
  BY <1>1, CommandFacts DEF FlashTypes
<1> QED BY <1>1, <1>2, <1>3, <1>4 DEF Pending, Readers

\* A bank that accepts a command takes none away and adds none.
LEMMA AcceptMoves ==
  ASSUME FlashTypes, Accept
  PROVE  /\ FlashTypes' /\ wroom \in Commands /\ wroom' = NoCmd
         /\ bsp[wroom.bank] = NoCmd /\ bsp'[wroom.bank] = wroom
         /\ \A b \in Banks : b # wroom.bank => bsp'[b] = bsp[b]
         /\ \A c \in Commands : c \in UnderWay' <=> c \in UnderWay
         /\ Pending' = Pending /\ Readers' = Readers
         /\ UNCHANGED <<flash, dram>>
<1>1. wroom \in Commands /\ wroom.bank \in Banks /\ bsp[wroom.bank] = NoCmd
  BY CommandFacts DEF FlashTypes, Accept
<1>2. bsp' = [bsp EXCEPT ![wroom.bank] = wroom] /\ wroom' = NoCmd /\ UNCHANGED <<flash, dram>>
  BY DEF Accept
<1>3. /\ bsp'[wroom.bank] = wroom /\ \A b \in Banks : b # wroom.bank => bsp'[b] = bsp[b]
  BY <1>1, <1>2 DEF FlashTypes
<1>4. FlashTypes' BY AcceptFacts
<1>5. \A c \in Commands : c \in UnderWay' <=> c \in UnderWay
  BY <1>1, <1>2, <1>3, CommandFacts DEF UnderWay
<1>6. Pending' = Pending /\ Readers' = Readers
  <2>1. /\ \A c : c \in Pending <=> c \in Commands /\ c \in UnderWay /\ c.fc = "PROG"
        /\ \A c : c \in Readers <=> c \in Commands /\ c \in UnderWay /\ c.fc = "READ"
    BY UnderWayFacts
  <2>2. /\ \A c : c \in Pending' <=> c \in Commands /\ c \in UnderWay' /\ c.fc = "PROG"
        /\ \A c : c \in Readers' <=> c \in Commands /\ c \in UnderWay' /\ c.fc = "READ"
    BY <1>4, UnderWayFacts, CommandFacts DEF Pending, Readers, UnderWay, FlashTypes
  <2> QED BY <1>5, <2>1, <2>2
<1> QED BY <1>1, <1>2, <1>3, <1>4, <1>5, <1>6

\* A bank that finishes takes its own command away.
LEMMA CompleteMoves ==
  ASSUME FlashTypes, NEW b \in Banks, Complete(b)
  PROVE  /\ FlashTypes' /\ wroom' = wroom /\ bsp[b] \in Commands /\ bsp[b].bank = b
         /\ bsp'[b] = NoCmd /\ \A x \in Banks : x # b => bsp'[x] = bsp[x]
         /\ Pending' \subseteq Pending /\ Readers' \subseteq Readers
         /\ \A c \in Pending : c # bsp[b] => c \in Pending'
         /\ \A c \in Readers : c # bsp[b] => c \in Readers'
<1>1. /\ FlashTypes' /\ wroom' = wroom /\ bsp[b] \in Commands /\ bsp[b].bank = b
      /\ bsp' = [bsp EXCEPT ![b] = NoCmd]
  BY CompleteFacts
<1>2. bsp'[b] = NoCmd /\ \A x \in Banks : x # b => bsp'[x] = bsp[x]
  BY <1>1 DEF FlashTypes
<1>3. \A c : c \in UnderWay' => c \in UnderWay \/ c = NoCmd
  BY <1>1, <1>2 DEF UnderWay
<1>4. \A c \in UnderWay : c # bsp[b] => c \in UnderWay'
  BY <1>1, <1>2 DEF UnderWay
<1> QED BY <1>1, <1>2, <1>3, <1>4, CommandFacts DEF Pending, Readers

\* A command is added.
LEMMA IssueMoves ==
  ASSUME FlashTypes, NEW cmd \in Commands, flash_issue_cmd(cmd), UNCHANGED <<bsp, flash, dram>>
  PROVE  /\ FlashTypes' /\ wroom = NoCmd /\ wroom' = cmd
         /\ cmd.fc = "READ" => Pending' = Pending /\ Readers' = Readers \cup {cmd}
         /\ cmd.fc = "PROG" => Pending' = Pending \cup {cmd} /\ Readers' = Readers
<1>1. FlashTypes' /\ wroom = NoCmd /\ wroom' = cmd BY IssueFacts
<1>2. UnderWay' = {cmd} \cup {bsp[b] : b \in Banks} /\ UnderWay = {NoCmd} \cup {bsp[b] : b \in Banks}
  BY <1>1 DEF UnderWay
<1> QED BY <1>1, <1>2, CommandFacts DEF Pending, Readers

-----------------------------------------------------------------------------
(* Program commands and the host's data *)

Order == ProgCommands /\ HostData /\ Turns

\* No program command is added and the counts stay.
LEMMA ProgSteady ==
  ASSUME ProgCommands, Pending' \subseteq Pending, UNCHANGED <<issued, g_ftl_write_buf_id>>,
         \A c \in Pending' : c.page = 0 => op'.call = "copy" /\ op'.pc = "done" /\ c.bank = NewBank',
         HolesBegun' => wroom'.fc # "PROG"
  PROVE  ProgCommands'
<1>1. \A c \in Pending' : /\ c.col = 0 /\ c.cnt = SPP /\ c.page <= issued'
                          /\ c.buf = IF c.page > 0 THEN BufOf(c.page) ELSE ISSD_WR_BUF
  BY DEF ProgCommands
<1> QED BY <1>1 DEF ProgCommands

\* Nothing of the host's data moves.
LEMMA HostSteady ==
  ASSUME HostData, SataTypes, Pending' \subseteq Pending, UNCHANGED <<issued, received, wrPages>>,
         op.call = "write" <=> op'.call = "write",
         op.call = "write" => UNCHANGED Remaining,
         \A c \in Pending : c.page > received => c \in Pending'
  PROVE  HostData'
<1>1. received' + Len(wrPages') = issued' + (IF op'.call = "write" THEN Len(Remaining') ELSE 0)
  BY DEF HostData
<1>2. op'.call = "write" =>
       \A q \in issued' + 1 .. issued' + Len(Remaining') :
         q > received' => wrPages'[q - received'] = Remaining'[q - issued']
  BY DEF HostData
<1>3. ASSUME NEW q \in received' + 1 .. issued' PROVE \E c \in Pending' : c.page = q
  <2>1. PICK c \in Pending : c.page = q BY <1>3 DEF HostData
  <2>2. q > received BY <1>3 DEF SataTypes
  <2> QED BY <2>1, <2>2
<1>4. ASSUME NEW q \in 1 .. received' - NWB PROVE ~InUse(q)'
  <2>1. ~InUse(q) BY <1>4 DEF HostData
  <2> QED BY <2>1 DEF InUse, Pending
<1> QED BY <1>1, <1>2, <1>3, <1>4 DEF HostData

\* No page is begun and none is issued.
LEMMA TurnsSteady ==
  ASSUME Turns, Pending' \subseteq Pending, UNCHANGED <<issued, g_target_bank, g_target_row>>,
         ~Stopped' => ~Stopped /\ (Chosen' <=> Chosen),
         \A c \in Pending' : c # wroom /\ wroom.fc = "PROG" /\ wroom.bank = c.bank =>
           wroom' = wroom
  PROVE  Turns'
<1>1. \A c \in Pending' : c.page > 0 => issued' - c.page <= NUM_BANKS BY DEF Turns
<1>2. ASSUME ~Stopped', NEW c \in Pending', c.page > 0
      PROVE  InTurn(c)' \/ (c # wroom' /\ wroom'.fc = "PROG" /\ wroom'.bank = c.bank)
  <2>1. /\ NewBank' = NewBank /\ Started' = Started /\ Since(c.bank)' = Since(c.bank)
        /\ Chosen' <=> Chosen
    BY <1>2 DEF NewBank, Started, Since
  <2>2. InTurn(c) => InTurn(c)' BY <2>1 DEF InTurn, Since
  <2> QED BY <1>2, <2>2 DEF Turns
<1> QED BY <1>1, <1>2 DEF Turns

\* Before a copy waits for its page no program command of a copy is under way.
LEMMA NoCopyPending ==
  ASSUME ProgCommands, ~(op.call = "copy" /\ op.pc = "done")
  PROVE  \A c \in Pending : c.page # 0
BY DEF ProgCommands

\* Where nothing but the call or the buffers of reads move, the order stays.
LEMMA OrderSteady ==
  ASSUME IInv, Order, Pending' = Pending, wroom.fc = "PROG" => UNCHANGED wroom,
         wroom'.fc # "PROG" \/ UNCHANGED wroom,
         UNCHANGED <<issued, received, wrPages, g_ftl_write_buf_id, g_target_bank, g_target_row>>,
         op.call = "write" <=> op'.call = "write",
         op.call = "write" => UNCHANGED Remaining,
         ~Stopped' => ~Stopped /\ (Chosen' <=> Chosen),
         \A c \in Pending : c.page = 0 => op'.call = "copy" /\ op'.pc = "done",
         HolesBegun' => wroom'.fc # "PROG"
  PROVE  Order'
<1>1. ProgCommands' BY ProgSteady DEF Order, ProgCommands, NewBank
<1>2. HostData' BY HostSteady DEF Order, IInv, Types
<1>3. Turns' BY TurnsSteady DEF Order
<1> QED BY <1>1, <1>2, <1>3 DEF Order

\* The host's next page.
LEMMA HostSendsOrder ==
  ASSUME IInv, Order, HostSends
  PROVE  Order'
<1> DEFINE T == IF op.call = "write" THEN Len(Remaining) ELSE 0
<1>1. /\ wrPages # << >> /\ wrPages' = Tail(wrPages) /\ received' = received + 1
      /\ received >= NUM_WR_BUFFERS => ~InUse(received + 1 - NUM_WR_BUFFERS)
      /\ UNCHANGED <<wroom, bsp, flash, ftlVars, op, ops, issued, latest>>
  BY DEF HostSends
<1>2. Pending' = Pending /\ UNCHANGED <<g_target_bank, g_target_row, g_ftl_write_buf_id, page_map>>
      /\ UnderWay' = UnderWay
  BY <1>1 DEF Pending, UnderWay, ftlVars
<1>3. /\ received \in Nat /\ issued \in Nat /\ wrPages \in Seq(Packets)
      /\ NWB \in Nat
  BY GeometryFacts DEF IInv, Types, SataTypes, NWB
<1>4. /\ Len(wrPages) \in Nat \ {0} /\ Len(Tail(wrPages)) = Len(wrPages) - 1
      /\ \A i \in 1 .. Len(wrPages) - 1 : Tail(wrPages)[i] = wrPages[i + 1]
  BY <1>1, <1>3, HeadTailProperties
<1>5. ProgCommands'
  <2>1. HolesBegun' <=> HolesBegun
    BY <1>1, <1>2 DEF HolesBegun, Chosen, ReadOld, Old, Left, Right
  <2> QED BY <1>1, <1>2, <2>1, ProgSteady DEF Order, ProgCommands, NewBank
<1>6. Turns'
  <2>1. (Chosen' <=> Chosen) /\ (Stopped' <=> Stopped) BY <1>1 DEF Chosen, Stopped
  <2> QED BY <1>1, <1>2, <2>1, TurnsSteady DEF Order
<1>7. HostData'
  <2>1. Remaining' = Remaining /\ T' = T BY <1>1 DEF Remaining
  <2>2. received' + Len(wrPages') = issued' + T'
    <3>1. received + Len(wrPages) = issued + T BY DEF Order, HostData
    <3> HIDE DEF T
    <3> QED BY <1>1, <1>3, <1>4, <2>1, <3>1
  <2>3. ASSUME op.call = "write", NEW q \in issued + 1 .. issued + Len(Remaining), q > received + 1
        PROVE  wrPages'[q - received'] = Remaining[q - issued]
    <3>1. q \in Nat /\ q > received
      <4>1. q \in Int /\ q > issued BY <1>3, <2>3
      <4> QED BY <1>3, <2>3, <4>1
    <3>2. wrPages[q - received] = Remaining[q - issued] BY <2>3, <3>1 DEF Order, HostData
    <3>3. T = Len(Remaining) /\ received + Len(wrPages) = issued + T
      BY <2>3 DEF Order, HostData
    <3>4. received + Len(wrPages) = issued + Len(Remaining) BY <3>3
    <3>6. q - received - 1 \in 1 .. Len(wrPages) - 1
      <4>1. q <= issued + Len(Remaining) BY <2>3
      <4>2. q <= received + Len(wrPages) BY <3>4, <4>1
      <4> QED BY <1>3, <1>4, <2>3, <3>1, <4>2
    <3>7. q - received' = q - received - 1 /\ (q - received - 1) + 1 = q - received
      BY <1>1, <1>3, <3>1
    <3> QED BY <1>1, <1>4, <3>2, <3>6, <3>7
  <2>4. ASSUME NEW q \in received' + 1 .. issued' PROVE \E c \in Pending' : c.page = q
    <3>1. q \in received + 1 .. issued BY <1>1, <1>3, <2>4
    <3> QED BY <1>2, <3>1 DEF Order, HostData
  <2>5. ASSUME NEW q \in 1 .. received' - NWB PROVE ~InUse(q)'
    <3>1. InUse(q)' <=> InUse(q) BY <1>1, <1>2 DEF InUse
    <3>2. q \in 1 .. received - NWB \/ (q = received + 1 - NWB /\ received >= NWB)
      BY <1>1, <1>3, <2>5
    <3> QED BY <1>1, <3>1, <3>2 DEF Order, HostData, NWB
  <2>6. op'.call = "write" =>
          \A q \in issued' + 1 .. issued' + Len(Remaining') :
            q > received' => wrPages'[q - received'] = Remaining'[q - issued']
    BY <1>1, <2>1, <2>3
  <2> QED BY <2>2, <2>4, <2>5, <2>6 DEF HostData
<1> QED BY <1>5, <1>6, <1>7 DEF Order

\* The Waiting Room hands over its command.
LEMMA BankAcceptsOrder ==
  ASSUME IInv, Order, BankAccepts
  PROVE  Order'
<1>1. /\ Accept /\ FlashTypes /\ UNCHANGED <<ftlVars, op, ops, sataVars, latest>>
  BY DEF BankAccepts, IInv, Types
<1>2. /\ wroom \in Commands /\ wroom' = NoCmd /\ bsp[wroom.bank] = NoCmd
      /\ Pending' = Pending
  BY <1>1, AcceptMoves
<1>3. UNCHANGED <<issued, received, wrPages, g_ftl_write_buf_id, g_target_bank, g_target_row>>
  BY <1>1 DEF ftlVars, sataVars
<1>4. ProgCommands'
  BY <1>1, <1>2, <1>3, ProgSteady, CommandFacts DEF Order, ProgCommands, NewBank
<1>5. HostData'
  <2>1. UNCHANGED Remaining BY <1>1 DEF Remaining
  <2> QED BY <1>1, <1>2, <1>3, <2>1, HostSteady DEF Order, IInv, Types
<1>6. Turns'
  <2>1. (Chosen' <=> Chosen) /\ (Stopped' <=> Stopped) BY <1>1 DEF Chosen, Stopped
  <2>2. \A c \in Pending' : c # wroom => wroom.bank # c.bank
    <3>1. \A c \in Pending : c \in Commands /\ (c = wroom \/ c = bsp[c.bank])
      BY <1>1, UnderWayFacts
    <3> QED BY <1>2, <3>1, CommandFacts
  <2> QED BY <1>2, <1>3, <2>1, <2>2, TurnsSteady DEF Order
<1> QED BY <1>4, <1>5, <1>6 DEF Order

\* A bank finishes its command.
LEMMA BankCompletesOrder ==
  ASSUME IInv, Order, NEW b \in Banks, BankCompletes(b)
  PROVE  Order'
<1>1. /\ Complete(b) /\ FlashTypes /\ UNCHANGED <<ftlVars, op, ops, wrPages, received, issued, latest>>
      /\ bsp[b].fc = "PROG" => bsp[b].page <= received
  BY DEF BankCompletes, IInv, Types
<1>2. /\ wroom' = wroom /\ bsp[b] \in Commands
      /\ Pending' \subseteq Pending
      /\ \A c \in Pending : c # bsp[b] => c \in Pending'
  BY <1>1, CompleteMoves
<1>3. UNCHANGED <<page_map, g_ftl_write_buf_id, g_target_bank, g_target_row>>
  BY <1>1 DEF ftlVars
<1>4. ProgCommands'
  <2>1. HolesBegun' <=> HolesBegun
    BY <1>1, <1>3 DEF HolesBegun, Chosen, ReadOld, Old, Left, Right
  <2> QED BY <1>1, <1>2, <1>3, <2>1, ProgSteady DEF Order, ProgCommands, NewBank
<1>5. HostData'
  <2>1. UNCHANGED Remaining BY <1>1 DEF Remaining
  <2>2. \A c \in Pending : c.page > received => c \in Pending'
    <3>1. \A c \in Pending : c.page \in Nat /\ c.fc = "PROG"
      BY <1>1, UnderWayFacts, CommandFacts
    <3>2. received \in Nat BY DEF IInv, Types, SataTypes
    <3> QED BY <1>1, <1>2, <3>1, <3>2
  <2> QED BY <1>1, <1>2, <2>1, <2>2, HostSteady DEF Order, IInv, Types
<1>6. Turns'
  <2>1. (Chosen' <=> Chosen) /\ (Stopped' <=> Stopped) BY <1>1 DEF Chosen, Stopped
  <2> QED BY <1>1, <1>2, <1>3, <2>1, TurnsSteady DEF Order
<1> QED BY <1>4, <1>5, <1>6 DEF Order

\* A call other than ftl_write moves on, perhaps with a read command.
LEMMA CallOrder ==
  ASSUME IInv, Order, ~Chosen', ~Chosen, ~Stopped, op.call # "write", op'.call # "write",
         UNCHANGED <<issued, received, wrPages, g_ftl_write_buf_id, g_target_bank, g_target_row>>,
         op.call = "copy" /\ op.pc = "done" =>
           (op'.call = "copy" /\ op'.pc = "done") \/ \A c \in Pending : c.page # 0,
         \/ UNCHANGED <<wroom, bsp>>
         \/ \E cmd \in Commands : cmd.fc = "READ" /\ flash_issue_cmd(cmd) /\ UNCHANGED <<bsp, flash, dram>>
  PROVE  Order'
<1>1. \A c \in Pending : c.page = 0 => op'.call = "copy" /\ op'.pc = "done"
  BY NoCopyPending DEF Order
<1>2. ~HolesBegun' BY DEF HolesBegun
<1>3. CASE UNCHANGED <<wroom, bsp>>
  <2>1. Pending' = Pending BY <1>3 DEF Pending, UnderWay
  <2> QED BY <1>1, <1>2, <1>3, <2>1, OrderSteady
<1>4. ASSUME NEW cmd \in Commands, cmd.fc = "READ", flash_issue_cmd(cmd), UNCHANGED <<bsp, flash, dram>>
      PROVE  Order'
  <2>1. wroom = NoCmd /\ wroom' = cmd /\ Pending' = Pending
    BY <1>4, IssueMoves DEF IInv, Types
  <2>2. wroom.fc # "PROG" /\ wroom'.fc # "PROG" BY <1>4, <2>1, CommandFacts
  <2> QED BY <1>1, <1>2, <2>1, <2>2, OrderSteady
<1> QED BY <1>3, <1>4

\* ftl_read, and the reading of a copy.
LEMMA ReadsOrder ==
  ASSUME IInv, Order, ftl_read \/ issd_read_page \/ issd_read_unwritten \/ issd_read_done
  PROVE  Order'
<1>1. Types /\ CallTypes BY DEF IInv, Types
<1>2. CASE ftl_read
  <2>1. op.call = "read" /\ Continue(op.at)
    BY <1>2 DEF ftl_read, ftl_read_mapped, ftl_read_unwritten, ReadPage
  <2>2. CallTypes' /\ ~Chosen' BY <1>1, <2>1, ContinueFacts
  <2>3. op'.call # "write"
    <3>1. op \in ReadCalls BY <1>1, <2>1, CallFacts
    <3> QED BY <2>1, <3>1 DEF Continue, Return, ReadCalls
  <2>4. ~Chosen /\ ~Stopped BY <2>1 DEF Chosen, Stopped
  <2>5. UNCHANGED <<issued, received, wrPages, g_ftl_write_buf_id, g_target_bank, g_target_row>>
    BY <1>2 DEF ftl_read, ftl_read_mapped, ftl_read_unwritten, ReadPage
  <2>6. CASE ftl_read_unwritten
    <3>1. UNCHANGED <<wroom, bsp>> BY <2>6 DEF ftl_read_unwritten
    <3> QED BY <2>1, <2>2, <2>3, <2>4, <2>5, <3>1, CallOrder
  <2>7. CASE ftl_read_mapped
    <3>1. \E cmd \in Commands : cmd.fc = "READ" /\ flash_issue_cmd(cmd) /\ UNCHANGED <<bsp, flash, dram>>
      <4> DEFINE cmd == Cmd("READ", BankOf(Old), RowOf(Old), op.at.off, Now(op.at),
                            RD_BUF(g_ftl_read_buf_id), NoPage)
      <4>1. flash_issue_cmd(cmd) /\ UNCHANGED <<bsp, flash, dram>>
        BY <2>7 DEF ftl_read_mapped, Old
      <4>2. RD_BUF(g_ftl_read_buf_id) \in Buffers BY <1>1, BufferFacts DEF Types, FtlTypes
      <4>3. BankOf(Old) \in Banks /\ RowOf(Old) \in Rows /\ op.at.off \in Nat /\ Now(op.at) \in Nat
        BY <1>1, <2>1, PageFacts, CallFacts DEF Left
      <4>4. cmd \in Commands /\ cmd.fc = "READ" BY <4>2, <4>3, CmdMade DEF NoPage
      <4> HIDE DEF cmd
      <4> QED BY <4>1, <4>4
    <3> QED BY <2>1, <2>2, <2>3, <2>4, <2>5, <3>1, CallOrder
  <2> QED BY <1>2, <2>6, <2>7 DEF ftl_read
<1>3. ASSUME issd_read_page \/ issd_read_unwritten \/ issd_read_done
      PROVE  /\ op.call = "copy" /\ op.pc \in {"read", "finish"} /\ ~Chosen /\ ~Stopped
             /\ UNCHANGED <<issued, received, wrPages, g_ftl_write_buf_id, g_target_bank, g_target_row>>
  BY <1>3 DEF issd_read_page, issd_read_unwritten, issd_read_done, Chosen, Stopped, ftlVars, sataVars
<1>4. CASE issd_read_unwritten
  <2>1. op' = [call |-> "none"] /\ UNCHANGED <<wroom, bsp>>
    BY <1>4 DEF issd_read_unwritten, Return, flashVars
  <2>2. ~Chosen' /\ op'.call # "write" BY <2>1 DEF Chosen
  <2> QED BY <1>3, <1>4, <2>1, <2>2, CallOrder
<1>5. CASE issd_read_done
  <2>1. op'.call = "copy" /\ op'.pc = "page" /\ UNCHANGED <<wroom, bsp>>
    BY <1>5 DEF issd_read_done, flashVars
  <2>2. ~Chosen' /\ op'.call # "write" BY <2>1 DEF Chosen
  <2> QED BY <1>3, <1>5, <2>1, <2>2, CallOrder
<1>6. CASE issd_read_page
  <2> DEFINE cmd == Cmd("READ", BankOf(Old), RowOf(Old), op.at.off, Now(op.at),
                        COMP(op.page), NoPage)
  <2>1. flash_issue_cmd(cmd) /\ UNCHANGED <<bsp, flash, dram>>
    BY <1>6 DEF issd_read_page
  <2>2. op \in CopyReads /\ CopyReading /\ op.at.remain > 0 /\ op.at \in Places /\ Inside(op.at)
    BY <1>1, <1>3, <1>6, CallFacts DEF issd_read_page
  <2>3. cmd \in Commands /\ cmd.fc = "READ"
    <3>1. op.page \in 0 .. NUM_LPAGES
      <4>1. op.page \in Nat /\ op.page <= op.at.lpage BY <2>2 DEF CopyReads, CopyReading
      <4>2. op.at.lpage \in Nat /\ op.at.lpage < NUM_LPAGES /\ NUM_LPAGES \in Nat
        BY <2>2, PlaceInside, GeometryFacts DEF LPages, Places
      <4> QED BY <4>1, <4>2
    <3>2. COMP(op.page) \in Buffers BY <3>1, BufferFacts
    <3>3. BankOf(Old) \in Banks /\ RowOf(Old) \in Rows /\ op.at.off \in Nat /\ Now(op.at) \in Nat
      BY <1>1, <1>3, <1>6, <2>2, PageFacts DEF Left
    <3> QED BY <3>2, <3>3, CmdMade DEF NoPage
  <2>4. op'.call = "copy" /\ op'.pc \in {"read", "finish"}
    BY <1>6, <2>2 DEF issd_read_page, CopyReads
  <2>5. ~Chosen' /\ op'.call # "write" BY <2>4 DEF Chosen
  <2> HIDE DEF cmd
  <2> QED BY <1>3, <1>6, <2>1, <2>3, <2>5, CallOrder
<1> QED BY <1>2, <1>4, <1>5, <1>6

\* A copy has waited for its page.
LEMMA WriteDoneOrder ==
  ASSUME IInv, Order, issd_write_done
  PROVE  Order'
<1>1. /\ op.call = "copy" /\ op.pc = "done" /\ FlashTypes /\ CallTypes
      /\ UNCHANGED <<flashVars, ftlVars, ops, sataVars, latest>>
  BY DEF issd_write_done, IInv, Types
<1>2. BankIdle(NewBank)
  <2>1. NewBank \in Banks BY BankRound DEF IInv, Types, FtlTypes, NewBank
  <2> QED BY <2>1 DEF issd_write_done, AllIdle, BankIdle
<1>3. \A c \in Pending : c.page # 0
  <2>1. \A c \in Pending : c \in Commands /\ (c = wroom \/ c = bsp[c.bank])
    BY <1>1, UnderWayFacts
  <2> QED BY <1>2, <2>1, CommandFacts DEF BankIdle, Order, ProgCommands
<1>4. ~Chosen' /\ op'.call # "write"
  <2>1. CASE NextPage(op.at).remain = 0 BY <2>1 DEF issd_write_done, Return, Chosen
  <2>2. CASE NextPage(op.at).remain # 0
    <3>1. op \in CopyWrites BY <1>1, CallFacts
    <3>2. op'.call = "copy" /\ op'.pc = "page"
      BY <2>2, <3>1 DEF issd_write_done, CopyWrites
    <3> QED BY <3>2 DEF Chosen
  <2> QED BY <2>1, <2>2
<1>5. ~Chosen /\ ~Stopped BY <1>1 DEF Chosen, Stopped
<1>6. UNCHANGED <<wroom, bsp, issued, received, wrPages, g_ftl_write_buf_id, g_target_bank, g_target_row>>
  BY <1>1 DEF flashVars, ftlVars, sataVars
<1> QED BY <1>1, <1>3, <1>4, <1>5, <1>6, CallOrder

\* Where no call, no command and none of the host's write data moves.
LEMMA SameOrder ==
  ASSUME IInv, Order,
         UNCHANGED <<wroom, bsp, op, page_map, issued, received, wrPages, g_ftl_write_buf_id,
                     g_target_bank, g_target_row>>
  PROVE  Order'
<1>1. Pending' = Pending BY DEF Pending, UnderWay
<1>2. /\ UNCHANGED Remaining /\ (Chosen' <=> Chosen) /\ (Stopped' <=> Stopped)
      /\ (HolesBegun' <=> HolesBegun)
  BY DEF Remaining, Chosen, Stopped, HolesBegun, ReadOld, Old, Left, Right
<1>3. /\ \A c \in Pending : c.page = 0 => op'.call = "copy" /\ op'.pc = "done"
      /\ HolesBegun => wroom.fc # "PROG"
  BY DEF Order, ProgCommands
<1> QED BY <1>1, <1>2, <1>3, OrderSteady

\* The host begins a read, or a copy.
LEMMA BeginReadsOrder ==
  ASSUME IInv, Order,
         \/ \E r \in Reads : BeginRead(r[1], r[2])
         \/ \E c \in Copies : BeginCopy(c[1], c[2], c[3])
  PROVE  Order'
<1>1. PICK call : /\ Begin(call) /\ wrPages' = wrPages
                  /\ call.call = "read" \/ (call.call = "copy" /\ call.pc = "read")
  <2>1. ASSUME NEW r \in Reads, BeginRead(r[1], r[2])
        PROVE  \E call : /\ Begin(call) /\ wrPages' = wrPages
                         /\ call.call = "read" \/ (call.call = "copy" /\ call.pc = "read")
    <3> DEFINE call == [call |-> "read", at |-> Span0(r[1], r[2])]
    <3>1. Begin(call) /\ wrPages' = wrPages /\ call.call = "read" BY <2>1 DEF BeginRead
    <3> HIDE DEF call
    <3> QED BY <3>1
  <2>2. ASSUME NEW c \in Copies, BeginCopy(c[1], c[2], c[3])
        PROVE  \E call : /\ Begin(call) /\ wrPages' = wrPages
                         /\ call.call = "read" \/ (call.call = "copy" /\ call.pc = "read")
    <3> DEFINE call == [call |-> "copy", pc |-> "read", page |-> 0, at |-> Span0(c[1], c[3]),
                        from |-> c[1], to |-> c[2], n |-> c[3],
                        old |-> [k \in 0 .. c[3] - 1 |-> latest[c[1] + k]]]
    <3>1. /\ Begin(call) /\ wrPages' = wrPages
          /\ call.call = "copy" /\ call.pc = "read"
      BY <2>2 DEF BeginCopy
    <3> HIDE DEF call
    <3> QED BY <3>1
  <2> QED BY <2>1, <2>2
<1>2. /\ op.call = "none" /\ op' = call
      /\ UNCHANGED <<flashVars, ftlVars, received, issued, rdPages, latest>>
  BY <1>1 DEF Begin
<1>3. ~Chosen' /\ ~Chosen /\ ~Stopped /\ op.call # "write" /\ op'.call # "write"
  BY <1>1, <1>2 DEF Chosen, Stopped
<1>4. UNCHANGED <<wroom, bsp, issued, received, wrPages, g_ftl_write_buf_id, g_target_bank, g_target_row>>
  BY <1>1, <1>2 DEF flashVars, ftlVars
<1> QED BY <1>2, <1>3, <1>4, CallOrder

\* The host begins a write: its pages come after all others.
LEMMA BeginWriteOrder ==
  ASSUME IInv, Order, NEW w \in Writes, BeginWrite(w[1], w[2])
  PROVE  Order'
<1> DEFINE P == PagesOf(ops + 1, w[1], w[2])
           call == [call |-> "write", pc |-> "page", id |-> ops + 1, at |-> Span0(w[1], w[2])]
<1>1. /\ op.call = "none" /\ op' = call /\ wrPages' = wrPages \o P /\ ops < MaxOps
      /\ UNCHANGED <<flashVars, ftlVars, received, issued, rdPages, latest>>
  BY DEF BeginWrite, Begin
<1>2. /\ op'.call = "write" /\ op'.pc = "page" /\ op'.id = ops + 1 /\ op'.at = Span0(w[1], w[2])
  BY <1>1
<1>3. UNCHANGED <<wroom, bsp, issued, received, g_ftl_write_buf_id, g_target_bank, g_target_row>>
  BY <1>1 DEF flashVars, ftlVars
<1>4. Pending' = Pending /\ UnderWay' = UnderWay BY <1>3 DEF Pending, UnderWay
<1>5. ~Chosen' /\ ~Chosen /\ ~Stopped /\ ~HolesBegun' BY <1>1, <1>2 DEF Chosen, Stopped, HolesBegun
<1>6. ProgCommands'
  <2>1. \A c \in Pending : c.page # 0 BY <1>1, NoCopyPending DEF Order
  <2> QED BY <1>3, <1>4, <1>5, <2>1, ProgSteady DEF Order
<1>7. Turns' BY <1>3, <1>4, <1>5, TurnsSteady DEF Order
<1>8. HostData'
  <2>1. InDevice(w[1], w[2]) BY Requests
  <2>2. P \in Seq(Packets)
    <3>1. ops + 1 \in 1 .. MaxOps BY <1>1, GeometryFacts DEF IInv, Types, SataTypes
    <3> QED BY <2>1, <3>1, PagesOfFacts
  <2>3. Remaining' = P
    <3>1. First(Span0(w[1], w[2])) = w[1] /\ Span0(w[1], w[2]).remain = w[2]
      BY <2>1, Span0Facts
    <3>2. Remaining' = PagesOf(op'.id, First(op'.at), op'.at.remain) BY DEF Remaining, PagesFrom, First
    <3> QED BY <1>2, <3>1, <3>2
  <2> HIDE DEF P
  <2>4. /\ received \in Nat /\ issued \in Nat /\ wrPages \in Seq(Packets)
        /\ received + Len(wrPages) = issued
    <3>1. received \in Nat /\ issued \in Nat /\ wrPages \in Seq(Packets)
      BY DEF IInv, Types, SataTypes
    <3>2. received + Len(wrPages) = issued + 0 BY <1>1 DEF Order, HostData
    <3> QED BY <3>1, <3>2
  <2>5. /\ Len(wrPages) \in Nat /\ Len(P) \in Nat /\ Len(wrPages') = Len(wrPages) + Len(P)
        /\ \A k \in 1 .. Len(P) : wrPages'[Len(wrPages) + k] = P[k]
    <3>1. Len(wrPages) \in Nat /\ Len(P) \in Nat BY <2>2, <2>4
    <3>2. Len(wrPages') = Len(wrPages) + Len(P) BY <1>1, <2>2, <2>4, ConcatProperties
    <3>3. ASSUME NEW k \in 1 .. Len(P) PROVE wrPages'[Len(wrPages) + k] = P[k]
      <4>1. Len(wrPages) + k \in 1 .. Len(wrPages) + Len(P) /\ ~(Len(wrPages) + k <= Len(wrPages))
            /\ Len(wrPages) + k - Len(wrPages) = k
        BY <3>1
      <4> QED BY <1>1, <2>2, <2>4, <4>1, ConcatProperties
    <3> QED BY <3>1, <3>2, <3>3
  <2>6. received' + Len(wrPages') = issued' + Len(Remaining') BY <1>3, <2>3, <2>4, <2>5
  <2>7. ASSUME NEW q \in issued' + 1 .. issued' + Len(Remaining')
        PROVE  wrPages'[q - received'] = Remaining'[q - issued']
    <3>1. q - issued \in 1 .. Len(P) /\ q - received = Len(wrPages) + (q - issued)
      BY <1>3, <2>3, <2>4, <2>5, <2>7
    <3> QED BY <1>3, <2>3, <2>5, <3>1
  <2>8. \A q \in received' + 1 .. issued' : \E c \in Pending' : c.page = q
    BY <1>3, <1>4 DEF Order, HostData
  <2>9. \A q \in 1 .. received' - NWB : ~InUse(q)'
    BY <1>3, <1>4 DEF Order, HostData, InUse
  <2> QED BY <1>2, <2>6, <2>7, <2>8, <2>9 DEF HostData
<1> QED BY <1>6, <1>7, <1>8 DEF Order

\* What a call that writes keeps when only its next step changes.
LEMMA PcFacts ==
  ASSUME CallTypes, op.call \in {"write", "copy"}, op.pc \notin {"read", "finish"},
         NEW pc, op' = [op EXCEPT !.pc = pc]
  PROVE  /\ op'.call = op.call /\ op'.pc = pc /\ op'.at = op.at
         /\ op.call = "write" => op'.id = op.id
         /\ op.call = "copy" => op'.src = op.src /\ op'.to = op.to /\ op'.old = op.old
<1>1. CASE op.call = "write"
  <2>1. op \in WriteCalls BY <1>1, CallFacts
  <2> QED BY <1>1, <2>1 DEF WriteCalls
<1>2. CASE op.call = "copy"
  <2>1. op \in CopyWrites BY <1>2, CallFacts
  <2> QED BY <1>2, <2>1 DEF CopyWrites
<1> QED BY <1>1, <1>2

\* What StartPage does to the call and to the rows.
LEMMA StartPageFacts ==
  ASSUME IInv, StartPage
  PROVE  /\ op.call \in {"write", "copy"} /\ op.pc = "page" /\ op'.call = op.call
         /\ op'.at = op.at /\ (op.call = "write" => op'.id = op.id)
         /\ op.call = "copy" => op'.src = op.src /\ op'.to = op.to /\ op'.old = op.old
         /\ g_target_bank \in Banks
         /\ g_target_bank' = (g_target_bank + 1) % NUM_BANKS /\ NewBank' = g_target_bank
         /\ UNCHANGED <<wroom, bsp, flash, page_map, g_ftl_write_buf_id, g_ftl_read_buf_id,
                        ops, wrPages, received, issued, rdPages, latest>>
         /\ ~HolesBegun' /\ (Stopped' \/ Chosen')
         /\ \/ Stopped' /\ ~Chosen' /\ UNCHANGED <<g_target_row, dram>>
            \/ /\ Chosen' /\ ~Stopped'
               /\ FreeRow(g_target_bank) \in Rows
               /\ g_target_row' = [g_target_row EXCEPT ![g_target_bank] = FreeRow(g_target_bank) + 1]
               /\ dram' = IF op.call = "copy" THEN CopyIn ELSE dram
<1> DEFINE b == g_target_bank  row == FreeRow(b)
<1>1. CallTypes /\ g_target_bank \in Banks /\ FtlTypes /\ RowsUsable BY DEF IInv, Types, FtlTypes
<1>2. /\ op.call \in {"write", "copy"} /\ op.pc = "page"
      /\ g_target_bank' = (b + 1) % NUM_BANKS
      /\ UNCHANGED <<wroom, bsp, flash, page_map, g_ftl_write_buf_id, g_ftl_read_buf_id,
                     ops, sataVars, latest>>
  BY DEF StartPage
<1>3. UNCHANGED <<wrPages, received, issued, rdPages>> BY <1>2 DEF sataVars
<1>4. NewBank' = b BY <1>1, <1>2, BankRound DEF NewBank
<1>5. row \in Nat /\ (row < PPB => row \in Rows) /\ PPB \in Nat
  BY <1>1, FreeRowFacts, GeometryFacts
<1>6. CASE row >= PPB
  <2>1. op' = [op EXCEPT !.pc = "stopped"] /\ UNCHANGED <<g_target_row, dram>>
    BY <1>6 DEF StartPage, PPB
  <2>2. /\ op'.call = op.call /\ op'.pc = "stopped" /\ op'.at = op.at
        /\ op.call = "write" => op'.id = op.id
        /\ op.call = "copy" => op'.src = op.src /\ op'.to = op.to /\ op'.old = op.old
    BY <1>1, <1>2, <2>1, PcFacts
  <2>3. Stopped' /\ ~Chosen' /\ ~HolesBegun' BY <1>2, <2>2 DEF Stopped, Chosen, HolesBegun
  <2> QED BY <1>1, <1>2, <1>3, <1>4, <2>1, <2>2, <2>3
<1>7. CASE ~(row >= PPB)
  <2> DEFINE pc == IF ~ReadOld THEN "prog" ELSE IF Left # 0 THEN "left" ELSE "right"
  <2>1. /\ op' = [op EXCEPT !.pc = pc]
        /\ g_target_row' = [g_target_row EXCEPT ![b] = row + 1]
        /\ dram' = IF op.call = "copy" THEN CopyIn ELSE dram
    BY <1>7 DEF StartPage, PPB
  <2> HIDE DEF pc
  <2>2. /\ op'.call = op.call /\ op'.pc = pc /\ op'.at = op.at
        /\ op.call = "write" => op'.id = op.id
        /\ op.call = "copy" => op'.src = op.src /\ op'.to = op.to /\ op'.old = op.old
    BY <1>1, <1>2, <2>1, PcFacts
  <2>3. Chosen' /\ ~Stopped' BY <1>2, <2>2 DEF Chosen, Stopped, pc
  <2>4. (ReadOld' <=> ReadOld) /\ Left' = Left BY <1>2, <2>2 DEF ReadOld, Old, Left, Right
  <2>5. ~HolesBegun' BY <2>2, <2>4 DEF HolesBegun, pc
  <2>6. row \in Rows BY <1>5, <1>7
  <2> QED BY <1>1, <1>2, <1>3, <1>4, <2>1, <2>2, <2>3, <2>5, <2>6
<1> QED BY <1>6, <1>7

\* A page is begun: the target bank goes one on.
LEMMA StartPageOrder ==
  ASSUME IInv, Order, StartPage
  PROVE  Order'
<1> DEFINE b == g_target_bank
<1>1. /\ op.call \in {"write", "copy"} /\ op.pc = "page" /\ op'.call = op.call
      /\ op'.at = op.at /\ (op.call = "write" => op'.id = op.id)
      /\ b \in Banks /\ g_target_bank' = (b + 1) % NUM_BANKS /\ NewBank' = b
      /\ UNCHANGED <<wroom, bsp, g_ftl_write_buf_id, wrPages, received, issued>>
      /\ ~HolesBegun' /\ (Stopped' \/ Chosen')
  BY StartPageFacts
<1>2. ~Chosen /\ ~Stopped BY <1>1 DEF Chosen, Stopped
<1>3. Pending' = Pending /\ UnderWay' = UnderWay BY <1>1 DEF Pending, UnderWay
<1>4. ProgCommands'
  <2>1. \A c \in Pending : c.page # 0 BY <1>1, NoCopyPending DEF Order
  <2> QED BY <1>1, <1>3, <2>1, ProgSteady DEF Order
<1>5. HostData'
  <2>1. op.call = "write" => UNCHANGED Remaining BY <1>1 DEF Remaining
  <2> QED BY <1>1, <1>3, <2>1, HostSteady DEF Order, IInv, Types
<1>6. ASSUME ~Stopped', NEW c \in Pending, c.page > 0
      PROVE  InTurn(c)' \/ (c # wroom' /\ wroom'.fc = "PROG" /\ wroom'.bank = c.bank)
  <2>1. /\ Chosen' /\ Started' = 1 /\ Started = 0
        /\ g_target_row' = [g_target_row EXCEPT ![b] = FreeRow(b) + 1]
    BY <1>2, <1>6, StartPageFacts DEF Started
  <2>2. c \in Commands /\ c.bank \in Banks /\ c.page \in Nat
    BY UnderWayFacts, CommandFacts DEF IInv, Types
  <2>3. InTurn(c) \/ (c # wroom /\ wroom.fc = "PROG" /\ wroom.bank = c.bank)
    BY <1>2, <1>6 DEF Order, Turns
  <2>4. CASE c # wroom /\ wroom.fc = "PROG" /\ wroom.bank = c.bank BY <1>1, <2>4
  <2>5. CASE InTurn(c)
    <3>1. c.row + 1 = g_target_row[c.bank] /\ issued - c.page + 0 <= Since(c.bank)
      BY <1>2, <2>1, <2>5 DEF InTurn
    <3>2. issued \in Nat BY DEF IInv, Types, SataTypes
    <3>3. CASE c.bank = b
      <4>1. Since(c.bank) = NUM_BANKS - 1 /\ NUM_BANKS \in Nat
        BY <1>1, <3>3, TurnFacts, GeometryFacts DEF Since
      <4>2. issued - c.page < NUM_BANKS BY <2>2, <3>1, <3>2, <4>1
      <4> QED BY <1>1, <2>1, <3>3, <4>2 DEF InTurn
    <3>4. CASE c.bank # b
      <4>1. Since(c.bank)' = Since(c.bank) + 1 /\ Since(c.bank) \in Int
        <5>1. /\ Turn(b, c.bank) \in 0 .. NUM_BANKS - 1
              /\ Turn((b + 1) % NUM_BANKS, c.bank) = Turn(b, c.bank) + 1
          BY <1>1, <2>2, <3>4, TurnFacts
        <5>2. Turn(b, c.bank) \in Int BY <5>1, GeometryFacts
        <5>3. Since(c.bank)' = Turn((b + 1) % NUM_BANKS, c.bank) BY <1>1 DEF Since, Turn
        <5> QED BY <5>1, <5>2, <5>3 DEF Since
      <4>2. g_target_row'[c.bank] = g_target_row[c.bank]
        BY <1>1, <2>1, <2>2, <3>4 DEF IInv, Types, FtlTypes
      <4>3. issued' - c.page + Started' <= Since(c.bank)'
        BY <1>1, <2>1, <2>2, <3>1, <3>2, <4>1
      <4> QED BY <3>1, <4>2, <4>3 DEF InTurn, Since
    <3> QED BY <3>3, <3>4
  <2> QED BY <2>3, <2>4, <2>5
<1>7. Turns'
  <2>1. \A c \in Pending' : c.page > 0 => issued' - c.page <= NUM_BANKS
    BY <1>1, <1>3 DEF Order, Turns
  <2> QED BY <1>3, <1>6, <2>1 DEF Turns
<1> QED BY <1>4, <1>5, <1>7 DEF Order

\* The reading of a hole: a read command of the old page.
LEMMA ReadHoleFacts ==
  ASSUME IInv, ReadLeftHole \/ ReadRightHole
  PROVE  /\ op.call \in {"write", "copy"} /\ op.pc \in {"left", "right"}
         /\ op'.call = op.call /\ op'.at = op.at /\ (op.call = "write" => op'.id = op.id)
         /\ op.call = "copy" => op'.src = op.src /\ op'.to = op.to /\ op'.old = op.old
         /\ Chosen /\ Chosen' /\ ~Stopped /\ ~Stopped'
         /\ UNCHANGED <<bsp, flash, dram, ftlVars, ops, sataVars, latest>>
         /\ \E col \in Nat, cnt \in Nat :
              LET cmd == Cmd("READ", BankOf(Old), RowOf(Old), col, cnt, Buf, NoPage)
              IN /\ cmd \in Commands /\ flash_issue_cmd(cmd)
                 /\ \/ op.pc = "left" /\ col = 0 /\ cnt = Left
                       /\ op'.pc = IF Right # 0 THEN "right" ELSE "prog"
                    \/ op.pc = "right" /\ col = SPP - Right /\ cnt = Right /\ op'.pc = "prog"
<1>1. CallTypes /\ Types BY DEF IInv, Types
<1>2. op.call \in {"write", "copy"} /\ op.pc \in {"left", "right"}
  BY DEF ReadLeftHole, ReadRightHole
<1>3. op.at.remain > 0 /\ Left \in Nat /\ Right \in Nat /\ SPP - Right \in Nat
      /\ BankOf(Old) \in Banks /\ RowOf(Old) \in Rows /\ Buf \in Buffers
  <2>1. op.at.remain > 0 BY <1>1, <1>2, CallFacts
  <2>2. /\ Left \in Nat /\ Right \in 0 .. SPP - 1
        /\ BankOf(Old) \in Banks /\ RowOf(Old) \in Rows /\ Buf \in Buffers
    BY <1>1, <1>2, <2>1, PageFacts
  <2>3. SPP \in Nat BY GeometryFacts
  <2> QED BY <2>1, <2>2, <2>3
<1>4. PICK col \in Nat, cnt \in Nat, pc \in {"right", "prog"} :
        /\ ReadHole(col, cnt, pc)
        /\ \/ op.pc = "left" /\ col = 0 /\ cnt = Left
              /\ pc = IF Right # 0 THEN "right" ELSE "prog"
           \/ op.pc = "right" /\ col = SPP - Right /\ cnt = Right /\ pc = "prog"
  <2>1. CASE ReadLeftHole BY <1>3, <2>1 DEF ReadLeftHole
  <2>2. CASE ReadRightHole BY <1>3, <2>2 DEF ReadRightHole, SPP
  <2> QED BY <2>1, <2>2
<1> DEFINE cmd == Cmd("READ", BankOf(Old), RowOf(Old), col, cnt, Buf, NoPage)
<1>5. /\ flash_issue_cmd(cmd) /\ op' = [op EXCEPT !.pc = pc]
      /\ UNCHANGED <<bsp, flash, dram, ftlVars, ops, sataVars, latest>>
  BY <1>4 DEF ReadHole
<1>6. /\ op'.call = op.call /\ op'.pc = pc /\ op'.at = op.at
      /\ op.call = "write" => op'.id = op.id
      /\ op.call = "copy" => op'.src = op.src /\ op'.to = op.to /\ op'.old = op.old
  BY <1>1, <1>2, <1>5, PcFacts
<1>7. Chosen /\ Chosen' /\ ~Stopped /\ ~Stopped' BY <1>2, <1>6 DEF Chosen, Stopped
<1>8. cmd \in Commands BY <1>3, CmdMade DEF NoPage
<1> QED BY <1>2, <1>4, <1>5, <1>6, <1>7, <1>8

\* A hole of the page is read.
LEMMA ReadHoleOrder ==
  ASSUME IInv, Order, ReadLeftHole \/ ReadRightHole
  PROVE  Order'
<1>1. /\ op.call \in {"write", "copy"} /\ op.pc \in {"left", "right"}
      /\ op'.call = op.call /\ op'.at = op.at /\ (op.call = "write" => op'.id = op.id)
      /\ Chosen /\ Chosen' /\ ~Stopped /\ ~Stopped'
      /\ UNCHANGED <<bsp, flash, dram, ftlVars, ops, sataVars, latest>>
  BY ReadHoleFacts
<1>2. PICK cmd \in Commands : cmd.fc = "READ" /\ flash_issue_cmd(cmd)
  <2>1. PICK col \in Nat, cnt \in Nat :
          /\ Cmd("READ", BankOf(Old), RowOf(Old), col, cnt, Buf, NoPage) \in Commands
          /\ flash_issue_cmd(Cmd("READ", BankOf(Old), RowOf(Old), col, cnt, Buf, NoPage))
    BY ReadHoleFacts
  <2>2. Cmd("READ", BankOf(Old), RowOf(Old), col, cnt, Buf, NoPage).fc = "READ" BY DEF Cmd
  <2> QED BY <2>1, <2>2
<1>3. wroom = NoCmd /\ wroom' = cmd /\ Pending' = Pending
  BY <1>1, <1>2, IssueMoves DEF IInv, Types
<1>4. wroom.fc # "PROG" /\ wroom'.fc # "PROG" BY <1>2, <1>3, CommandFacts
<1>5. UNCHANGED <<issued, received, wrPages, g_ftl_write_buf_id, g_target_bank, g_target_row>>
  BY <1>1 DEF ftlVars, sataVars
<1>6. op.call = "write" => UNCHANGED Remaining BY <1>1 DEF Remaining
<1>7. \A c \in Pending : c.page # 0 BY <1>1, NoCopyPending DEF Order
<1> QED BY <1>1, <1>3, <1>4, <1>5, <1>6, <1>7, OrderSteady

\* What ProgramPage adds: a program command of the row that StartPage has taken.
LEMMA ProgramMoves ==
  ASSUME IInv, Order, op.call \in {"write", "copy"}, NEW page \in Nat, ProgramPage(page)
  PROVE  LET cmd == Cmd("PROG", NewBank, NewRow, 0, SPP, Buf, page)
         IN /\ cmd \in Commands /\ cmd.fc = "PROG" /\ cmd.bank = NewBank /\ cmd.row = NewRow
            /\ cmd.col = 0 /\ cmd.cnt = SPP /\ cmd.buf = Buf /\ cmd.page = page
            /\ flash_issue_cmd(cmd) /\ wroom = NoCmd /\ wroom' = cmd
            /\ Pending' = Pending \cup {cmd} /\ Readers' = Readers /\ cmd \notin Pending
            /\ op.pc = "prog" /\ Chosen /\ ~Stopped /\ OldDataRead
            /\ op.at \in Places /\ op.at.remain > 0 /\ Inside(op.at) /\ op.at.lpage \in LPages
            /\ NewBank \in Banks /\ NewRow \in Rows /\ NewRow + 1 = g_target_row[NewBank]
            /\ page_map' = [page_map EXCEPT ![op.at.lpage] = NewBank * PPB + NewRow]
            /\ BankOf(NewBank * PPB + NewRow) = NewBank /\ RowOf(NewBank * PPB + NewRow) = NewRow
            /\ UNCHANGED <<bsp, flash, dram, g_target_bank, g_target_row, g_ftl_read_buf_id,
                           ops, wrPages, received, rdPages>>
<1> DEFINE cmd == Cmd("PROG", NewBank, NewRow, 0, SPP, Buf, page)
<1>1. Types /\ CallTypes /\ FlashTypes BY DEF IInv, Types
<1>2. /\ op.pc = "prog" /\ flash_issue_cmd(cmd) /\ OldDataRead
      /\ page_map' = [page_map EXCEPT ![op.at.lpage] = NewBank * PPB + NewRow]
      /\ UNCHANGED <<bsp, flash, dram, g_target_bank, g_target_row, g_ftl_read_buf_id,
                     ops, wrPages, received, rdPages>>
  BY DEF ProgramPage, PPB, SPP
<1>3. Chosen /\ ~Stopped BY <1>2 DEF Chosen, Stopped
<1>4. NewBank \in Banks BY <1>1, BankRound DEF Types, FtlTypes, NewBank
<1>5. NewRow \in Rows BY <1>3 DEF IInv, RowsAhead
<1>6. NewRow + 1 = g_target_row[NewBank]
  <2>1. g_target_row[NewBank] \in Int BY <1>1, <1>4, GeometryFacts DEF Types, FtlTypes
  <2> QED BY <2>1 DEF NewRow
<1>7. op.at \in Places /\ op.at.remain > 0 /\ Inside(op.at) /\ op.at.lpage \in LPages
  <2>1. op.at \in Places /\ op.at.remain > 0 /\ Inside(op.at) BY <1>1, <1>2, CallFacts
  <2> QED BY <2>1, PlaceInside
<1>8. /\ cmd \in Commands /\ cmd.fc = "PROG" /\ cmd.bank = NewBank /\ cmd.row = NewRow
      /\ cmd.col = 0 /\ cmd.cnt = SPP /\ cmd.buf = Buf /\ cmd.page = page
  <2>1. Buf \in Buffers BY <1>1, <1>7, PageFacts
  <2>2. SPP \in Nat BY GeometryFacts
  <2> QED BY <1>4, <1>5, <2>1, <2>2, CmdMade
<1>9. BankOf(NewBank * PPB + NewRow) = NewBank /\ RowOf(NewBank * PPB + NewRow) = NewRow
  BY <1>4, <1>5, PhysFacts
<1>10. cmd \notin Pending
  <2>1. Free(NewBank, NewRow) BY <1>3 DEF IInv, RowsAhead
  <2> HIDE DEF cmd
  <2> QED BY <1>8, <2>1 DEF Free
<1> HIDE DEF cmd
<1>11. wroom = NoCmd /\ wroom' = cmd /\ Pending' = Pending \cup {cmd} /\ Readers' = Readers
  BY <1>1, <1>2, <1>8, IssueMoves
<1> QED BY <1>2, <1>3, <1>4, <1>5, <1>6, <1>7, <1>8, <1>9, <1>10, <1>11 DEF cmd

\* The call after a page of a write.
LEMMA FtlWriteFacts ==
  ASSUME IInv, ftl_write_page
  PROVE  LET next == NextPage(op.at)
         IN /\ op.call = "write" /\ ProgramPage(issued + 1) /\ issued' = issued + 1
            /\ issued \in Nat /\ op \in WriteCalls /\ op.id \in 1 .. MaxOps
            /\ latest' = [s \in LSectors |-> IF s \in NowSectors THEN <<op.id, s>> ELSE latest[s]]
            /\ g_ftl_write_buf_id' = (g_ftl_write_buf_id + 1) % NUM_WR_BUFFERS
            /\ \/ next.remain = 0 /\ op' = [call |-> "none"]
               \/ /\ next.remain > 0 /\ next \in Places /\ op'.call = "write" /\ op'.pc = "page"
                  /\ op'.at = next /\ op'.id = op.id
            /\ ~Chosen' /\ ~HolesBegun' /\ op'.call # "copy"
<1> DEFINE next == NextPage(op.at)
<1>1. CallTypes /\ SataTypes BY DEF IInv, Types
<1>2. /\ op.call = "write" /\ ProgramPage(issued + 1) /\ issued' = issued + 1
      /\ latest' = [s \in LSectors |-> IF s \in NowSectors THEN <<op.id, s>> ELSE latest[s]]
      /\ g_ftl_write_buf_id' = (g_ftl_write_buf_id + 1) % NUM_WR_BUFFERS
  BY DEF ftl_write_page
<1>3. op \in WriteCalls /\ op.id \in 1 .. MaxOps /\ issued \in Nat
  BY <1>1, <1>2, CallFacts DEF WriteCalls, SataTypes
<1>4. op.at \in Places /\ op.at.remain > 0 /\ Inside(op.at) BY <1>1, <1>2, CallFacts
<1>5. next \in Places /\ next.remain \in Nat BY <1>4, NextFacts DEF Places
<1>6. CASE next.remain = 0
  <2>1. op' = [call |-> "none"] BY <1>6 DEF ftl_write_page, Return
  <2>2. ~Chosen' /\ ~HolesBegun' /\ op'.call # "copy" BY <2>1 DEF Chosen, HolesBegun
  <2> QED BY <1>2, <1>3, <1>6, <2>1, <2>2
<1>7. CASE next.remain # 0
  <2>1. op' = [op EXCEPT !.at = next, !.pc = "page"] BY <1>7 DEF ftl_write_page
  <2> HIDE DEF next
  <2>2. op'.call = "write" /\ op'.pc = "page" /\ op'.at = next /\ op'.id = op.id
    BY <1>3, <2>1 DEF WriteCalls
  <2>3. ~Chosen' /\ ~HolesBegun' /\ op'.call # "copy" BY <2>2 DEF Chosen, HolesBegun
  <2>4. next.remain > 0 BY <1>5, <1>7
  <2> QED BY <1>2, <1>3, <1>5, <2>2, <2>3, <2>4 DEF next
<1> QED BY <1>6, <1>7

\* A page of a write is issued.
LEMMA FtlWritePageOrder ==
  ASSUME IInv, Order, ftl_write_page
  PROVE  Order'
<1> DEFINE next == NextPage(op.at)
           P == PagesFrom(op.id, op.at)
           Q == PagesFrom(op.id, next)
           cmd == Cmd("PROG", NewBank, NewRow, 0, SPP, Buf, issued + 1)
<1>1. /\ op.call = "write" /\ ProgramPage(issued + 1) /\ issued' = issued + 1 /\ issued \in Nat
      /\ g_ftl_write_buf_id' = (g_ftl_write_buf_id + 1) % NUM_WR_BUFFERS
      /\ \/ next.remain = 0 /\ op' = [call |-> "none"]
         \/ /\ next.remain > 0 /\ next \in Places /\ op'.call = "write" /\ op'.pc = "page"
            /\ op'.at = next /\ op'.id = op.id
      /\ ~Chosen' /\ ~HolesBegun' /\ op'.call # "copy"
  BY FtlWriteFacts
<1>2. /\ cmd \in Commands /\ cmd.fc = "PROG" /\ cmd.bank = NewBank /\ cmd.row = NewRow
      /\ cmd.col = 0 /\ cmd.cnt = SPP /\ cmd.buf = Buf /\ cmd.page = issued + 1
      /\ wroom = NoCmd /\ wroom' = cmd
      /\ Pending' = Pending \cup {cmd} /\ Chosen /\ ~Stopped
      /\ op.at \in Places /\ op.at.remain > 0 /\ Inside(op.at)
      /\ NewBank \in Banks /\ NewRow + 1 = g_target_row[NewBank]
      /\ UNCHANGED <<bsp, flash, g_target_bank, g_target_row, wrPages, received>>
  BY <1>1, ProgramMoves
<1> HIDE DEF cmd
<1>3. NWB \in Nat \ {0} /\ received \in Nat /\ wrPages \in Seq(Packets)
  BY GeometryFacts DEF IInv, Types, SataTypes, NWB
<1>4. \A c \in Pending : c \in Commands /\ c.page \in Nat /\ c.page > 0 /\ c.page <= issued
                         /\ c.bank \in Banks
  <2>1. \A c \in Pending : c \in Commands /\ c.page \in Nat /\ c.bank \in Banks
    BY UnderWayFacts, CommandFacts DEF IInv, Types
  <2>2. \A c \in Pending : c.page # 0 BY <1>1, NoCopyPending DEF Order
  <2> QED BY <2>1, <2>2 DEF Order, ProgCommands
<1>5. ProgCommands'
  <2>1. g_ftl_write_buf_id = issued % NWB BY DEF Order, ProgCommands
  <2>2. cmd.buf = BufOf(cmd.page)
    <3>1. (issued + 1) - 1 = issued BY <1>1
    <3> QED BY <1>1, <1>2, <2>1, <3>1 DEF Buf, BufOf
  <2>3. g_ftl_write_buf_id' = issued' % NWB
    <3>1. issued \in Int BY <1>1
    <3>2. ((issued % NWB) + 1) % NWB = (issued + 1) % NWB BY <1>3, <3>1, NextSlot
    <3> QED BY <1>1, <2>1, <3>2 DEF NWB
  <2>4. ASSUME NEW c \in Pending'
        PROVE  /\ c.col = 0 /\ c.cnt = SPP /\ c.page <= issued' /\ c.page > 0
               /\ c.buf = BufOf(c.page)
    <3>1. CASE c = cmd BY <1>1, <1>2, <2>2, <3>1
    <3>2. CASE c \in Pending BY <1>1, <1>4, <3>2 DEF Order, ProgCommands
    <3> QED BY <1>2, <3>1, <3>2
  <2> QED BY <1>1, <2>3, <2>4 DEF ProgCommands
<1>6. HostData'
  <2> DEFINE N == Len(P)
  <2>1. /\ N \in Nat \ {0}
        /\ next.remain = 0 => N = 1
        /\ next.remain > 0 => /\ Len(Q) = N - 1
                              /\ \A k \in 1 .. Len(Q) : Q[k] = P[k + 1]
    <3>1. op.at \in Places /\ op.at.remain > 0 /\ Inside(op.at) BY <1>2
    <3>2. /\ Len(PagesFrom(op.id, op.at)) \in Nat \ {0}
          /\ NextPage(op.at).remain = 0 => Len(PagesFrom(op.id, op.at)) = 1
          /\ NextPage(op.at).remain > 0 =>
               /\ Len(PagesFrom(op.id, NextPage(op.at))) = Len(PagesFrom(op.id, op.at)) - 1
               /\ \A k \in 1 .. Len(PagesFrom(op.id, NextPage(op.at))) :
                    PagesFrom(op.id, NextPage(op.at))[k] = PagesFrom(op.id, op.at)[k + 1]
      BY <3>1, PagesOfNext, Zenon
    <3> QED BY <3>2
  <2>2. Remaining = P BY DEF Remaining
  <2>3. op'.call = "write" => Remaining' = Q BY <1>1 DEF Remaining, PagesFrom, PagesOf, First
  <2> HIDE DEF P, Q, next
  <2>4. /\ received + Len(wrPages) = issued + N
        /\ \A q \in issued + 1 .. issued + N : q > received => wrPages[q - received] = P[q - issued]
    BY <1>1, <2>2 DEF Order, HostData
  <2>5. Len(wrPages) \in Nat BY <1>3
  <2>6. received' + Len(wrPages') = issued' + (IF op'.call = "write" THEN Len(Remaining') ELSE 0)
    <3>1. CASE next.remain = 0
      <4>1. op'.call # "write" BY <1>1, <3>1
      <4> HIDE DEF N
      <4> QED BY <1>1, <1>2, <2>1, <2>4, <3>1, <4>1
    <3>2. CASE next.remain > 0
      <4>1. op'.call = "write" /\ Len(Remaining') = N - 1 BY <1>1, <2>1, <2>3, <3>2
      <4> HIDE DEF N
      <4> QED BY <1>1, <1>2, <2>1, <2>4, <3>2, <4>1
    <3> QED BY <1>1, <3>1, <3>2
  <2>7. ASSUME op'.call = "write", NEW q \in issued' + 1 .. issued' + Len(Remaining'), q > received'
        PROVE  wrPages'[q - received'] = Remaining'[q - issued']
    <3>1. next.remain > 0 /\ Remaining' = Q /\ Len(Q) = N - 1 BY <1>1, <2>1, <2>3, <2>7
    <3>2. /\ q \in issued + 1 .. issued + N /\ q > received /\ q - issued' \in 1 .. Len(Q)
          /\ (q - issued') + 1 = q - issued
      <4> HIDE DEF N
      <4> QED BY <1>1, <1>2, <2>1, <2>7, <3>1
    <3>3. wrPages[q - received] = P[q - issued] BY <2>4, <3>2
    <3>4. Q[q - issued'] = P[q - issued] BY <2>1, <3>1, <3>2
    <3> QED BY <1>2, <3>1, <3>3, <3>4
  <2>8. ASSUME NEW q \in received' + 1 .. issued' PROVE \E c \in Pending' : c.page = q
    <3>1. q = issued + 1 \/ q \in received + 1 .. issued BY <1>1, <1>2, <1>3, <2>8
    <3> QED BY <1>2, <3>1 DEF Order, HostData
  <2>9. ASSUME NEW q \in 1 .. received' - NWB PROVE ~InUse(q)'
    <3>1. ~InUse(q) /\ q \in Nat BY <1>2, <1>3, <2>9 DEF Order, HostData
    <3>2. q <= issued /\ \A c \in Pending : c.page # q
      BY <1>1, <3>1 DEF InUse, Pending
    <3>3. \A c \in Pending' : c.page # q BY <1>1, <1>2, <3>1, <3>2
    <3>4. ~(q > issued') BY <1>1, <3>1, <3>2
    <3> QED BY <3>3, <3>4 DEF InUse, Pending
  <2> QED BY <2>6, <2>7, <2>8, <2>9 DEF HostData
<1>7. Turns'
  <2>1. Started' = 0 /\ Started = 1 BY <1>1, <1>2 DEF Started
  <2>2. ASSUME NEW b \in Banks
        PROVE  Since(b)' = Since(b) /\ Since(b) \in 0 .. NUM_BANKS - 1
    <3>1. g_target_bank \in Banks BY DEF IInv, Types, FtlTypes
    <3> QED BY <1>2, <2>2, <3>1, TurnFacts DEF Since
  <2>3. NUM_BANKS \in Nat \ {0} BY GeometryFacts
  <2>4. ASSUME NEW c \in Pending
        PROVE  /\ issued' - c.page <= NUM_BANKS
               /\ InTurn(c)' \/ (c # cmd /\ cmd.bank = c.bank)
    <3>1. /\ c.page \in Nat /\ c.page > 0 /\ c.page <= issued /\ c.bank \in Banks
      BY <1>4
    <3>2. InTurn(c)
      <4>1. wroom.fc # "PROG" BY <1>2, CommandFacts
      <4> QED BY <1>2, <3>1, <4>1 DEF Order, Turns
    <3>3. CASE c.row + 1 = g_target_row[c.bank] /\ issued - c.page + Started <= Since(c.bank)
      <4>1. /\ Since(c.bank) \in Int /\ Since(c.bank) <= NUM_BANKS - 1
            /\ Since(c.bank)' = Since(c.bank)
        BY <2>2, <2>3, <3>1
      <4>2. issued' - c.page + Started' <= Since(c.bank)'
        BY <1>1, <2>1, <3>1, <3>3, <4>1
      <4>3. issued' - c.page <= NUM_BANKS
        BY <1>1, <2>1, <2>3, <3>1, <3>3, <4>1
      <4> QED BY <1>2, <3>3, <4>2, <4>3 DEF InTurn, Since
    <3>4. CASE NewBank = c.bank /\ issued - c.page < NUM_BANKS
      <4>1. c # cmd /\ issued' - c.page <= NUM_BANKS BY <1>1, <1>2, <2>3, <3>1, <3>4
      <4> QED BY <1>2, <3>4, <4>1
    <3> QED BY <3>2, <3>3, <3>4 DEF InTurn
  <2>5. ASSUME NEW c, c = cmd PROVE issued' - c.page <= NUM_BANKS /\ InTurn(c)'
    <3>1. c.bank \in Banks /\ c.row + 1 = g_target_row[c.bank] /\ c.page = issued + 1
      BY <1>2, <2>5
    <3>2. Since(c.bank)' \in Int /\ Since(c.bank)' >= 0
      <4>1. Since(c.bank)' = Since(c.bank) /\ Since(c.bank) \in 0 .. NUM_BANKS - 1
        BY <2>2, <3>1
      <4> QED BY <2>3, <4>1
    <3>3. issued' - c.page = 0 BY <1>1, <3>1
    <3>4. issued' - c.page + Started' <= Since(c.bank)' BY <2>1, <3>2, <3>3
    <3>5. InTurn(c)' BY <1>2, <3>1, <3>4 DEF InTurn, Since
    <3> QED BY <2>3, <3>3, <3>5
  <2>6. ASSUME NEW c \in Pending'
        PROVE  /\ issued' - c.page <= NUM_BANKS
               /\ InTurn(c)' \/ (c # wroom' /\ wroom'.fc = "PROG" /\ wroom'.bank = c.bank)
    <3>1. CASE c = cmd BY <2>5, <3>1
    <3>2. CASE c \in Pending BY <1>2, <2>4, <3>2
    <3> QED BY <1>2, <3>1, <3>2
  <2> QED BY <2>6 DEF Turns
<1> QED BY <1>5, <1>6, <1>7 DEF Order

\* The call after a page of a copy.
LEMMA IssdWriteFacts ==
  ASSUME IInv, issd_write_page
  PROVE  /\ op.call = "copy" /\ op.pc = "prog" /\ ProgramPage(0)
         /\ op \in CopyWrites /\ CopyWriting
         /\ latest' = [s \in LSectors |-> IF s \in NowSectors THEN op.old[s - op.to] ELSE latest[s]]
         /\ op'.call = "copy" /\ op'.pc = "done" /\ op'.at = op.at
         /\ op'.src = op.src /\ op'.to = op.to /\ op'.old = op.old
         /\ ~Chosen' /\ ~HolesBegun' /\ ~Stopped'
         /\ UNCHANGED <<issued, g_ftl_write_buf_id>>
<1>1. CallTypes BY DEF IInv, Types
<1>2. /\ op.call = "copy" /\ op.pc = "prog" /\ ProgramPage(0)
      /\ latest' = [s \in LSectors |-> IF s \in NowSectors THEN op.old[s - op.to] ELSE latest[s]]
      /\ op' = [op EXCEPT !.pc = "done"]
      /\ UNCHANGED <<issued, g_ftl_write_buf_id>>
  BY DEF issd_write_page, ProgramPage, NoPage
<1>3. op'.call = "copy" /\ op'.pc = "done" /\ op'.at = op.at
      /\ op'.src = op.src /\ op'.to = op.to /\ op'.old = op.old
  BY <1>1, <1>2, PcFacts
<1>4. ~Chosen' /\ ~HolesBegun' /\ ~Stopped' BY <1>3 DEF Chosen, HolesBegun, Stopped
<1>5. op \in CopyWrites /\ CopyWriting BY <1>1, <1>2, CallFacts
<1> QED BY <1>2, <1>3, <1>4, <1>5

\* A page of a copy is issued.
LEMMA IssdWritePageOrder ==
  ASSUME IInv, Order, issd_write_page
  PROVE  Order'
<1> DEFINE cmd == Cmd("PROG", NewBank, NewRow, 0, SPP, Buf, 0)
<1>1. /\ op.call = "copy" /\ op.pc = "prog" /\ ProgramPage(0)
      /\ op'.call = "copy" /\ op'.pc = "done"
      /\ ~Chosen' /\ ~HolesBegun' /\ ~Stopped'
      /\ UNCHANGED <<issued, g_ftl_write_buf_id>>
  BY IssdWriteFacts
<1>2. /\ cmd \in Commands /\ cmd.fc = "PROG" /\ cmd.bank = NewBank
      /\ cmd.col = 0 /\ cmd.cnt = SPP /\ cmd.buf = Buf /\ cmd.page = 0
      /\ wroom = NoCmd /\ wroom' = cmd
      /\ Pending' = Pending \cup {cmd} /\ Chosen /\ ~Stopped
      /\ UNCHANGED <<bsp, g_target_bank, g_target_row, wrPages, received>>
  BY <1>1, ProgramMoves
<1> HIDE DEF cmd
<1>3. issued \in Nat /\ received \in Nat BY DEF IInv, Types, SataTypes
<1>4. \A c \in Pending : c \in Commands /\ c.page \in Nat /\ c.page # 0 /\ c.page > 0 /\ c.bank \in Banks
  <2>1. \A c \in Pending : c \in Commands /\ c.page \in Nat /\ c.bank \in Banks
    BY UnderWayFacts, CommandFacts DEF IInv, Types
  <2>2. \A c \in Pending : c.page # 0 BY <1>1, NoCopyPending DEF Order
  <2> QED BY <2>1, <2>2
<1>5. ProgCommands'
  <2>1. NewBank' = NewBank BY <1>2 DEF NewBank
  <2>2. ASSUME NEW c \in Pending'
        PROVE  /\ c.col = 0 /\ c.cnt = SPP /\ c.page <= issued
               /\ c.buf = IF c.page > 0 THEN BufOf(c.page) ELSE ISSD_WR_BUF
               /\ c.page = 0 => c.bank = NewBank
    <3>1. CASE c = cmd BY <1>1, <1>2, <1>3, <3>1 DEF Buf
    <3>2. CASE c \in Pending BY <1>4, <3>2 DEF Order, ProgCommands
    <3> QED BY <1>2, <3>1, <3>2
  <2>3. g_ftl_write_buf_id' = issued' % NWB BY <1>1 DEF Order, ProgCommands
  <2> QED BY <1>1, <2>1, <2>2, <2>3 DEF ProgCommands
<1>6. HostData'
  <2>1. received' + Len(wrPages') = issued' + (IF op'.call = "write" THEN Len(Remaining') ELSE 0)
    BY <1>1, <1>2 DEF Order, HostData
  <2>2. \A q \in received' + 1 .. issued' : \E c \in Pending' : c.page = q
    BY <1>1, <1>2 DEF Order, HostData
  <2>3. ASSUME NEW q \in 1 .. received' - NWB PROVE ~InUse(q)'
    <3>1. ~InUse(q) /\ q \in Nat /\ q # 0 BY <1>2, <2>3 DEF Order, HostData
    <3> QED BY <1>1, <1>2, <3>1 DEF InUse, Pending
  <2> QED BY <1>1, <2>1, <2>2, <2>3 DEF HostData
<1>7. Turns'
  <2>1. Started' = 0 /\ Started = 1 /\ wroom.fc # "PROG"
    BY <1>1, <1>2, CommandFacts DEF Started
  <2>2. ASSUME NEW c \in Pending', c.page > 0
        PROVE  /\ issued' - c.page <= NUM_BANKS
               /\ InTurn(c)' \/ (c # wroom' /\ wroom'.fc = "PROG" /\ wroom'.bank = c.bank)
    <3>1. c \in Pending /\ c # cmd /\ c.page \in Nat /\ c.bank \in Banks BY <1>2, <1>4, <2>2
    <3>2. issued - c.page <= NUM_BANKS /\ InTurn(c) BY <1>2, <2>1, <2>2, <3>1 DEF Order, Turns
    <3>3. CASE c.row + 1 = g_target_row[c.bank] /\ issued - c.page + Started <= Since(c.bank)
      <4>1. Since(c.bank) \in Int /\ Since(c.bank)' = Since(c.bank)
        <5>1. g_target_bank \in Banks BY DEF IInv, Types, FtlTypes
        <5>2. Turn(g_target_bank, c.bank) \in 0 .. NUM_BANKS - 1 BY <3>1, <5>1, TurnFacts
        <5> QED BY <1>2, <5>2, GeometryFacts DEF Since
      <4>2. issued' - c.page + Started' <= Since(c.bank)'
        BY <1>1, <1>3, <2>1, <3>1, <3>3, <4>1
      <4> QED BY <1>1, <1>2, <3>2, <3>3, <4>2 DEF InTurn, Since
    <3>4. CASE NewBank = c.bank BY <1>1, <1>2, <3>1, <3>2, <3>4
    <3> QED BY <3>2, <3>3, <3>4 DEF InTurn
  <2> QED BY <2>2 DEF Turns
<1> QED BY <1>5, <1>6, <1>7 DEF Order

\* No data is under way when the firmware starts.
LEMMA InitOrder == Init => Order
<1> SUFFICES ASSUME Init PROVE Order OBVIOUS
<1>1. /\ wroom = NoCmd /\ bsp = [b \in Banks |-> NoCmd] /\ op.call = "none"
      /\ issued = 0 /\ received = 0 /\ wrPages = << >> /\ g_ftl_write_buf_id = 0
  BY DEF Init, FlashInit
<1>2. \A c : c \notin Pending BY <1>1, CommandFacts DEF Pending, UnderWay
<1>3. ~HolesBegun BY <1>1 DEF HolesBegun, Chosen
<1>4. NWB \in Nat \ {0} /\ 0 % NWB = 0
  <2>1. NWB \in Nat \ {0} BY GeometryFacts DEF NWB
  <2> QED BY <2>1, ModSmall
<1>5. ProgCommands BY <1>1, <1>2, <1>3, <1>4 DEF ProgCommands
<1>6. HostData
  <2>1. Len(wrPages) = 0 BY <1>1
  <2>2. \A q \in 1 .. received - NWB : FALSE BY <1>1, <1>4
  <2>3. \A q \in received + 1 .. issued : FALSE BY <1>1
  <2> QED BY <1>1, <2>1, <2>2, <2>3 DEF HostData
<1>7. Turns BY <1>2 DEF Turns
<1> QED BY <1>5, <1>6, <1>7 DEF Order

\* Every step keeps the order.
LEMMA NextOrder == IInv /\ Order /\ [Next]_vars => Order'
<1> SUFFICES ASSUME IInv, Order, [Next]_vars PROVE Order'
  OBVIOUS
<1>1. CASE UNCHANGED vars
  BY <1>1, SameOrder DEF vars, flashVars, ftlVars, sataVars
<1>2. CASE HostReceives
  BY <1>2, SameOrder DEF HostReceives, flashVars, ftlVars
<1>3. CASE \E w \in Writes : BeginWrite(w[1], w[2]) BY <1>3, BeginWriteOrder
<1>4. CASE \/ \E r \in Reads : BeginRead(r[1], r[2])
           \/ \E c \in Copies : BeginCopy(c[1], c[2], c[3])
  BY <1>4, BeginReadsOrder
<1>5. CASE ftl_read BY <1>5, ReadsOrder
<1>6. CASE ftl_write
  BY <1>6, StartPageOrder, ReadHoleOrder, FtlWritePageOrder DEF ftl_write
<1>7. CASE issd_copy
  BY <1>7, ReadsOrder, IssdWritePageOrder, WriteDoneOrder DEF issd_copy
<1>8. CASE hardware
  BY <1>2, <1>8, HostSendsOrder, BankAcceptsOrder, BankCompletesOrder DEF hardware
<1> QED BY <1>1, <1>3, <1>4, <1>5, <1>6, <1>7, <1>8 DEF Next

-----------------------------------------------------------------------------
(* Read commands: the holes of a page, and the pages of a copy *)

Readings == HolesAhead /\ HoleReads /\ CopyReadings /\ CopyPlace

\* The buffers differ.
LEMMA BuffersApart ==
  /\ \A i, j : WR_BUF(i) # RD_BUF(j) /\ WR_BUF(i) # COMP(j) /\ WR_BUF(i) # ISSD_WR_BUF
  /\ \A i, j : RD_BUF(i) # COMP(j) /\ RD_BUF(i) # ISSD_WR_BUF /\ COMP(i) # ISSD_WR_BUF
  /\ \A i, j : (WR_BUF(i) = WR_BUF(j) => i = j) /\ (RD_BUF(i) = RD_BUF(j) => i = j)
               /\ (COMP(i) = COMP(j) => i = j)
BY DEF WR_BUF, RD_BUF, COMP, ISSD_WR_BUF

\* The buffers that pages are programmed from.
LEMMA WriteBufferFacts ==
  ASSUME Types
  PROVE  /\ \A q \in Int : BufOf(q) \in WriteBuffers /\ BufOf(q) # ISSD_WR_BUF
         /\ Buf \in WriteBuffers /\ ISSD_WR_BUF \in WriteBuffers
         /\ \A i : RD_BUF(i) \notin WriteBuffers /\ COMP(i) \notin WriteBuffers
         /\ \A p, q \in Int : p < q /\ q < p + NWB => BufOf(p) # BufOf(q)
<1>0. NWB \in Nat \ {0} BY GeometryFacts DEF NWB
<1>1. \A q \in Int : BufOf(q) \in WriteBuffers /\ BufOf(q) # ISSD_WR_BUF
  <2>1. \A q \in Int : (q - 1) % NWB \in 0 .. NWB - 1 BY <1>0, DivMod
  <2> QED BY <2>1, BuffersApart DEF BufOf, WriteBuffers
<1>2. Buf \in WriteBuffers BY DEF Buf, WriteBuffers, Types, FtlTypes, NWB
<1>3. \A i : RD_BUF(i) \notin WriteBuffers /\ COMP(i) \notin WriteBuffers
  BY BuffersApart DEF WriteBuffers
<1>4. ASSUME NEW p \in Int, NEW q \in Int, p < q, q < p + NWB PROVE BufOf(p) # BufOf(q)
  <2>1. p - 1 \in Int /\ q - 1 \in Int /\ p - 1 < q - 1 /\ q - 1 < (p - 1) + NWB BY <1>0, <1>4
  <2>2. (p - 1) % NWB # (q - 1) % NWB BY <1>0, <2>1, SlotsDiffer
  <2> QED BY <2>2, BuffersApart DEF BufOf
<1> QED BY <1>1, <1>2, <1>3, <1>4 DEF WriteBuffers

\* No call moves; commands move on.
LEMMA ReadingsSteady ==
  ASSUME Readings, Readers' \subseteq Readers, UNCHANGED <<op, page_map, latest, g_ftl_write_buf_id>>,
         \A r \in Readers' : wroom.fc = "PROG" /\ r = bsp[wroom.bank] =>
           wroom' = wroom /\ bsp'[wroom.bank] = r,
         wroom'.fc = "PROG" => wroom' = wroom
  PROVE  Readings'
<1>1. /\ (HolesBegun' <=> HolesBegun) /\ Buf' = Buf
      /\ (ReadOld' <=> ReadOld) /\ Left' = Left /\ Right' = Right /\ (Chosen' <=> Chosen)
  BY DEF HolesBegun, Buf, ReadOld, Old, Left, Right, Chosen
<1>2. HolesAhead' BY <1>1 DEF Readings, HolesAhead
<1>3. CopyReadings' BY DEF Readings, CopyReadings, At, CopyPage
<1>4. CopyPlace' BY DEF Readings, CopyPlace, CopyPage, Span0, First
<1>5. ASSUME NEW r \in Readers', r.buf \in WriteBuffers
      PROVE  \/ HolesBegun' /\ r.buf = Buf' /\ At(r, op.at.lpage)' /\ \A s \in Span(r) : HoleRead(s)'
             \/ wroom'.fc = "PROG" /\ r.buf = wroom'.buf /\ r = bsp'[wroom'.bank]
  <2>1. \/ HolesBegun /\ r.buf = Buf /\ At(r, op.at.lpage) /\ \A s \in Span(r) : HoleRead(s)
        \/ wroom.fc = "PROG" /\ r.buf = wroom.buf /\ r = bsp[wroom.bank]
    BY <1>5 DEF Readings, HoleReads
  <2>2. \A s : HoleRead(s)' <=> HoleRead(s) BY <1>1 DEF HoleRead
  <2>3. At(r, op.at.lpage)' <=> At(r, op.at.lpage) BY DEF At
  <2> QED BY <1>1, <1>5, <2>1, <2>2, <2>3
<1>6. HoleReads' BY <1>5 DEF HoleReads, WriteBuffers
<1> QED BY <1>2, <1>3, <1>4, <1>6 DEF Readings

\* A call moves that has no hole under way.
LEMMA CallReadings ==
  ASSUME Readings, ~HolesBegun, ~(Chosen' /\ op'.pc \in {"left", "right"}),
         op'.call # "copy" \/ (/\ op'.pc \notin {"read", "finish"}
                               /\ \A r \in Readers', p \in 0 .. NUM_LPAGES : r.buf # COMP(p)),
         \/ UNCHANGED <<wroom, bsp>>
         \/ wroom.fc # "PROG" /\ \A r \in Readers' : r \in Readers \/ r.buf \notin WriteBuffers
  PROVE  Readings'
<1>1. HolesAhead' BY DEF HolesAhead
<1>2. CopyReadings' BY DEF CopyReadings
<1>3. CopyPlace' BY DEF CopyPlace
<1>4. HoleReads'
  <2>1. CASE UNCHANGED <<wroom, bsp>>
    <3>1. Readers' = Readers BY <2>1 DEF Readers, UnderWay
    <3> QED BY <2>1, <3>1 DEF Readings, HoleReads, WriteBuffers
  <2>2. CASE wroom.fc # "PROG" /\ \A r \in Readers' : r \in Readers \/ r.buf \notin WriteBuffers
    BY <2>2 DEF Readings, HoleReads, WriteBuffers
  <2> QED BY <2>1, <2>2
<1> QED BY <1>1, <1>2, <1>3, <1>4 DEF Readings

\* The hardware's steps, and those that change nothing.
LEMMA HardwareReadings ==
  ASSUME IInv, Order, Readings, hardware \/ UNCHANGED vars
  PROVE  Readings'
<1>1. FlashTypes BY DEF IInv, Types
<1>2. CASE HostSends \/ HostReceives \/ UNCHANGED vars
  <2>1. UNCHANGED <<wroom, bsp, op, page_map, latest, g_ftl_write_buf_id>>
    BY <1>2 DEF HostSends, HostReceives, vars, flashVars, ftlVars
  <2>2. Readers' = Readers BY <2>1 DEF Readers, UnderWay
  <2> QED BY <2>1, <2>2, ReadingsSteady
<1>3. CASE BankAccepts
  <2>1. /\ wroom \in Commands /\ wroom' = NoCmd /\ bsp[wroom.bank] = NoCmd /\ Readers' = Readers
        /\ UNCHANGED <<op, page_map, latest, g_ftl_write_buf_id>>
    BY <1>1, <1>3, AcceptMoves DEF BankAccepts, ftlVars
  <2>2. Readers \subseteq Commands BY <1>1, UnderWayFacts
  <2> QED BY <2>1, <2>2, CommandFacts, ReadingsSteady
<1>4. ASSUME NEW b \in Banks, BankCompletes(b) PROVE Readings'
  <2>1. /\ wroom' = wroom /\ bsp'[b] = NoCmd /\ \A x \in Banks : x # b => bsp'[x] = bsp[x]
        /\ Readers' \subseteq Readers /\ FlashTypes'
        /\ UNCHANGED <<op, page_map, latest, g_ftl_write_buf_id>>
    BY <1>1, <1>4, CompleteMoves DEF BankCompletes, ftlVars
  <2>2. ASSUME NEW r \in Readers', wroom.fc = "PROG", r = bsp[wroom.bank]
        PROVE  bsp'[wroom.bank] = r
    <3>1. wroom \in Commands /\ wroom.bank \in Banks BY <1>1, <2>2, CommandFacts DEF FlashTypes
    <3>2. r \in Commands /\ r.bank = wroom.bank /\ r.fc = "READ"
      BY <1>1, <2>1, <2>2, <3>1, UnderWayFacts, CommandFacts DEF FlashTypes
    <3>3. r \in UnderWay' BY <2>2 DEF Readers
    <3>4. r = wroom' \/ \E x \in Banks : r = bsp'[x] BY <3>3 DEF UnderWay
    <3>5. r # wroom' BY <2>1, <2>2, <3>2
    <3>6. PICK x \in Banks : r = bsp'[x] BY <3>4, <3>5
    <3>7. r.bank = x BY <2>1, <3>2, <3>6, CommandFacts DEF FlashTypes
    <3> QED BY <3>2, <3>6, <3>7
  <2> QED BY <2>1, <2>2, ReadingsSteady
<1> QED BY <1>2, <1>3, <1>4 DEF hardware

\* The host begins a write or a read.
LEMMA BeginHostReadings ==
  ASSUME IInv, Readings,
         \/ \E w \in Writes : BeginWrite(w[1], w[2])
         \/ \E r \in Reads : BeginRead(r[1], r[2])
  PROVE  Readings'
<1>1. /\ op.call = "none" /\ op'.call # "copy" /\ ~Chosen' /\ UNCHANGED <<wroom, bsp>>
  BY DEF BeginWrite, BeginRead, Begin, flashVars, Chosen
<1>2. ~HolesBegun BY <1>1 DEF HolesBegun, Chosen
<1> QED BY <1>1, <1>2, CallReadings

\* A copy begins: no read of an earlier copy is under way.
LEMMA BeginCopyReadings ==
  ASSUME IInv, Readings, NEW c \in Copies, BeginCopy(c[1], c[2], c[3])
  PROVE  Readings'
<1> DEFINE src == c[1]  n == c[3]
           call == [call |-> "copy", pc |-> "read", page |-> 0, at |-> Span0(src, n),
                    from |-> src, to |-> c[2], n |-> n, old |-> [k \in 0 .. n - 1 |-> latest[src + k]]]
<1>1. /\ Begin(call) /\ \A r \in UnderWay : r.fc = "READ" => \A p \in 0 .. NUM_LPAGES : r.buf # COMP(p)
  BY DEF BeginCopy
<1>2. /\ op.call = "none" /\ op' = call
      /\ UNCHANGED <<flashVars, ftlVars, received, issued, rdPages, latest>>
  BY <1>1 DEF Begin
<1>3. /\ op'.call = "copy" /\ op'.pc = "read" /\ op'.page = 0 /\ op'.at = Span0(src, n)
      /\ op'.from = src /\ op'.n = n /\ op'.old = [k \in 0 .. n - 1 |-> latest[src + k]]
  BY <1>2
<1>4. UNCHANGED <<wroom, bsp, latest>> BY <1>2 DEF flashVars
<1>5. Readers' = Readers BY <1>4 DEF Readers, UnderWay
<1>6. HolesAhead' BY <1>3 DEF HolesAhead, Chosen
<1>7. CopyReadings' BY <1>1, <1>5 DEF CopyReadings, Readers
<1>8. CopyPlace'
  <2>1. /\ InDevice(src, n) BY Requests
  <2>2. Span0(src, n).lpage = src \div SPP /\ First(Span0(src, n)) = src
        /\ Span0(src, n).remain = n /\ src \in LSectors
    BY <2>1, Span0Facts DEF Span0, SPP
  <2>3. src \div SPP \in Nat
    <3>1. src \in Nat /\ SPP \in Nat \ {0} BY <2>2, GeometryFacts DEF LSectors, SPP
    <3> QED BY <3>1, Quotient
  <2> DEFINE a == Span0(src, n)
  <2>4. a = Span0(op'.from, op'.n) /\ op'.at = a BY <1>3
  <2>5. op'.at.lpage = op'.from \div SPP + op'.page BY <1>3, <2>2, <2>3
  <2>6. First(op'.at) + op'.at.remain = op'.from + op'.n BY <1>3, <2>2
  <2>7. \A k \in 0 .. op'.n - 1 : op'.old[k] = latest'[op'.from + k] BY <1>3, <1>4
  <2> HIDE DEF a, src, n
  <2> QED BY <1>3, <2>4, <2>5, <2>6, <2>7 DEF CopyPlace, CopyPage, First, Span0
<1>9. HoleReads'
  <2>1. ~HolesBegun BY <1>2 DEF HolesBegun, Chosen
  <2> QED BY <1>4, <1>5, <2>1 DEF Readings, HoleReads, WriteBuffers
<1> QED BY <1>6, <1>7, <1>8, <1>9 DEF Readings

\* A read of the host goes on; no hole and no copy is under way.
LEMMA FtlReadReadings ==
  ASSUME IInv, Readings, ftl_read
  PROVE  Readings'
<1>1. Types /\ CallTypes /\ FlashTypes BY DEF IInv, Types
<1>2. op.call = "read" /\ Continue(op.at)
  BY DEF ftl_read, ftl_read_mapped, ftl_read_unwritten, ReadPage
<1>3. ~Chosen' /\ op'.call # "copy"
  <2>1. ~Chosen' BY <1>1, <1>2, ContinueFacts
  <2>2. op \in ReadCalls BY <1>1, <1>2, CallFacts
  <2> QED BY <1>2, <2>1, <2>2 DEF Continue, Return, ReadCalls
<1>4. ~HolesBegun BY <1>2 DEF HolesBegun, Chosen
<1>5. CASE ftl_read_unwritten
  <2>1. UNCHANGED <<wroom, bsp>> BY <1>5 DEF ftl_read_unwritten
  <2> QED BY <1>3, <1>4, <2>1, CallReadings
<1>6. CASE ftl_read_mapped
  <2> DEFINE cmd == Cmd("READ", BankOf(Old), RowOf(Old), op.at.off, Now(op.at),
                        RD_BUF(g_ftl_read_buf_id), NoPage)
  <2>1. flash_issue_cmd(cmd) /\ UNCHANGED <<bsp, flash, dram>> BY <1>6 DEF ftl_read_mapped, Old
  <2>2. cmd \in Commands /\ cmd.fc = "READ" /\ cmd.buf = RD_BUF(g_ftl_read_buf_id)
    <3>1. RD_BUF(g_ftl_read_buf_id) \in Buffers BY <1>1, BufferFacts DEF Types, FtlTypes
    <3>2. op.at.remain > 0 BY <1>1, <1>2, CallFacts
    <3>3. BankOf(Old) \in Banks /\ RowOf(Old) \in Rows /\ op.at.off \in Nat /\ Now(op.at) \in Nat
      BY <1>1, <1>2, <3>2, PageFacts DEF Left
    <3> QED BY <3>1, <3>3, CmdMade DEF NoPage
  <2> HIDE DEF cmd
  <2>3. wroom = NoCmd /\ Readers' = Readers \cup {cmd} BY <1>1, <2>1, <2>2, IssueMoves
  <2>4. cmd.buf \notin WriteBuffers BY <1>1, <2>2, WriteBufferFacts
  <2> QED BY <1>3, <1>4, <2>3, <2>4, CommandFacts, CallReadings
<1> QED BY <1>5, <1>6 DEF ftl_read

\* A page is begun: its holes are still to be read.
LEMMA StartPageReadings ==
  ASSUME IInv, Readings, StartPage
  PROVE  Readings'
<1>1. /\ op.call \in {"write", "copy"} /\ op.pc = "page" /\ op'.call = op.call
      /\ op'.at = op.at /\ UNCHANGED <<wroom, bsp, page_map>>
  BY StartPageFacts
<1>2. ~HolesBegun BY <1>1 DEF HolesBegun, Chosen
<1>3. Readers' = Readers BY <1>1 DEF Readers, UnderWay
<1>4. HoleReads' BY <1>1, <1>2, <1>3 DEF Readings, HoleReads, WriteBuffers
<1>5. op'.pc \notin {"read", "finish"}
  <2>1. Stopped' \/ Chosen' BY StartPageFacts
  <2> QED BY <2>1 DEF Stopped, Chosen
<1>6. CopyReadings' BY <1>1, <1>3 DEF Readings, CopyReadings
<1>7. CopyPlace' BY <1>5 DEF CopyPlace
<1>8. HolesAhead'
  <2>1. (ReadOld' <=> ReadOld) /\ Left' = Left /\ Right' = Right
    BY <1>1 DEF ReadOld, Old, Left, Right
  <2>2. CASE op' = [op EXCEPT !.pc = "stopped"]
    <3>1. CallTypes BY DEF IInv, Types
    <3>2. op'.pc = "stopped" BY <1>1, <2>2, <3>1, PcFacts
    <3> QED BY <3>2 DEF HolesAhead, Chosen
  <2>3. ASSUME NEW pc, pc = (IF ~ReadOld THEN "prog" ELSE IF Left # 0 THEN "left" ELSE "right"),
               op' = [op EXCEPT !.pc = pc]
        PROVE  HolesAhead'
    <3>1. CallTypes BY DEF IInv, Types
    <3>2. op'.pc = pc BY <1>1, <2>3, <3>1, PcFacts
    <3>3. pc = "left" => ReadOld /\ Left # 0 BY <2>3
    <3>4. pc = "right" => ReadOld /\ Left = 0 BY <2>3
    <3>5. ReadOld => Left # 0 \/ Right # 0 BY DEF ReadOld
    <3> QED BY <2>1, <3>2, <3>3, <3>4, <3>5 DEF HolesAhead
  <2> QED BY <2>2, <2>3 DEF StartPage
<1> QED BY <1>4, <1>6, <1>7, <1>8 DEF Readings

\* A hole is read: its command is the first, or joins that of the other hole.
LEMMA ReadHoleReadings ==
  ASSUME IInv, Readings, ReadLeftHole \/ ReadRightHole
  PROVE  Readings'
<1>1. /\ op.call \in {"write", "copy"} /\ op.pc \in {"left", "right"}
      /\ op'.call = op.call /\ op'.at = op.at
      /\ Chosen /\ Chosen'
      /\ UNCHANGED <<bsp, flash, dram, page_map, g_ftl_write_buf_id>>
  BY ReadHoleFacts DEF ftlVars
<1>2. Types /\ FlashTypes /\ CallTypes BY DEF IInv, Types
<1>3. PICK col \in Nat, cnt \in Nat :
        LET cmd == Cmd("READ", BankOf(Old), RowOf(Old), col, cnt, Buf, NoPage)
        IN /\ cmd \in Commands /\ flash_issue_cmd(cmd)
           /\ \/ op.pc = "left" /\ col = 0 /\ cnt = Left
                 /\ op'.pc = IF Right # 0 THEN "right" ELSE "prog"
              \/ op.pc = "right" /\ col = SPP - Right /\ cnt = Right /\ op'.pc = "prog"
  BY ReadHoleFacts
<1>4. PICK cmd \in Commands :
        /\ flash_issue_cmd(cmd) /\ cmd.fc = "READ" /\ cmd.buf = Buf
        /\ cmd.bank = BankOf(Old) /\ cmd.row = RowOf(Old)
        /\ cmd.col = col /\ cmd.cnt = cnt
  BY <1>3 DEF Cmd
<1>5. wroom = NoCmd /\ wroom' = cmd /\ Readers' = Readers \cup {cmd}
  BY <1>1, <1>2, <1>4, IssueMoves
<1>6. /\ (ReadOld' <=> ReadOld) /\ Left' = Left /\ Right' = Right /\ Buf' = Buf /\ Old' = Old
      /\ \A c, l : At(c, l)' <=> At(c, l)
  BY <1>1 DEF ReadOld, Old, Left, Right, Buf, At
<1>7. ReadOld BY <1>1 DEF Readings, HolesAhead
<1>8. Left \in Nat /\ Right \in 0 .. SPP - 1 /\ SPP \in Nat
  <2>1. op.at.remain > 0 BY <1>1, <1>2, CallFacts
  <2> QED BY <1>1, <1>2, <2>1, PageFacts, GeometryFacts
<1>9. HolesAhead' /\ HolesBegun'
  <2>1. CASE op.pc = "left"
    <3>1. Left # 0 BY <1>1, <2>1 DEF Readings, HolesAhead
    <3>2. op'.pc = IF Right # 0 THEN "right" ELSE "prog" BY <1>3, <2>1
    <3> QED BY <1>1, <1>6, <1>7, <3>1, <3>2 DEF HolesAhead, HolesBegun
  <2>2. CASE op.pc = "right"
    <3>1. op'.pc = "prog" BY <1>3, <2>2
    <3> QED BY <1>1, <1>6, <1>7, <3>1 DEF HolesAhead, HolesBegun
  <2> QED BY <1>1, <2>1, <2>2
<1>10. HoleReads'
  <2>1. PICK l : l = op.at.lpage OBVIOUS
  <2>2. op'.at.lpage = l BY <1>1, <2>1
  <2>3. ASSUME NEW r \in Readers, r.buf \in WriteBuffers
        PROVE  /\ r.buf = Buf' /\ At(r, l)' /\ \A s \in Span(r) : HoleRead(s)'
    <3>1. wroom.fc # "PROG" BY <1>5, CommandFacts
    <3>2. HolesBegun /\ r.buf = Buf /\ At(r, l) /\ \A s \in Span(r) : HoleRead(s)
      BY <2>1, <2>3, <3>1 DEF Readings, HoleReads
    <3>3. op.pc = "right" /\ op'.pc = "prog" BY <1>1, <1>3, <3>2 DEF HolesBegun
    <3>4. \A s : HoleRead(s) => HoleRead(s)' BY <1>6, <3>3 DEF HoleRead
    <3>5. At(r, l)' BY <1>6, <3>2
    <3> QED BY <1>6, <3>2, <3>4, <3>5
  <2>4. At(cmd, l)'
    <3>1. At(cmd, l) BY <1>4, <1>7, <2>1 DEF At, ReadOld, Old
    <3> QED BY <1>6, <3>1
  <2>5. ASSUME NEW s \in Span(cmd) PROVE HoleRead(s)'
    <3>1. s \in col .. col + cnt - 1 BY <1>4, <2>5 DEF Span
    <3>2. CASE op.pc = "left"
      <4>1. col = 0 /\ cnt = Left /\ op'.pc \in {"right", "prog"} BY <1>3, <3>2
      <4>2. s < Left BY <1>8, <3>1, <4>1
      <4> QED BY <1>6, <4>1, <4>2 DEF HoleRead
    <3>3. CASE op.pc = "right"
      <4>1. col = SPP - Right /\ op'.pc = "prog" BY <1>3, <3>3
      <4>2. s >= SPP - Right BY <1>8, <3>1, <4>1
      <4> QED BY <1>6, <4>1, <4>2 DEF HoleRead
    <3> QED BY <1>1, <3>2, <3>3
  <2>6. ASSUME NEW r \in Readers', r.buf \in WriteBuffers
        PROVE  /\ r.buf = Buf' /\ At(r, l)' /\ \A s \in Span(r) : HoleRead(s)'
    <3>1. CASE r \in Readers BY <2>3, <2>6, <3>1
    <3>2. CASE r = cmd BY <1>4, <1>6, <2>4, <2>5, <3>2
    <3> QED BY <1>5, <3>1, <3>2
  <2> QED BY <1>9, <2>2, <2>6 DEF HoleReads, WriteBuffers
<1>11. CopyReadings'
  <2>1. \A p : cmd.buf # COMP(p)
    <3>1. Buf \in WriteBuffers /\ \A p : COMP(p) \notin WriteBuffers BY <1>2, WriteBufferFacts
    <3> QED BY <1>4, <3>1
  <2> QED BY <1>1, <1>5, <2>1 DEF Readings, CopyReadings
<1>12. CopyPlace'
  <2>1. op'.pc \in {"right", "prog"} BY <1>3
  <2> QED BY <2>1 DEF CopyPlace
<1> QED BY <1>9, <1>10, <1>11, <1>12 DEF Readings

\* The program command follows the reads of the holes to the bank that they
\* are with, or they have been waited for.
LEMMA ProgramReadings ==
  ASSUME IInv, Order, Readings, op.call \in {"write", "copy"}, NEW page \in Nat, ProgramPage(page),
         ~Chosen', op'.call = "copy" => op.call = "copy" /\ op'.pc \notin {"read", "finish"}
  PROVE  Readings'
<1>1. PICK cmd \in Commands :
        /\ cmd.fc = "PROG" /\ cmd.bank = NewBank /\ cmd.buf = Buf
        /\ wroom = NoCmd /\ wroom' = cmd /\ Readers' = Readers
  BY ProgramMoves
<1>2. /\ op.pc = "prog" /\ OldDataRead /\ UNCHANGED bsp
      /\ \A r \in Readers : r \in Commands /\ (r = wroom \/ r = bsp[r.bank]) /\ r \in UnderWay
  <2>1. FlashTypes BY DEF IInv, Types
  <2> QED BY <2>1, UnderWayFacts DEF ProgramPage
<1>3. HolesAhead' BY DEF HolesAhead
<1>4. CopyPlace' BY DEF CopyPlace
<1>5. CopyReadings' BY <1>1, <1>2 DEF Readings, CopyReadings
<1>6. ASSUME NEW r \in Readers, r.buf \in WriteBuffers
      PROVE  r.buf = cmd.buf /\ r = bsp[cmd.bank]
  <2>1. wroom.fc # "PROG" BY <1>1, CommandFacts
  <2>2. HolesBegun /\ r.buf = Buf /\ r.bank = BankOf(Old)
    BY <1>6, <2>1 DEF Readings, HoleReads, At, Old
  <2>3. r # wroom /\ r = bsp[r.bank] /\ r # NoCmd BY <1>1, <1>2, CommandFacts
  <2>4. BankOf(Old) = NewBank
    BY <1>2, <2>2, <2>3 DEF OldDataRead, HolesBegun, BankIdle
  <2> QED BY <1>1, <2>2, <2>3, <2>4
<1>7. HoleReads' BY <1>1, <1>2, <1>6 DEF HoleReads, WriteBuffers
<1> QED BY <1>3, <1>4, <1>5, <1>7 DEF Readings

\* A page of a write, or of a copy, is issued.
LEMMA WritePageReadings ==
  ASSUME IInv, Order, Readings, ftl_write_page \/ issd_write_page
  PROVE  Readings'
<1>1. CASE ftl_write_page
  <2>1. op.call = "write" /\ ProgramPage(issued + 1) /\ issued \in Nat /\ ~Chosen' /\ op'.call # "copy"
    BY <1>1, FtlWriteFacts
  <2> QED BY <2>1, ProgramReadings
<1>2. CASE issd_write_page
  <2>1. op.call = "copy" /\ ProgramPage(0) /\ op'.pc = "done"
    BY <1>2, IssdWriteFacts
  <2>2. ~Chosen' BY <2>1 DEF Chosen
  <2> QED BY <2>1, <2>2, ProgramReadings
<1> QED BY <1>1, <1>2

\* A copy has waited for its page.
LEMMA WriteDoneReadings ==
  ASSUME IInv, Order, Readings, issd_write_done
  PROVE  Readings'
<1>1. /\ op.call = "copy" /\ op.pc = "done" /\ CallTypes /\ UNCHANGED <<wroom, bsp>>
  BY DEF issd_write_done, IInv, Types, flashVars
<1>2. ~HolesBegun BY <1>1 DEF HolesBegun, Chosen
<1>3. Readers' = Readers BY <1>1 DEF Readers, UnderWay
<1>4. \A r \in Readers', p \in 0 .. NUM_LPAGES : r.buf # COMP(p)
  BY <1>1, <1>3 DEF Readings, CopyReadings
<1>5. op'.call = "none" \/ op'.pc = "page"
  <2>1. CASE NextPage(op.at).remain = 0
    <3>1. op' = [call |-> "none"] BY <2>1 DEF issd_write_done, Return
    <3> QED BY <3>1
  <2>2. CASE NextPage(op.at).remain # 0
    <3>1. op \in CopyWrites BY <1>1, CallFacts
    <3> QED BY <2>2, <3>1 DEF issd_write_done, CopyWrites
  <2> QED BY <2>1, <2>2
<1>6. op'.call # "copy" \/ op'.pc \notin {"read", "finish"} BY <1>5
<1>7. ~(Chosen' /\ op'.pc \in {"left", "right"}) BY <1>5 DEF Chosen
<1> QED BY <1>1, <1>2, <1>4, <1>6, <1>7, CallReadings

\* The reading of a copy ends, or fails.
LEMMA CopyEndReadings ==
  ASSUME IInv, Order, Readings, issd_read_unwritten \/ issd_read_done
  PROVE  Readings'
<1>1. /\ op.call = "copy" /\ op.pc \in {"read", "finish"} /\ UNCHANGED <<wroom, bsp>> /\ FlashTypes
  BY DEF issd_read_unwritten, issd_read_done, IInv, Types, flashVars
<1>2. ~HolesBegun BY <1>1 DEF HolesBegun, Chosen
<1>3. CASE issd_read_unwritten
  <2>1. op' = [call |-> "none"] BY <1>3 DEF issd_read_unwritten, Return
  <2>2. op'.call # "copy" /\ ~Chosen' BY <2>1 DEF Chosen
  <2> QED BY <1>1, <1>2, <2>2, CallReadings
<1>4. CASE issd_read_done
  <2>1. op'.call = "copy" /\ op'.pc = "page" /\ AllIdle BY <1>4 DEF issd_read_done
  <2>2. Readers' = {}
    <3>1. Readers = {} BY <1>1, <2>1, CommandFacts DEF AllIdle, Readers, UnderWay
    <3> QED BY <1>1, <3>1 DEF Readers, UnderWay
  <2>3. ~Chosen' BY <2>1 DEF Chosen
  <2> QED BY <1>1, <1>2, <2>1, <2>2, <2>3, CallReadings
<1> QED BY <1>3, <1>4

\* What issd_read_page does to the call.
LEMMA CopyReadFacts ==
  ASSUME IInv, issd_read_page
  PROVE  LET next == NextPage(op.at)
             cmd == Cmd("READ", BankOf(Old), RowOf(Old), op.at.off, Now(op.at), COMP(op.page), NoPage)
         IN /\ op.call = "copy" /\ op.pc = "read" /\ Old # NULL
            /\ op.page \in Nat /\ op.page <= op.at.lpage /\ op.at.lpage \in LPages
            /\ op.page \in 0 .. NUM_LPAGES
            /\ op.at \in Places /\ op.at.remain > 0 /\ Inside(op.at)
            /\ op.from \in LSectors /\ op.n \in Nat \ {0}
            /\ cmd \in Commands /\ flash_issue_cmd(cmd) /\ cmd.fc = "READ"
            /\ wroom = NoCmd /\ wroom' = cmd /\ Readers' = Readers \cup {cmd} /\ Pending' = Pending
            /\ op'.call = "copy" /\ op'.at = next /\ op'.page = op.page + 1
            /\ op'.pc = (IF next.remain = 0 THEN "finish" ELSE "read")
            /\ op'.from = op.from /\ op'.n = op.n /\ op'.to = op.to /\ op'.old = op.old
            /\ UNCHANGED <<bsp, flash, dram, ftlVars, ops, sataVars, latest>>
<1> DEFINE next == NextPage(op.at)
           cmd == Cmd("READ", BankOf(Old), RowOf(Old), op.at.off, Now(op.at), COMP(op.page), NoPage)
<1>1. Types /\ CallTypes /\ FlashTypes BY DEF IInv, Types
<1>2. /\ op.call = "copy" /\ op.pc = "read" /\ Old # NULL /\ flash_issue_cmd(cmd)
      /\ op' = [op EXCEPT !.at = next, !.page = @ + 1,
                          !.pc = IF next.remain = 0 THEN "finish" ELSE "read"]
      /\ UNCHANGED <<bsp, flash, dram, ftlVars, ops, sataVars, latest>>
  BY DEF issd_read_page
<1>3. op \in CopyReads /\ CopyReading /\ op.at.remain > 0 /\ op.at \in Places /\ Inside(op.at)
  BY <1>1, <1>2, CallFacts
<1>4. op.at.lpage \in LPages /\ op.page \in Nat /\ op.page <= op.at.lpage /\ op.page \in 0 .. NUM_LPAGES
  <2>1. op.page \in Nat /\ op.page <= op.at.lpage BY <1>3 DEF CopyReads, CopyReading
  <2>2. op.at.lpage \in LPages BY <1>3, PlaceInside
  <2>3. op.at.lpage \in Nat /\ op.at.lpage < NUM_LPAGES /\ NUM_LPAGES \in Nat
    BY <2>2, GeometryFacts DEF LPages
  <2> QED BY <2>1, <2>2, <2>3
<1>5. cmd \in Commands /\ cmd.fc = "READ"
  <2>1. COMP(op.page) \in Buffers BY <1>4, BufferFacts
  <2>2. BankOf(Old) \in Banks /\ RowOf(Old) \in Rows /\ op.at.off \in Nat /\ Now(op.at) \in Nat
    BY <1>1, <1>2, <1>3, PageFacts DEF Left
  <2> QED BY <2>1, <2>2, CmdMade DEF NoPage
<1>6. /\ op'.call = "copy" /\ op'.at = next /\ op'.page = op.page + 1
      /\ op'.pc = (IF next.remain = 0 THEN "finish" ELSE "read")
      /\ op'.from = op.from /\ op'.n = op.n /\ op'.to = op.to /\ op'.old = op.old
  <2> DEFINE pc == IF next.remain = 0 THEN "finish" ELSE "read"
             page == op.page + 1
  <2>1. op' = [op EXCEPT !.at = next, !.page = page, !.pc = pc] BY <1>2
  <2> HIDE DEF next, pc, page
  <2>2. /\ op'.call = op.call /\ op'.at = next /\ op'.page = page /\ op'.pc = pc
        /\ op'.from = op.from /\ op'.n = op.n /\ op'.to = op.to /\ op'.old = op.old
    BY <1>3, <2>1 DEF CopyReads
  <2> QED BY <1>2, <2>2 DEF pc, page
<1>7. op.from \in LSectors /\ op.n \in Nat \ {0} BY <1>3 DEF CopyReads
<1> HIDE DEF cmd, next
<1>8. wroom = NoCmd /\ wroom' = cmd /\ Readers' = Readers \cup {cmd} /\ Pending' = Pending
  BY <1>1, <1>2, <1>5, IssueMoves
<1> QED BY <1>2, <1>3, <1>4, <1>5, <1>6, <1>7, <1>8 DEF cmd, next

\* The next page of a copy is read into the next page of the buffer.
LEMMA CopyReadReadings ==
  ASSUME IInv, Order, Readings, issd_read_page
  PROVE  Readings'
<1>1. PICK next : next = NextPage(op.at) OBVIOUS
<1>2. PICK page : page = op.page OBVIOUS
<1>3. PICK cmd \in Commands :
        /\ cmd.bank = BankOf(Old) /\ cmd.row = RowOf(Old) /\ cmd.buf = COMP(page) /\ cmd.fc = "READ"
        /\ wroom = NoCmd /\ wroom' = cmd /\ Readers' = Readers \cup {cmd}
  BY <1>2, CopyReadFacts DEF Cmd
<1>4. /\ op.call = "copy" /\ op.pc = "read" /\ Old # NULL /\ page \in Nat
      /\ op.at \in Places /\ op.at.remain > 0 /\ Inside(op.at) /\ op.from \in LSectors /\ op.n \in Nat
      /\ op'.call = "copy" /\ op'.at = next /\ op'.page = page + 1
      /\ op'.pc = (IF next.remain = 0 THEN "finish" ELSE "read")
      /\ op'.from = op.from /\ op'.n = op.n /\ op'.old = op.old
      /\ UNCHANGED <<bsp, page_map, latest>>
  BY <1>1, <1>2, CopyReadFacts DEF ftlVars
<1>5. ~Chosen /\ ~Chosen' /\ Types BY <1>4 DEF Chosen, IInv
<1>6. HolesAhead' BY <1>5 DEF HolesAhead
<1>7. PICK pl : pl = CopyPage(page) OBVIOUS
<1>8. CopyPage(page)' = pl /\ CopyPage(page + 1)' = pl + 1 /\ op.at.lpage = pl /\ pl \in Nat
  <2>1. op.at.lpage = pl /\ op.at.lpage \in Nat BY <1>2, <1>4, <1>7 DEF Readings, CopyPlace, Places
  <2>2. op.from \div SPP \in Nat
    <3>1. op.from \in Nat /\ SPP \in Nat \ {0} BY <1>4, GeometryFacts DEF LSectors, SPP
    <3> QED BY <3>1, Quotient
  <2> QED BY <1>4, <1>7, <2>1, <2>2 DEF CopyPage
<1>9. /\ next.lpage = pl + 1 /\ next.off = 0 /\ next.remain \in Nat
      /\ Now(op.at) \in Nat /\ op.at.off + Now(op.at) <= SPP
      /\ next.remain = op.at.remain - Now(op.at)
      /\ next.remain > 0 => First(next) = First(op.at) + Now(op.at)
      /\ First(op.at) + op.at.remain = op.from + op.n
      /\ First(op.at) \in Nat /\ op.at.remain \in Nat
  BY <1>1, <1>4, <1>8, NextFacts, FirstFacts DEF Readings, CopyPlace, Places
<1>10. CopyPlace'
  <2>1. op'.at.lpage = (op'.from \div SPP) + op'.page
    <3>1. op'.page = page + 1 /\ op'.at.lpage = pl + 1 BY <1>4, <1>9
    <3>2. CopyPage(page + 1)' = (op'.from \div SPP) + (page + 1) BY DEF CopyPage
    <3> QED BY <1>8, <3>1, <3>2
  <2>2. op'.page > 0 /\ op'.at.off = 0 /\ wroom'.fc # "PROG" BY <1>3, <1>4, <1>9
  <2>3. next.remain > 0 => First(next) + next.remain = op.from + op.n BY <1>9
  <2>4. next.remain = 0 => First(next) >= op.from + op.n
    <3>1. First(next) = (pl + 1) * SPP + 0 BY <1>9 DEF First
    <3>2. (pl + 1) * SPP = pl * SPP + SPP /\ pl * SPP \in Nat /\ (pl + 1) * SPP \in Nat
      <4>1. SPP \in Nat \ {0} /\ pl + 1 \in Nat BY <1>8, GeometryFacts
      <4> QED BY <1>8, <4>1, Products
    <3> DEFINE x == pl * SPP  y == (pl + 1) * SPP
    <3>3. First(op.at) = x + op.at.off BY <1>8 DEF First
    <3>4. First(next) = y + 0 /\ y = x + SPP /\ x \in Nat /\ y \in Nat BY <3>1, <3>2
    <3>5. SPP \in Nat /\ op.at.off \in Nat /\ op.from \in Nat /\ op.n \in Nat
      BY <1>4, GeometryFacts DEF Places, LSectors
    <3> HIDE DEF x, y
    <3> QED BY <1>9, <3>3, <3>4, <3>5
  <2>5. \A k \in 0 .. op'.n - 1 : op'.old[k] = latest'[op'.from + k]
    BY <1>4 DEF Readings, CopyPlace
  <2>6. op'.pc = "read" => First(op'.at) + op'.at.remain = op'.from + op'.n
    <3>1. op'.pc = "read" => next.remain > 0 BY <1>4, <1>9
    <3> QED BY <1>4, <2>3, <3>1
  <2>7. op'.pc = "finish" => First(op'.at) >= op'.from + op'.n
    BY <1>4, <2>4
  <2>8. op'.page # 0 BY <1>4
  <2> QED BY <2>1, <2>2, <2>5, <2>6, <2>7, <2>8 DEF CopyPlace, CopyPage
<1>11. CopyReadings'
  <2>1. ASSUME NEW r \in Readers', NEW p \in 0 .. NUM_LPAGES, r.buf = COMP(p)
        PROVE  p < op'.page /\ At(r, CopyPage(p))'
    <3>1. \A c, l : At(c, l)' <=> At(c, l) BY <1>4 DEF At
    <3>2. PICK l : l = CopyPage(p) OBVIOUS
    <3>3. CopyPage(p)' = l BY <1>4, <3>2 DEF CopyPage
    <3>4. CASE r \in Readers
      <4>1. p < page /\ At(r, l) BY <1>2, <1>4, <2>1, <3>2, <3>4 DEF Readings, CopyReadings
      <4>2. p < op'.page /\ At(r, l)' BY <1>4, <3>1, <4>1
      <4> QED BY <3>3, <4>2 DEF At
    <3>5. CASE r = cmd
      <4>1. p = page BY <1>3, <2>1, <3>5, BuffersApart
      <4>2. l = pl BY <1>7, <3>2, <4>1
      <4>3. At(r, l) BY <1>3, <1>4, <1>8, <3>5, <4>2 DEF At, Old
      <4>4. At(r, l)' BY <3>1, <4>3
      <4>5. p < op'.page BY <1>4, <4>1
      <4> QED BY <3>3, <4>4, <4>5 DEF At
    <3> QED BY <1>3, <3>4, <3>5
  <2>2. op'.pc \in {"read", "finish"} BY <1>4
  <2> QED BY <2>1, <2>2 DEF CopyReadings
<1>12. HoleReads'
  <2>1. wroom.fc # "PROG" /\ ~HolesBegun BY <1>3, <1>5, CommandFacts DEF HolesBegun
  <2>2. cmd.buf \notin WriteBuffers BY <1>3, <1>5, WriteBufferFacts
  <2> QED BY <1>3, <2>1, <2>2 DEF Readings, HoleReads, WriteBuffers
<1> QED BY <1>6, <1>10, <1>11, <1>12 DEF Readings

\* The reads under way are where the loops have sent them, initially ...
LEMMA InitReadings == Init => Readings
<1> SUFFICES ASSUME Init PROVE Readings OBVIOUS
<1>1. op = [call |-> "none"] /\ wroom = NoCmd /\ bsp = [b \in Banks |-> NoCmd]
  BY DEF Init, FlashInit
<1>2. Readers = {} BY <1>1, CommandFacts DEF Readers, UnderWay
<1>3. op.call = "none" BY <1>1
<1> QED BY <1>2, <1>3 DEF Readings, HolesAhead, Chosen, HoleReads, CopyReadings, CopyPlace

\* ... and after every step.
LEMMA NextReadings == IInv /\ Order /\ Readings /\ [Next]_vars => Readings'
<1> SUFFICES ASSUME IInv, Order, Readings, [Next]_vars PROVE Readings' OBVIOUS
<1>1. CASE hardware \/ UNCHANGED vars BY <1>1, HardwareReadings
<1>2. CASE \/ \E w \in Writes : BeginWrite(w[1], w[2])
           \/ \E r \in Reads : BeginRead(r[1], r[2])
  BY <1>2, BeginHostReadings
<1>3. ASSUME NEW c \in Copies, BeginCopy(c[1], c[2], c[3]) PROVE Readings'
  BY <1>3, BeginCopyReadings
<1>4. CASE ftl_read BY <1>4, FtlReadReadings
<1>5. CASE ftl_write
  BY <1>5, StartPageReadings, ReadHoleReadings, WritePageReadings DEF ftl_write
<1>6. CASE issd_copy
  BY <1>6, CopyReadReadings, CopyEndReadings, WritePageReadings, WriteDoneReadings DEF issd_copy
<1> QED BY <1>1, <1>2, <1>3, <1>4, <1>5, <1>6 DEF Next

-----------------------------------------------------------------------------
(* The page map *)

\* The sectors that a page of a write covers, and what they are written with.
LEMMA NowSectorFacts ==
  ASSUME op.at \in Places, op.at.remain > 0, Inside(op.at)
  PROVE  /\ \A l \in LPages, s \in Sectors :
              l * SPP + s \in NowSectors <=> l = op.at.lpage /\ s \in Left .. Left + Now(op.at) - 1
         /\ \A x \in NowSectors : \E s \in Left .. Left + Now(op.at) - 1 :
              x = op.at.lpage * SPP + s /\ s \in Sectors
         /\ NowSectors \subseteq LSectors
<1>1. op.at.lpage \in LPages BY PlaceInside
<1>2. \A s \in Left .. Left + Now(op.at) - 1 : s \in Sectors
  <2>1. /\ Now(op.at) \in Nat /\ op.at.off + Now(op.at) <= SPP /\ op.at.off \in Nat /\ SPP \in Nat
        /\ Sectors = 0 .. SPP - 1 /\ Left = op.at.off
    BY NextFacts, GeometryFacts DEF Places, Left
  <2> QED BY <2>1
<1>3. \A x : x \in NowSectors <=> \E s \in Left .. Left + Now(op.at) - 1 : x = op.at.lpage * SPP + s
  BY DEF NowSectors, SPP
<1>4. ASSUME NEW l \in LPages, NEW s \in Sectors
      PROVE  l * SPP + s \in NowSectors <=> l = op.at.lpage /\ s \in Left .. Left + Now(op.at) - 1
  <2>1. ASSUME l * SPP + s \in NowSectors
        PROVE  l = op.at.lpage /\ s \in Left .. Left + Now(op.at) - 1
    <3>1. PICK t \in Left .. Left + Now(op.at) - 1 : l * SPP + s = op.at.lpage * SPP + t
      BY <1>3, <2>1
    <3>2. t \in Sectors BY <1>2
    <3>3. /\ (l * SPP + s) \div SPP = l /\ (l * SPP + s) % SPP = s
          /\ (op.at.lpage * SPP + t) \div SPP = op.at.lpage /\ (op.at.lpage * SPP + t) % SPP = t
      BY <1>1, <3>2, SectorFacts
    <3>4. l = op.at.lpage /\ s = t BY <3>1, <3>3, Zenon
    <3> QED BY <3>4
  <2>2. ASSUME l = op.at.lpage, s \in Left .. Left + Now(op.at) - 1
        PROVE  l * SPP + s \in NowSectors
    BY <1>3, <2>2, Zenon
  <2> QED BY <2>1, <2>2
<1>5. ASSUME NEW x \in NowSectors
      PROVE  /\ \E s \in Left .. Left + Now(op.at) - 1 : x = op.at.lpage * SPP + s /\ s \in Sectors
             /\ x \in LSectors
  <2>1. PICK s \in Left .. Left + Now(op.at) - 1 : x = op.at.lpage * SPP + s BY <1>3
  <2>2. s \in Sectors BY <1>2
  <2>3. op.at.lpage * SPP + s \in LSectors BY <1>1, <2>2, SectorFacts
  <2> QED BY <2>1, <2>2, <2>3
<1> QED BY <1>4, <1>5

\* What is last written to a sector, after a page of a write or of a copy.
LEMMA NewValues ==
  ASSUME op.at \in Places, op.at.remain > 0, Inside(op.at), NEW N,
         latest' = [x \in LSectors |-> IF x \in NowSectors THEN N[x] ELSE latest[x]],
         NEW l \in LPages, NEW s \in Sectors
  PROVE  Val(l, s)' = IF l = op.at.lpage /\ s \in Left .. Left + Now(op.at) - 1
                      THEN N[l * SPP + s] ELSE Val(l, s)
<1>1. l * SPP + s \in LSectors BY SectorFacts
<1>2. l * SPP + s \in NowSectors <=> l = op.at.lpage /\ s \in Left .. Left + Now(op.at) - 1
  BY NowSectorFacts
<1>3. Val(l, s)' = latest'[l * SPP + s] /\ Val(l, s) = latest[l * SPP + s] BY DEF Val
<1> DEFINE x == l * SPP + s
<1> HIDE DEF x
<1>4. x \in LSectors /\ Val(l, s)' = latest'[x] /\ Val(l, s) = latest[x] BY <1>1, <1>3 DEF x
<1>5. latest'[x] = IF x \in NowSectors THEN N[x] ELSE latest[x] BY <1>4
<1>6. CASE x \in NowSectors
  <2>1. l = op.at.lpage /\ s \in Left .. Left + Now(op.at) - 1 BY <1>2, <1>6 DEF x
  <2>2. Val(l, s)' = N[x] BY <1>4, <1>5, <1>6
  <2> QED BY <2>1, <2>2 DEF x
<1>7. CASE x \notin NowSectors
  <2>1. ~(l = op.at.lpage /\ s \in Left .. Left + Now(op.at) - 1) BY <1>2, <1>7 DEF x
  <2>2. Val(l, s)' = Val(l, s) BY <1>4, <1>5, <1>7
  <2> QED BY <2>1, <2>2
<1> QED BY <1>6, <1>7

\* ... of a write,
LEMMA WriteValues ==
  ASSUME IInv, ftl_write_page
  PROVE  /\ \A l \in LPages, s \in Sectors :
              Val(l, s)' = IF l = op.at.lpage /\ s \in Left .. Left + Now(op.at) - 1
                           THEN <<op.id, l * SPP + s>> ELSE Val(l, s)
         /\ \A x \in LSectors : latest'[x] \in Written \/ latest'[x] = latest[x]
<1> DEFINE N == [x \in LSectors |-> <<op.id, x>>]
<1>1. /\ latest' = [x \in LSectors |-> IF x \in NowSectors THEN <<op.id, x>> ELSE latest[x]]
      /\ op.id \in 1 .. MaxOps /\ op.call = "write" /\ CallTypes
  BY FtlWriteFacts DEF IInv, Types
<1>2. op.at \in Places /\ op.at.remain > 0 /\ Inside(op.at) BY <1>1, CallFacts
<1>3. NowSectors \subseteq LSectors BY <1>2, NowSectorFacts
<1>4. \A x \in LSectors : N[x] = <<op.id, x>> OBVIOUS
<1> HIDE DEF N
<1>5. latest' = [x \in LSectors |-> IF x \in NowSectors THEN N[x] ELSE latest[x]] BY <1>1, <1>4
<1>6. ASSUME NEW l \in LPages, NEW s \in Sectors
      PROVE  Val(l, s)' = IF l = op.at.lpage /\ s \in Left .. Left + Now(op.at) - 1
                          THEN <<op.id, l * SPP + s>> ELSE Val(l, s)
  <2>1. Val(l, s)' = IF l = op.at.lpage /\ s \in Left .. Left + Now(op.at) - 1
                     THEN N[l * SPP + s] ELSE Val(l, s)
    BY <1>2, <1>5, NewValues
  <2>2. N[l * SPP + s] = <<op.id, l * SPP + s>>
    <3>1. l * SPP + s \in LSectors BY SectorFacts
    <3> QED BY <1>4, <3>1, Zenon
  <2> QED BY <2>1, <2>2, Zenon
<1>7. \A x \in LSectors : latest'[x] \in Written \/ latest'[x] = latest[x]
  BY <1>1 DEF Written
<1> QED BY <1>6, <1>7

\* ... and of a copy.
LEMMA CopyValues ==
  ASSUME IInv, issd_write_page
  PROVE  /\ \A l \in LPages, s \in Sectors :
              Val(l, s)' = IF l = op.at.lpage /\ s \in Left .. Left + Now(op.at) - 1
                           THEN op.old[(l * SPP + s) - op.to] ELSE Val(l, s)
         /\ \A x \in LSectors : latest'[x] = latest[x] \/ \E k \in DOMAIN op.old : latest'[x] = op.old[k]
<1> DEFINE N == [x \in LSectors |-> op.old[x - op.to]]
<1>1. /\ latest' = [x \in LSectors |-> IF x \in NowSectors THEN op.old[x - op.to] ELSE latest[x]]
      /\ op.call = "copy" /\ op.pc = "prog" /\ op \in CopyWrites /\ CopyWriting /\ CallTypes
  BY IssdWriteFacts DEF IInv, Types
<1>2. op.at \in Places /\ op.at.remain > 0 /\ Inside(op.at) BY <1>1, CallFacts
<1>3. NowSectors \subseteq LSectors BY <1>2, NowSectorFacts
<1>4. \A x \in LSectors : N[x] = op.old[x - op.to] OBVIOUS
<1> HIDE DEF N
<1>5. latest' = [x \in LSectors |-> IF x \in NowSectors THEN N[x] ELSE latest[x]] BY <1>1, <1>4
<1>6. ASSUME NEW l \in LPages, NEW s \in Sectors
      PROVE  Val(l, s)' = IF l = op.at.lpage /\ s \in Left .. Left + Now(op.at) - 1
                          THEN op.old[(l * SPP + s) - op.to] ELSE Val(l, s)
  <2>1. Val(l, s)' = IF l = op.at.lpage /\ s \in Left .. Left + Now(op.at) - 1
                     THEN N[l * SPP + s] ELSE Val(l, s)
    BY <1>2, <1>5, NewValues
  <2>2. N[l * SPP + s] = op.old[(l * SPP + s) - op.to]
    <3>1. PICK x : x = l * SPP + s OBVIOUS
    <3>2. x \in LSectors BY <3>1, SectorFacts
    <3>3. N[x] = op.old[x - op.to] BY <1>4, <3>2
    <3> QED BY <3>1, <3>3
  <2> QED BY <2>1, <2>2, Zenon
<1>7. ASSUME NEW x \in NowSectors PROVE x - op.to \in DOMAIN op.old
  <2>1. PICK s \in Left .. Left + Now(op.at) - 1 : x = op.at.lpage * SPP + s
    BY <1>2, NowSectorFacts
  <2>2. /\ Now(op.at) \in 1 .. op.at.remain /\ op.at.remain \in Nat
        /\ op.at.off \in Nat /\ First(op.at) \in Nat
    BY <1>2, NextFacts, FirstFacts, GeometryFacts DEF Places
  <2>3. /\ First(op.at) >= op.to /\ op.to \in Nat
        /\ DOMAIN op.old = 0 .. First(op.at) + op.at.remain - op.to - 1
    BY <1>1 DEF CopyWriting, CopyWrites, LSectors
  <2> DEFINE y == op.at.lpage * SPP
  <2>4. y \in Nat
    <3>1. op.at.lpage \in Nat /\ SPP \in Nat \ {0} BY <1>2, GeometryFacts DEF Places
    <3> QED BY <3>1, Products
  <2>5. First(op.at) = y + op.at.off /\ x = y + s /\ Left = op.at.off BY <2>1 DEF First, Left
  <2> HIDE DEF y
  <2>6. x - op.to \in 0 .. First(op.at) + op.at.remain - op.to - 1
    <3>1. PICK f, to, m, o : f = First(op.at) /\ to = op.to /\ m = op.at.remain /\ o = op.at.off
      OBVIOUS
    <3>2. /\ f \in Nat /\ to \in Nat /\ m \in Nat /\ o \in Nat /\ Now(op.at) \in 1 .. m
          /\ f >= to /\ f = y + o /\ x = y + s /\ s \in o .. o + Now(op.at) - 1
      BY <2>1, <2>2, <2>3, <2>5, <3>1
    <3>3. x - to \in 0 .. f + m - to - 1
      <4>1. PICK d : d = Now(op.at) OBVIOUS
      <4> QED BY <2>4, <3>2, <4>1
    <3> QED BY <3>1, <3>3
  <2> QED BY <2>3, <2>6
<1>8. \A x \in LSectors : latest'[x] = latest[x] \/ \E k \in DOMAIN op.old : latest'[x] = op.old[k]
  BY <1>1, <1>7
<1> QED BY <1>6, <1>8

\* Where neither rows nor pages nor values move, the map stays.
LEMMA MappingSteady ==
  ASSUME Mapping, UNCHANGED <<g_target_bank, g_target_row, page_map, latest>>, Chosen' => Chosen,
         op'.call = "copy" => op.call = "copy" /\ op'.old = op.old
  PROVE  Mapping'
<1>1. NewBank' = NewBank /\ NewRow' = NewRow BY DEF NewBank, NewRow
<1>2. \A l, s : Val(l, s)' = Val(l, s) BY DEF Val
<1> QED BY <1>1, <1>2 DEF Mapping

\* A page is begun: the row it takes is above all that are mapped.
LEMMA StartPageMapping ==
  ASSUME IInv, Mapping, StartPage
  PROVE  Mapping'
<1> DEFINE b == g_target_bank
<1>1. /\ op.call \in {"write", "copy"} /\ op.pc = "page" /\ op'.call = op.call
      /\ op.call = "copy" => op'.old = op.old
      /\ b \in Banks /\ NewBank' = b /\ UNCHANGED <<page_map, latest>>
  BY StartPageFacts
<1>2. \A l, s : Val(l, s)' = Val(l, s) BY <1>1 DEF Val
<1>3. ~Chosen BY <1>1 DEF Chosen
<1>4. CASE Stopped' /\ ~Chosen' /\ UNCHANGED <<g_target_row, dram>>
  BY <1>1, <1>2, <1>4 DEF Mapping
<1>5. CASE /\ Chosen' /\ FreeRow(b) \in Rows
           /\ g_target_row' = [g_target_row EXCEPT ![b] = FreeRow(b) + 1]
  <2>1. FtlTypes /\ RowsUsable BY DEF IInv, Types
  <2>2. FreeRow(b) \in Nat /\ FreeRow(b) >= g_target_row[b]
    BY <1>1, <2>1, FreeRowFacts
  <2>3. /\ \A x \in Banks : g_target_row[x] \in Nat /\ g_target_row[x] >= PAGES_PER_VBLK
        /\ PAGES_PER_VBLK \in Nat
    BY <2>1, GeometryFacts DEF FtlTypes, Mapping
  <2>4. PICK row : row = FreeRow(b) OBVIOUS
  <2>5. /\ g_target_row'[b] = row + 1 /\ \A x \in Banks : x # b => g_target_row'[x] = g_target_row[x]
    BY <1>1, <1>5, <2>1, <2>4 DEF FtlTypes
  <2>6. NewRow' = row
    <3>1. NewRow' = g_target_row'[NewBank'] - 1 BY DEF NewRow
    <3>2. NewRow' = (row + 1) - 1 BY <1>1, <2>5, <3>1
    <3> QED BY <2>2, <2>4, <3>2
  <2>7. \A x \in Banks : g_target_row'[x] >= PAGES_PER_VBLK /\ g_target_row'[x] >= g_target_row[x]
    <3> SUFFICES ASSUME NEW x \in Banks
                 PROVE  g_target_row'[x] >= PAGES_PER_VBLK /\ g_target_row'[x] >= g_target_row[x]
      OBVIOUS
    <3>1. CASE x = b BY <1>1, <2>2, <2>3, <2>4, <2>5, <3>1
    <3>2. CASE x # b BY <2>3, <2>5, <3>2
    <3> QED BY <3>1, <3>2
  <2>8. NewRow' >= PAGES_PER_VBLK BY <1>1, <2>2, <2>3, <2>4, <2>6
  <2>9. ASSUME NEW l \in LPages, page_map[l] # NULL
        PROVE  /\ RowOf(page_map[l]) < g_target_row'[BankOf(page_map[l])]
               /\ ~(BankOf(page_map[l]) = NewBank' /\ RowOf(page_map[l]) = NewRow')
    <3>1. RowOf(page_map[l]) < g_target_row[BankOf(page_map[l])] BY <2>9 DEF Mapping
    <3>2. BankOf(page_map[l]) \in Banks /\ RowOf(page_map[l]) \in Nat
      BY <2>1, PhysFacts, GeometryFacts DEF FtlTypes
    <3>3. PICK x, r : x = BankOf(page_map[l]) /\ r = RowOf(page_map[l]) OBVIOUS
    <3>4. /\ x \in Banks /\ r \in Nat /\ r < g_target_row[x] /\ g_target_row[x] <= g_target_row'[x]
          /\ g_target_row'[x] \in Nat
      <4>1. g_target_row'[x] = (IF x = b THEN row + 1 ELSE g_target_row[x]) BY <2>5, <3>2, <3>3
      <4> QED BY <2>2, <2>3, <2>4, <2>7, <3>1, <3>2, <3>3, <4>1
    <3>5. r < g_target_row'[x] BY <2>3, <3>4
    <3>6. ~(x = b /\ r = row) BY <2>2, <2>3, <2>4, <3>4
    <3> QED BY <1>1, <2>6, <3>3, <3>5, <3>6
  <2> QED BY <1>1, <1>2, <2>7, <2>8, <2>9 DEF Mapping
<1> QED BY <1>4, <1>5, StartPageFacts

\* A page is issued: what update_physical_address does to the map.
LEMMA ProgramMapping ==
  ASSUME IInv, Order, Mapping, op.call \in {"write", "copy"}, NEW page \in Nat, ProgramPage(page)
  PROVE  LET phys == NewBank * PPB + NewRow
         IN /\ page_map'[op.at.lpage] = phys /\ phys # NULL
            /\ BankOf(phys) = NewBank /\ RowOf(phys) = NewRow
            /\ \A l \in LPages : l # op.at.lpage => page_map'[l] = page_map[l]
            /\ \A l \in LPages : page_map[l] # phys
            /\ UNCHANGED <<g_target_bank, g_target_row>>
            /\ \A l \in LPages : page_map'[l] # NULL =>
                 RowOf(page_map'[l]) < g_target_row[BankOf(page_map'[l])]
            /\ \A k, l \in LPages : page_map'[k] = page_map'[l] /\ page_map'[k] # NULL => k = l
<1>1. PICK phys : phys = NewBank * PPB + NewRow OBVIOUS
<1>2. /\ op.at.lpage \in LPages /\ page_map' = [page_map EXCEPT ![op.at.lpage] = phys]
      /\ BankOf(phys) = NewBank /\ RowOf(phys) = NewRow /\ NewBank \in Banks /\ NewRow \in Rows
      /\ NewRow + 1 = g_target_row[NewBank]
      /\ Chosen /\ UNCHANGED <<g_target_bank, g_target_row>>
  BY <1>1, ProgramMoves
<1>3. FtlTypes BY DEF IInv, Types
<1>4. /\ page_map'[op.at.lpage] = phys
      /\ \A l \in LPages : l # op.at.lpage => page_map'[l] = page_map[l]
  BY <1>2, <1>3 DEF FtlTypes
<1>5. NewRow \in Nat /\ NewRow > 0
  <2>1. NewRow >= PAGES_PER_VBLK BY <1>2 DEF Mapping
  <2> QED BY <1>2, <2>1, GeometryFacts
<1>6. phys # NULL
  <2>1. RowOf(0) = 0
    <3>1. PPB \in Nat \ {0} BY GeometryFacts
    <3>2. 0 % PPB = 0 BY <3>1, ModSmall
    <3> QED BY <3>2 DEF RowOf, PPB
  <2> QED BY <1>2, <1>5, <2>1 DEF NULL
<1>7. ASSUME NEW l \in LPages PROVE page_map[l] # phys
  <2>1. CASE page_map[l] = NULL BY <1>6, <2>1
  <2>2. CASE page_map[l] # NULL
    <3>1. ~(BankOf(page_map[l]) = NewBank /\ RowOf(page_map[l]) = NewRow)
      BY <1>2, <2>2 DEF Mapping
    <3> QED BY <1>2, <3>1
  <2> QED BY <2>1, <2>2
<1>8. ASSUME NEW l \in LPages, page_map'[l] # NULL
      PROVE  RowOf(page_map'[l]) < g_target_row[BankOf(page_map'[l])]
  <2>1. CASE l = op.at.lpage
    <3>1. NewRow < g_target_row[NewBank] BY <1>2, <1>5
    <3> QED BY <1>2, <1>4, <2>1, <3>1
  <2>2. CASE l # op.at.lpage BY <1>4, <1>8, <2>2 DEF Mapping
  <2> QED BY <2>1, <2>2
<1>9. ASSUME NEW k \in LPages, NEW l \in LPages, page_map'[k] = page_map'[l], page_map'[k] # NULL
      PROVE  k = l
  BY <1>4, <1>7, <1>9 DEF Mapping
<1> QED BY <1>1, <1>2, <1>4, <1>6, <1>7, <1>8, <1>9

\* A page of a write, or of a copy, is issued.
LEMMA WritePageMapping ==
  ASSUME IInv, Order, Mapping, ftl_write_page \/ issd_write_page
  PROVE  Mapping'
<1>1. /\ op.call \in {"write", "copy"} /\ (ProgramPage(issued + 1) \/ ProgramPage(0))
      /\ issued + 1 \in Nat /\ ~Chosen' /\ (op'.call = "copy" => op.call = "copy" /\ op'.old = op.old)
      /\ op.at \in Places /\ op.at.remain > 0 /\ Inside(op.at)
  <2>1. CASE ftl_write_page
    <3>1. op.call = "write" /\ ProgramPage(issued + 1) /\ issued \in Nat /\ ~Chosen' /\ op'.call # "copy"
      BY <2>1, FtlWriteFacts
    <3>2. op.at \in Places /\ op.at.remain > 0 /\ Inside(op.at) BY <3>1, CallFacts DEF IInv, Types
    <3> QED BY <3>1, <3>2
  <2>2. CASE issd_write_page
    <3>1. op.call = "copy" /\ ProgramPage(0) /\ ~Chosen' /\ op'.old = op.old /\ op.pc = "prog"
      BY <2>2, IssdWriteFacts
    <3>2. op.at \in Places /\ op.at.remain > 0 /\ Inside(op.at) /\ issued \in Nat
      BY <3>1, CallFacts DEF IInv, Types, SataTypes
    <3> QED BY <3>1, <3>2
  <2> QED BY <2>1, <2>2
<1>2. PICK phys :
        /\ page_map'[op.at.lpage] = phys /\ phys # NULL
        /\ \A l \in LPages : l # op.at.lpage => page_map'[l] = page_map[l]
        /\ UNCHANGED <<g_target_bank, g_target_row>>
        /\ \A l \in LPages : page_map'[l] # NULL =>
             RowOf(page_map'[l]) < g_target_row[BankOf(page_map'[l])]
        /\ \A k, l \in LPages : page_map'[k] = page_map'[l] /\ page_map'[k] # NULL => k = l
  BY <1>1, ProgramMapping
<1>3. \A x \in LSectors : latest'[x] \in Written \cup {Erased}
  <2>1. CASE ftl_write_page BY <2>1, WriteValues DEF Mapping
  <2>2. CASE issd_write_page
    <3>1. op.call = "copy" BY <2>2 DEF issd_write_page
    <3> QED BY <2>2, <3>1, CopyValues DEF Mapping
  <2> QED BY <1>1, <2>1, <2>2
<1>4. ASSUME NEW l \in LPages, NEW s \in Sectors, Val(l, s)' \in Written PROVE page_map'[l] # NULL
  <2>1. CASE l = op.at.lpage BY <1>2, <2>1
  <2>2. CASE l # op.at.lpage
    <3>1. Val(l, s)' = Val(l, s)
      BY <2>2, WriteValues, CopyValues
    <3>2. page_map[l] # NULL
      <4>1. Val(l, s) \in Written BY <1>4, <3>1
      <4> QED BY <4>1 DEF Mapping
    <3> QED BY <1>2, <2>2, <3>2
  <2> QED BY <2>1, <2>2
<1>5. op'.call = "copy" => \A k \in DOMAIN op'.old : op'.old[k] \in Written \cup {Erased}
  BY <1>1 DEF Mapping
<1>6. \A b \in Banks : g_target_row'[b] >= PAGES_PER_VBLK BY <1>2 DEF Mapping
<1> QED BY <1>1, <1>2, <1>3, <1>4, <1>5, <1>6 DEF Mapping

\* What issd_write_done does to the call.
LEMMA WriteDoneFacts ==
  ASSUME IInv, issd_write_done
  PROVE  LET next == NextPage(op.at)
         IN /\ op.call = "copy" /\ op.pc = "done" /\ op \in CopyWrites /\ CopyWriting
            /\ op.at \in Places /\ op.at.remain > 0 /\ Inside(op.at)
            /\ UNCHANGED <<flashVars, ftlVars, ops, sataVars, latest>>
            /\ op'.call = "none" \/ (/\ op'.call = "copy" /\ op'.pc = "page" /\ next.remain > 0
                                     /\ op'.at = next /\ op'.src = op.src + Now(op.at)
                                     /\ op'.to = op.to /\ op'.old = op.old)
<1> DEFINE next == NextPage(op.at)  src == op.src + Now(op.at)
<1>1. /\ op.call = "copy" /\ op.pc = "done" /\ CallTypes
      /\ UNCHANGED <<flashVars, ftlVars, ops, sataVars, latest>>
  BY DEF issd_write_done, IInv, Types
<1>2. op \in CopyWrites /\ CopyWriting /\ op.at \in Places /\ op.at.remain > 0 /\ Inside(op.at)
  BY <1>1, CallFacts
<1>3. CASE next.remain = 0
  <2>1. op' = [call |-> "none"] BY <1>3 DEF issd_write_done, Return
  <2>2. op'.call = "none" BY <2>1
  <2> QED BY <1>1, <1>2, <2>2
<1>4. CASE next.remain # 0
  <2>1. op' = [op EXCEPT !.at = next, !.src = src, !.pc = "page"]
    BY <1>4 DEF issd_write_done
  <2>2. next.remain > 0
    <3>1. next.remain \in Nat BY <1>2, NextFacts DEF Places
    <3> QED BY <1>4, <3>1
  <2> HIDE DEF next, src
  <2>3. op'.call = "copy" /\ op'.pc = "page" /\ op'.at = next /\ op'.src = src
        /\ op'.to = op.to /\ op'.old = op.old
    BY <1>2, <2>1 DEF CopyWrites
  <2> QED BY <1>1, <1>2, <2>2, <2>3 DEF next, src
<1> QED BY <1>3, <1>4

\* A copy begins: the values it copies are those of sectors.
LEMMA BeginCopyMapping ==
  ASSUME IInv, Mapping, NEW c \in Copies, BeginCopy(c[1], c[2], c[3])
  PROVE  Mapping'
<1> DEFINE src == c[1]  n == c[3]
           old == [k \in 0 .. n - 1 |-> latest[src + k]]
           call == [call |-> "copy", pc |-> "read", page |-> 0, at |-> Span0(src, n),
                    from |-> src, to |-> c[2], n |-> n, old |-> old]
<1>1. op' = call /\ op.call = "none" /\ UNCHANGED <<flashVars, ftlVars, latest>>
  BY DEF BeginCopy, Begin
<1>2. op'.call = "copy" /\ op'.old = old /\ op'.pc = "read" BY <1>1
<1>3. InDevice(src, n) BY Requests
<1>4. ASSUME NEW k \in 0 .. n - 1 PROVE src + k \in LSectors
  <2>1. src \in LSectors /\ n \in Nat /\ src + n <= NUM_LPAGES * SPP BY <1>3, Span0Facts
  <2>2. PICK t : t = NUM_LPAGES * SPP OBVIOUS
  <2>3. t \in Nat /\ LSectors = 0 .. t - 1 BY <2>2, GeometryFacts DEF LSectors, SPP
  <2> HIDE DEF src, n
  <2> QED BY <1>4, <2>1, <2>2, <2>3
<1>5. \A k \in DOMAIN op'.old : op'.old[k] \in Written \cup {Erased}
  BY <1>2, <1>4 DEF Mapping
<1>6. ~Chosen' BY <1>2 DEF Chosen
<1>7. UNCHANGED <<g_target_bank, g_target_row, page_map, latest>> BY <1>1 DEF ftlVars
<1>8. NewBank' = NewBank /\ NewRow' = NewRow BY <1>7 DEF NewBank, NewRow
<1>9. \A l, s : Val(l, s)' = Val(l, s) BY <1>7 DEF Val
<1> HIDE DEF old, call
<1> QED BY <1>5, <1>6, <1>7, <1>8, <1>9 DEF Mapping

\* The map is sound initially ...
LEMMA InitMapping == Init => Mapping
<1> SUFFICES ASSUME Init PROVE Mapping OBVIOUS
<1>1. /\ op = [call |-> "none"] /\ page_map = [l \in LPages |-> NULL]
      /\ g_target_row = [b \in Banks |-> PAGES_PER_VBLK] /\ latest = [s \in LSectors |-> Erased]
  BY DEF Init
<1>2. op.call = "none" BY <1>1
<1>3. PAGES_PER_VBLK \in Nat BY GeometryFacts
<1>4. ASSUME NEW l \in LPages, NEW s \in Sectors PROVE Val(l, s) \notin Written
  <2>1. l * SPP + s \in LSectors BY SectorFacts
  <2>2. PICK x : x = l * SPP + s OBVIOUS
  <2>3. latest[x] = Erased BY <1>1, <2>1, <2>2
  <2>4. Val(l, s) = Erased BY <2>2, <2>3 DEF Val
  <2> QED BY <2>4, ErasedApart
<1> QED BY <1>1, <1>2, <1>3, <1>4 DEF Mapping, Chosen

\* ... and after every step.
LEMMA NextMapping == IInv /\ Order /\ Mapping /\ [Next]_vars => Mapping'
<1> SUFFICES ASSUME IInv, Order, Mapping, [Next]_vars PROVE Mapping' OBVIOUS
<1>1. CASE hardware \/ UNCHANGED vars
  <2>1. UNCHANGED <<g_target_bank, g_target_row, page_map, latest, op>>
    BY <1>1 DEF hardware, HostSends, HostReceives, BankAccepts, BankCompletes, vars, ftlVars
  <2>2. Chosen' <=> Chosen BY <2>1 DEF Chosen
  <2> QED BY <2>1, <2>2, MappingSteady
<1>2. CASE \/ \E w \in Writes : BeginWrite(w[1], w[2])
           \/ \E r \in Reads : BeginRead(r[1], r[2])
  <2>1. /\ op'.call # "copy" /\ ~Chosen'
        /\ UNCHANGED <<g_target_bank, g_target_row, page_map, latest>>
    BY <1>2 DEF BeginWrite, BeginRead, Begin, ftlVars, Chosen
  <2> QED BY <2>1, MappingSteady
<1>3. ASSUME NEW c \in Copies, BeginCopy(c[1], c[2], c[3]) PROVE Mapping'
  BY <1>3, BeginCopyMapping
<1>4. CASE ftl_read
  <2>1. op.call = "read" /\ Continue(op.at) /\ CallTypes
        /\ UNCHANGED <<g_target_bank, g_target_row, page_map, latest>>
    BY <1>4 DEF ftl_read, ftl_read_mapped, ftl_read_unwritten, ReadPage, IInv, Types
  <2>2. ~Chosen' BY <2>1, ContinueFacts
  <2>3. op \in ReadCalls BY <2>1, CallFacts
  <2>4. op'.call # "copy" BY <2>1, <2>3 DEF Continue, Return, ReadCalls
  <2> QED BY <2>1, <2>2, <2>4, MappingSteady
<1>5. CASE StartPage BY <1>5, StartPageMapping
<1>6. CASE ReadLeftHole \/ ReadRightHole
  <2>1. /\ Chosen /\ op'.call = op.call /\ (op.call = "copy" => op'.old = op.old)
        /\ UNCHANGED <<g_target_bank, g_target_row, page_map, latest>>
    BY <1>6, ReadHoleFacts DEF ftlVars
  <2> QED BY <2>1, MappingSteady
<1>7. CASE ftl_write_page \/ issd_write_page BY <1>7, WritePageMapping
<1>8. CASE issd_read_page
  <2>1. /\ op.call = "copy" /\ op'.call = "copy" /\ op'.old = op.old
        /\ op'.pc \in {"finish", "read"}
        /\ UNCHANGED <<g_target_bank, g_target_row, page_map, latest>>
    BY <1>8, CopyReadFacts DEF ftlVars
  <2>2. ~Chosen' BY <2>1 DEF Chosen
  <2> QED BY <2>1, <2>2, MappingSteady
<1>9. CASE issd_read_unwritten
  <2>1. /\ op' = [call |-> "none"] /\ UNCHANGED <<g_target_bank, g_target_row, page_map, latest>>
    BY <1>9 DEF issd_read_unwritten, Return, ftlVars
  <2>2. op'.call # "copy" /\ ~Chosen' BY <2>1 DEF Chosen
  <2> QED BY <2>1, <2>2, MappingSteady
<1>10. CASE issd_read_done
  <2>1. /\ op.call = "copy" /\ op'.call = "copy" /\ op'.old = op.old /\ op'.pc = "page"
        /\ UNCHANGED <<g_target_bank, g_target_row, page_map, latest>>
    BY <1>10 DEF issd_read_done, ftlVars
  <2>2. ~Chosen' BY <2>1 DEF Chosen
  <2> QED BY <2>1, <2>2, MappingSteady
<1>11. CASE issd_write_done
  <2>1. UNCHANGED <<g_target_bank, g_target_row, page_map, latest>> /\ op.call = "copy"
    BY <1>11 DEF issd_write_done, ftlVars
  <2>2. op'.call = "none" \/ (op'.call = "copy" /\ op'.old = op.old /\ op'.pc = "page")
    BY <1>11, WriteDoneFacts
  <2>3. ~Chosen' BY <2>2 DEF Chosen
  <2> QED BY <2>1, <2>2, <2>3, MappingSteady
<1> QED BY <1>1, <1>2, <1>3, <1>4, <1>5, <1>6, <1>7, <1>8, <1>9, <1>10, <1>11
        DEF Next, ftl_write, issd_copy

-----------------------------------------------------------------------------
(* Cells: one sector of a buffer or of a page *)

\* A bank that finishes moves the sectors of its command.
LEMMA CompleteCells ==
  ASSUME FlashTypes, NEW b \in Banks, Complete(b)
  PROVE  /\ \A buf \in Buffers, s \in Sectors :
              dram'[buf][s] = IF bsp[b] \in Readers /\ buf = bsp[b].buf /\ s \in Span(bsp[b])
                              THEN flash[b][bsp[b].row][s] ELSE dram[buf][s]
         /\ \A x \in Banks, row \in Rows, s \in Sectors :
              flash'[x][row][s] = IF /\ bsp[b] \in Pending /\ x = b /\ row = bsp[b].row
                                     /\ s \in Span(bsp[b])
                                  THEN dram[bsp[b].buf][s] ELSE flash[x][row][s]
<1>1. /\ \A x \in Banks, r \in Rows :
           flash'[x][r] = IF bsp[b].fc = "PROG" /\ x = b /\ r = bsp[b].row
                          THEN Programmed(bsp[b]) ELSE flash[x][r]
      /\ \A buf \in Buffers :
           dram'[buf] = IF bsp[b].fc = "READ" /\ buf = bsp[b].buf
                        THEN Filled(bsp[b]) ELSE dram[buf]
      /\ bsp[b] \in Commands /\ bsp[b].bank = b
  BY CompleteFacts
<1>2. /\ bsp[b] \in Readers <=> bsp[b].fc = "READ"
      /\ bsp[b] \in Pending <=> bsp[b].fc = "PROG"
  BY <1>1, UnderWayFacts
<1>3. ASSUME NEW buf \in Buffers, NEW s \in Sectors
      PROVE  dram'[buf][s] = IF bsp[b] \in Readers /\ buf = bsp[b].buf /\ s \in Span(bsp[b])
                             THEN flash[b][bsp[b].row][s] ELSE dram[buf][s]
  <2>1. CASE bsp[b].fc = "READ" /\ buf = bsp[b].buf
    <3>1. dram'[buf] = Filled(bsp[b]) BY <1>1, <2>1
    <3>2. dram'[buf][s] = IF s \in Span(bsp[b]) THEN flash[b][bsp[b].row][s] ELSE dram[buf][s]
      BY <1>1, <2>1, <3>1 DEF Filled
    <3> QED BY <1>2, <2>1, <3>2
  <2>2. CASE ~(bsp[b].fc = "READ" /\ buf = bsp[b].buf)
    BY <1>1, <1>2, <2>2
  <2> QED BY <2>1, <2>2
<1>4. ASSUME NEW x \in Banks, NEW row \in Rows, NEW s \in Sectors
      PROVE  flash'[x][row][s] = IF /\ bsp[b] \in Pending /\ x = b /\ row = bsp[b].row
                                    /\ s \in Span(bsp[b])
                                 THEN dram[bsp[b].buf][s] ELSE flash[x][row][s]
  <2>1. CASE bsp[b].fc = "PROG" /\ x = b /\ row = bsp[b].row
    <3>1. flash'[x][row] = Programmed(bsp[b]) BY <1>1, <2>1
    <3>2. flash'[x][row][s] = IF s \in Span(bsp[b]) THEN dram[bsp[b].buf][s] ELSE flash[x][row][s]
      BY <1>1, <2>1, <3>1 DEF Programmed
    <3> QED BY <1>2, <2>1, <3>2
  <2>2. CASE ~(bsp[b].fc = "PROG" /\ x = b /\ row = bsp[b].row)
    BY <1>1, <1>2, <2>2
  <2> QED BY <2>1, <2>2
<1> QED BY <1>3, <1>4

\* The host's page goes to its sectors of the next buffer.
LEMMA SendCells ==
  ASSUME IInv, HostSends
  PROVE  LET w == wrPages[1]
         IN /\ \A buf \in Buffers, s \in Sectors :
                 dram'[buf][s] = IF buf = BufOf(received + 1) /\ s \in w.col .. w.col + w.cnt - 1
                                 THEN <<w.id, w.lpage * SPP + s>> ELSE dram[buf][s]
            /\ received' = received + 1 /\ received \in Nat /\ Len(wrPages) \in Nat \ {0}
            /\ \A i \in 1 .. Len(wrPages) - 1 : wrPages'[i] = wrPages[i + 1]
            /\ received >= NWB => ~InUse(received + 1 - NWB)
            /\ Pending' = Pending /\ Readers' = Readers /\ UnderWay' = UnderWay
            /\ UNCHANGED <<wroom, bsp, flash, ftlVars, op, ops, issued, rdPages, latest>>
<1> DEFINE w == wrPages[1]  buf0 == WR_BUF(received % NUM_WR_BUFFERS)
           new == [s \in Sectors |-> IF s \in w.col .. w.col + w.cnt - 1
                                     THEN <<w.id, w.lpage * SPP + s>> ELSE dram[buf0][s]]
<1>1. received \in Nat /\ wrPages \in Seq(Packets) /\ FlashTypes
  BY DEF IInv, Types, SataTypes
<1>2. /\ wrPages # << >> /\ received' = received + 1 /\ wrPages' = Tail(wrPages)
      /\ received >= NWB => ~InUse(received + 1 - NWB)
      /\ dram' = [dram EXCEPT ![buf0] = new]
      /\ UNCHANGED <<wroom, bsp, flash, ftlVars, op, ops, issued, rdPages, latest>>
  <2>1. Head(wrPages) = w BY <1>1
  <2> QED BY <2>1 DEF HostSends, NWB, SPP
<1>3. BufOf(received + 1) = buf0 /\ buf0 \in Buffers
  <2>1. (received + 1) - 1 = received BY <1>1
  <2>2. BufOf(received + 1) = buf0 BY <2>1 DEF BufOf, NWB
  <2> QED BY <1>1, <2>2, BufferFacts
<1> HIDE DEF buf0
<1>4. ASSUME NEW buf \in Buffers, NEW s \in Sectors
      PROVE  dram'[buf][s] = IF buf = buf0 /\ s \in w.col .. w.col + w.cnt - 1
                             THEN <<w.id, w.lpage * SPP + s>> ELSE dram[buf][s]
  <2>1. CASE buf = buf0
    <3>1. dram'[buf] = new BY <1>1, <1>2, <1>3, <2>1 DEF FlashTypes
    <3>2. dram'[buf][s] = new[s] BY <3>1
    <3> QED BY <2>1, <3>2
  <2>2. CASE buf # buf0 BY <1>1, <1>2, <2>2 DEF FlashTypes
  <2> QED BY <2>1, <2>2
<1>5. /\ Len(wrPages) \in Nat \ {0}
      /\ \A i \in 1 .. Len(wrPages) - 1 : wrPages'[i] = wrPages[i + 1]
  BY <1>1, <1>2, HeadTailProperties
<1>6. Pending' = Pending /\ Readers' = Readers /\ UnderWay' = UnderWay
  BY <1>2 DEF Pending, Readers, UnderWay
<1> QED BY <1>1, <1>2, <1>3, <1>4, <1>5, <1>6

\* The new sectors of a page and its holes.
LEMMA ColumnFacts ==
  ASSUME op.at \in Places, op.at.remain > 0, Inside(op.at)
  PROVE  /\ Left \in Nat /\ Right \in 0 .. SPP - 1 /\ Now(op.at) \in Nat
         /\ SPP - Right = Left + Now(op.at) /\ Left + Now(op.at) <= SPP
         /\ \A s \in Sectors : HoleRead(s) => s \notin Left .. Left + Now(op.at) - 1
         /\ \A s \in Sectors : op.pc = "prog" /\ s \notin Left .. Left + Now(op.at) - 1 =>
              HoleRead(s) /\ (Left # 0 \/ Right # 0)
<1>1. /\ Left \in Nat /\ Left < SPP /\ op.at.remain \in Nat \ {0} /\ SPP \in Nat \ {0}
      /\ Left = op.at.off /\ Sectors = 0 .. SPP - 1
  BY GeometryFacts DEF Places, Left
<1>2. /\ Right = IF Left + op.at.remain >= SPP THEN 0 ELSE SPP - (Left + op.at.remain)
      /\ Now(op.at) = IF Left + op.at.remain < SPP THEN op.at.remain ELSE SPP - Left
  BY <1>1 DEF Right, Now, SPP
<1>3. /\ Right \in 0 .. SPP - 1 /\ Now(op.at) \in Nat /\ SPP - Right = Left + Now(op.at)
      /\ Left + Now(op.at) <= SPP
  <2>1. PICK n, r, m : n = Now(op.at) /\ r = Right /\ m = op.at.remain OBVIOUS
  <2>2. /\ Left \in Nat /\ Left < SPP /\ m \in Nat \ {0} /\ SPP \in Nat
        /\ r = IF Left + m >= SPP THEN 0 ELSE SPP - (Left + m)
        /\ n = IF Left + m < SPP THEN m ELSE SPP - Left
    BY <1>1, <1>2, <2>1
  <2>3. r \in 0 .. SPP - 1 /\ n \in Nat /\ SPP - r = Left + n /\ Left + n <= SPP
    <3>1. CASE Left + m < SPP BY <2>2, <3>1
    <3>2. CASE ~(Left + m < SPP) BY <2>2, <3>2
    <3> QED BY <3>1, <3>2
  <2> QED BY <2>1, <2>3
<1>4. PICK n, e : n = Now(op.at) /\ e = SPP - Right OBVIOUS
<1>5. n \in Nat /\ e \in Nat /\ e = Left + n /\ e <= SPP BY <1>1, <1>3, <1>4
<1>6. ASSUME NEW s \in Sectors, HoleRead(s) PROVE s \notin Left .. Left + n - 1
  <2>1. s < Left \/ s >= e BY <1>4, <1>6 DEF HoleRead
  <2> QED BY <1>1, <1>5, <2>1
<1>7. ASSUME NEW s \in Sectors, op.pc = "prog", s \notin Left .. Left + n - 1
      PROVE  HoleRead(s) /\ (Left # 0 \/ Right # 0)
  <2>1. s < Left \/ s >= e BY <1>1, <1>5, <1>7
  <2>2. Left # 0 \/ Right # 0 BY <1>1, <1>3, <1>4, <1>5, <2>1
  <2> QED BY <1>4, <1>7, <2>1, <2>2 DEF HoleRead
<1> QED BY <1>1, <1>3, <1>4, <1>6, <1>7

\* How far the host's data is ahead of the commands, and behind them.
LEMMA WindowFacts ==
  ASSUME IInv, Order
  PROVE  /\ received \in Nat /\ issued \in Nat /\ NWB \in Nat \ {0} /\ NWB > NUM_BANKS
         /\ NUM_BANKS \in Nat
         /\ received <= issued + NWB
         /\ op.call # "write" => received <= issued
         /\ issued <= received + Len(wrPages) /\ Len(wrPages) \in Nat
         /\ \A c \in Pending : /\ c \in Commands /\ c.page \in Nat /\ c.page <= issued
                               /\ c.col = 0 /\ c.cnt = SPP /\ \A s \in Sectors : s \in Span(c)
                               /\ c.page > 0 => c.buf = BufOf(c.page) /\ received < c.page + NWB
                               /\ c.page = 0 => c.buf = ISSD_WR_BUF
         /\ Buf = IF op.call = "write" THEN BufOf(issued + 1) ELSE ISSD_WR_BUF
<1>1. /\ received \in Nat /\ issued \in Nat /\ NWB \in Nat \ {0} /\ NWB > NUM_BANKS
      /\ wrPages \in Seq(Packets) /\ NUM_BANKS \in Nat
  BY GeometryFacts DEF IInv, Types, SataTypes, NWB
<1>2. Len(wrPages) \in Nat BY <1>1
<1>3. received <= issued + NWB
  <2> SUFFICES ASSUME received > issued + NWB PROVE FALSE BY <1>1
  <2>1. issued + 1 \in 1 .. received - NWB BY <1>1
  <2>2. ~InUse(issued + 1) BY <2>1 DEF Order, HostData
  <2> QED BY <1>1, <2>2 DEF InUse
<1>4. /\ op.call # "write" => received <= issued
      /\ issued <= received + Len(wrPages)
  <2>1. CASE op.call # "write"
    <3>1. received + Len(wrPages) = issued + 0 BY <2>1 DEF Order, HostData
    <3> QED BY <1>1, <1>2, <3>1
  <2>2. CASE op.call = "write"
    <3>1. received + Len(wrPages) = issued + Len(Remaining) BY <2>2 DEF Order, HostData
    <3>2. Len(Remaining) \in Nat
      <4>1. op.at \in Places /\ op.at.remain > 0 /\ Inside(op.at)
        BY <2>2, CallFacts DEF IInv, Types
      <4>2. Len(PagesFrom(op.id, op.at)) \in Nat \ {0} BY <4>1, PagesOfNext, Zenon
      <4> QED BY <4>2 DEF Remaining
    <3> QED BY <1>1, <1>2, <2>2, <3>1, <3>2
  <2> QED BY <2>1, <2>2
<1>5. ASSUME NEW c \in Pending
      PROVE  /\ c \in Commands /\ c.page \in Nat /\ c.page <= issued
             /\ c.col = 0 /\ c.cnt = SPP /\ \A s \in Sectors : s \in Span(c)
             /\ c.page > 0 => c.buf = BufOf(c.page) /\ received < c.page + NWB
             /\ c.page = 0 => c.buf = ISSD_WR_BUF
  <2>1. c \in Commands /\ c.page \in Nat /\ c \in UnderWay /\ c.fc = "PROG"
    BY UnderWayFacts, CommandFacts DEF IInv, Types
  <2>2. /\ c.page <= issued /\ c.col = 0 /\ c.cnt = SPP
        /\ c.buf = IF c.page > 0 THEN BufOf(c.page) ELSE ISSD_WR_BUF
    BY DEF Order, ProgCommands
  <2>3. \A s \in Sectors : s \in Span(c)
    <3>1. SPP \in Nat /\ Sectors = 0 .. SPP - 1 BY GeometryFacts
    <3> QED BY <2>2, <3>1 DEF Span
  <2>4. ASSUME c.page > 0 PROVE received < c.page + NWB
    <3> SUFFICES ASSUME received >= c.page + NWB PROVE FALSE BY <1>1, <2>1
    <3>1. c.page \in 1 .. received - NWB BY <1>1, <2>1, <2>4
    <3>2. ~InUse(c.page) BY <3>1 DEF Order, HostData
    <3> QED BY <2>1, <3>2 DEF InUse
  <2> QED BY <2>1, <2>2, <2>3, <2>4
<1>6. Buf = IF op.call = "write" THEN BufOf(issued + 1) ELSE ISSD_WR_BUF
  <2>1. (issued + 1) - 1 = issued BY <1>1
  <2>2. BufOf(issued + 1) = WR_BUF(g_ftl_write_buf_id) BY <2>1 DEF BufOf, Order, ProgCommands
  <2> QED BY <2>2 DEF Buf
<1> QED BY <1>1, <1>2, <1>3, <1>4, <1>5, <1>6

-----------------------------------------------------------------------------
(* The host's data in the write buffers *)

\* The page that ftl_write is at, and those after it.
LEMMA RemainingFacts ==
  ASSUME IInv, op.call = "write"
  PROVE  /\ op.at \in Places /\ op.at.remain > 0 /\ Inside(op.at) /\ op.at.lpage \in LPages
         /\ Len(Remaining) \in Nat \ {0} /\ DOMAIN Remaining = 1 .. Len(Remaining)
         /\ Remaining[1].id = op.id /\ Remaining[1].lpage = op.at.lpage
         /\ Remaining[1].col = Left /\ Remaining[1].cnt = Now(op.at)
<1>1. op.at \in Places /\ op.at.remain > 0 /\ Inside(op.at) BY CallFacts DEF IInv, Types
<1>2. op.at.lpage \in LPages BY <1>1, PlaceInside
<1>3. /\ Len(PagesFrom(op.id, op.at)) \in Nat \ {0}
      /\ DOMAIN PagesFrom(op.id, op.at) = 1 .. Len(PagesFrom(op.id, op.at))
      /\ PagesFrom(op.id, op.at)[1].id = op.id /\ PagesFrom(op.id, op.at)[1].lpage = op.at.lpage
      /\ PagesFrom(op.id, op.at)[1].col = op.at.off /\ PagesFrom(op.id, op.at)[1].cnt = Now(op.at)
  BY <1>1, PagesOfNext, Zenon
<1> QED BY <1>1, <1>2, <1>3 DEF Remaining, Left

\* Where the buffers, the counts and the write stay.
LEMMA ReceivedSteady ==
  ASSUME Received, op'.call = "write" => op.call = "write" /\ Remaining' = Remaining,
         UNCHANGED <<issued, received>>, op.call = "write" => UNCHANGED dram
  PROVE  Received'
BY DEF Received

\* The host's next page, in its buffer.
LEMMA HostSendsReceived ==
  ASSUME IInv, Order, Received, HostSends
  PROVE  Received'
<1> SUFFICES ASSUME op'.call = "write", NEW q \in issued' + 1 .. received', NEW s \in Sectors,
                    s \in Remaining'[q - issued'].col .. Remaining'[q - issued'].col
                                                       + Remaining'[q - issued'].cnt - 1
             PROVE  dram'[BufOf(q)][s] = <<Remaining'[q - issued'].id,
                                           Remaining'[q - issued'].lpage * SPP + s>>
  BY DEF Received
<1>1. PICK w : w = wrPages[1] OBVIOUS
<1>2. /\ \A buf \in Buffers, t \in Sectors :
           dram'[buf][t] = IF buf = BufOf(received + 1) /\ t \in w.col .. w.col + w.cnt - 1
                           THEN <<w.id, w.lpage * SPP + t>> ELSE dram[buf][t]
      /\ received' = received + 1 /\ Len(wrPages) \in Nat \ {0}
      /\ received >= NWB => ~InUse(received + 1 - NWB)
      /\ UNCHANGED <<op, issued>>
  BY <1>1, SendCells
<1>3. /\ received \in Nat /\ issued \in Nat /\ NWB \in Nat \ {0} /\ received <= issued + NWB
  BY WindowFacts
<1>4. op.call = "write" /\ Remaining' = Remaining /\ Len(Remaining) \in Nat \ {0}
  BY <1>2, RemainingFacts DEF Remaining
<1>5. PICK v : v = Remaining[q - issued] OBVIOUS
<1>6. s \in v.col .. v.col + v.cnt - 1 BY <1>2, <1>4, <1>5
<1>7. q \in issued + 1 .. received + 1 /\ q \in Int BY <1>2, <1>3
<1>8. BufOf(q) \in Buffers
  <2>1. BufOf(q) \in WriteBuffers BY <1>7, WriteBufferFacts DEF IInv
  <2> QED BY <2>1, BufferFacts DEF WriteBuffers, NWB
<1>9. CASE q = received + 1
  <2>1. received + Len(wrPages) = issued + Len(Remaining) BY <1>4 DEF Order, HostData
  <2>2. q \in issued + 1 .. issued + Len(Remaining) /\ q > received /\ q - received = 1
    BY <1>2, <1>3, <1>4, <1>7, <1>9, <2>1
  <2>3. wrPages[q - received] = Remaining[q - issued] BY <1>4, <2>2 DEF Order, HostData
  <2>4. w = v BY <1>1, <1>5, <2>2, <2>3
  <2> QED BY <1>2, <1>4, <1>5, <1>6, <1>8, <1>9, <2>4
<1>10. CASE q # received + 1
  <2>1. q \in issued + 1 .. received BY <1>3, <1>7, <1>10
  <2>2. dram[BufOf(q)][s] = <<v.id, v.lpage * SPP + s>> BY <1>4, <1>5, <1>6, <2>1 DEF Received
  <2>3. BufOf(q) # BufOf(received + 1)
    <3>1. received + 1 < q + NWB
      <4> SUFFICES ASSUME received + 1 >= q + NWB PROVE FALSE BY <1>3, <1>7
      <4>1. received >= NWB BY <1>3, <1>7
      <4>2. ~InUse(received + 1 - NWB) BY <1>2, <4>1
      <4>3. received + 1 - NWB <= issued
        <5>1. ~(received + 1 - NWB > issued) BY <4>2 DEF InUse
        <5> QED BY <1>3, <5>1
      <4> QED BY <1>3, <2>1, <4>3
    <3>2. q < received + 1 BY <1>3, <2>1
    <3>3. received + 1 \in Int BY <1>3
    <3> QED BY <1>7, <3>1, <3>2, <3>3, WriteBufferFacts DEF IInv
  <2>4. dram'[BufOf(q)][s] = dram[BufOf(q)][s] BY <1>2, <1>8, <2>3
  <2> QED BY <1>2, <1>4, <1>5, <2>2, <2>4
<1> QED BY <1>9, <1>10

\* A read of a hole does not touch the host's data.
LEMMA BankCompletesReceived ==
  ASSUME IInv, Order, Readings, Received, NEW b \in Banks, BankCompletes(b)
  PROVE  Received'
<1> SUFFICES ASSUME op'.call = "write", NEW q \in issued' + 1 .. received', NEW s \in Sectors,
                    s \in Remaining'[q - issued'].col .. Remaining'[q - issued'].col
                                                       + Remaining'[q - issued'].cnt - 1
             PROVE  dram'[BufOf(q)][s] = <<Remaining'[q - issued'].id,
                                           Remaining'[q - issued'].lpage * SPP + s>>
  BY DEF Received
<1>1. Complete(b) /\ UNCHANGED <<op, received, issued>> /\ FlashTypes
  BY DEF BankCompletes, IInv, Types
<1>2. op.call = "write" /\ Remaining' = Remaining BY <1>1 DEF Remaining
<1>3. PICK v : v = Remaining[q - issued] OBVIOUS
<1>4. s \in v.col .. v.col + v.cnt - 1 /\ dram[BufOf(q)][s] = <<v.id, v.lpage * SPP + s>>
  BY <1>1, <1>2, <1>3 DEF Received
<1>5. /\ received \in Nat /\ issued \in Nat /\ NWB \in Nat \ {0} /\ received <= issued + NWB
      /\ Buf = BufOf(issued + 1)
  BY <1>2, WindowFacts
<1>6. q \in issued + 1 .. received /\ q \in Int BY <1>1, <1>5
<1>7. BufOf(q) \in WriteBuffers /\ BufOf(q) \in Buffers /\ BufOf(q) # ISSD_WR_BUF
  <2>1. BufOf(q) \in WriteBuffers /\ BufOf(q) # ISSD_WR_BUF
    BY <1>6, WriteBufferFacts DEF IInv
  <2> QED BY <2>1, BufferFacts DEF WriteBuffers, NWB
<1>8. PICK r : r = bsp[b] OBVIOUS
<1>9. ASSUME r \in Readers, BufOf(q) = r.buf, s \in Span(r) PROVE FALSE
  <2>1. CASE HolesBegun /\ r.buf = Buf /\ \A t \in Span(r) : HoleRead(t)
    <3>1. q = issued + 1
      <4> SUFFICES ASSUME q # issued + 1 PROVE FALSE OBVIOUS
      <4>1. issued + 1 < q /\ q < issued + 1 + NWB /\ issued + 1 \in Int BY <1>5, <1>6
      <4>2. BufOf(issued + 1) # BufOf(q) BY <1>6, <4>1, WriteBufferFacts DEF IInv
      <4> QED BY <1>5, <1>9, <2>1, <4>2
    <3>2. q - issued = 1 BY <1>5, <3>1
    <3>3. v.col = Left /\ v.cnt = Now(op.at) BY <1>2, <1>3, <3>2, RemainingFacts
    <3>4. s \notin Left .. Left + Now(op.at) - 1
      <4>1. HoleRead(s) BY <1>9, <2>1
      <4> QED BY <1>2, <4>1, ColumnFacts, RemainingFacts
    <3> QED BY <1>4, <3>3, <3>4
  <2>2. CASE wroom.fc = "PROG" /\ r.buf = wroom.buf
    <3>1. wroom \in Pending BY <2>2 DEF Pending, UnderWay
    <3>2. /\ wroom.page \in Nat /\ wroom.page <= issued
          /\ wroom.page > 0 => wroom.buf = BufOf(wroom.page) /\ received < wroom.page + NWB
          /\ wroom.page = 0 => wroom.buf = ISSD_WR_BUF
      BY <3>1, WindowFacts
    <3>3. wroom.page > 0 BY <1>7, <1>9, <2>2, <3>2
    <3>4. PICK p : p = wroom.page OBVIOUS
    <3>5. p \in Int /\ p < q /\ q < p + NWB BY <1>5, <1>6, <3>2, <3>3, <3>4
    <3>6. BufOf(p) # BufOf(q) BY <1>6, <3>5, WriteBufferFacts DEF IInv
    <3> QED BY <1>9, <2>2, <3>2, <3>3, <3>4, <3>6
  <2> QED BY <1>7, <1>9, <2>1, <2>2 DEF Readings, HoleReads
<1>10. dram'[BufOf(q)][s] = dram[BufOf(q)][s] BY <1>1, <1>7, <1>8, <1>9, CompleteCells
<1> QED BY <1>1, <1>2, <1>3, <1>4, <1>10

\* A page of a write is issued: the pages that remain are known by one less.
LEMMA FtlWritePageReceived ==
  ASSUME IInv, Order, Received, ftl_write_page
  PROVE  Received'
<1>1. /\ op.call = "write" /\ ProgramPage(issued + 1) /\ issued' = issued + 1 /\ issued \in Nat
      /\ \/ op' = [call |-> "none"]
         \/ /\ NextPage(op.at).remain > 0 /\ op'.call = "write"
            /\ op'.at = NextPage(op.at) /\ op'.id = op.id
  BY FtlWriteFacts
<1>2. UNCHANGED <<dram, received>> /\ received \in Nat
  BY <1>1, ProgramMoves DEF IInv, Types, SataTypes
<1>3. CASE op' = [call |-> "none"]
  <2>1. op'.call = "none" BY <1>3
  <2> QED BY <2>1 DEF Received
<1>4. CASE /\ NextPage(op.at).remain > 0 /\ op'.call = "write"
           /\ op'.at = NextPage(op.at) /\ op'.id = op.id
  <2> SUFFICES ASSUME NEW q \in issued' + 1 .. received'
               PROVE  Remaining'[q - issued'] = Remaining[q - issued] /\ q \in issued + 1 .. received
    BY <1>1, <1>2, <1>4 DEF Received
  <2>1. q \in issued + 1 .. received /\ q \in Int /\ q > issued + 1 BY <1>1, <1>2
  <2>2. Remaining' = PagesFrom(op.id, NextPage(op.at)) /\ Remaining = PagesFrom(op.id, op.at)
    BY <1>4 DEF Remaining
  <2>3. /\ Len(PagesFrom(op.id, NextPage(op.at))) = Len(PagesFrom(op.id, op.at)) - 1
        /\ \A k \in 1 .. Len(PagesFrom(op.id, NextPage(op.at))) :
             PagesFrom(op.id, NextPage(op.at))[k] = PagesFrom(op.id, op.at)[k + 1]
    BY <1>1, <1>4, RemainingFacts, PagesOfNext, Zenon
  <2>4. q - issued' = q - issued - 1 /\ q - issued - 1 >= 1 /\ (q - issued - 1) + 1 = q - issued
    BY <1>1, <2>1
  <2>5. q - issued - 1 <= Len(Remaining) - 1
    <3>1. received + Len(wrPages) = issued + Len(Remaining) BY <1>1 DEF Order, HostData
    <3>2. Len(wrPages) \in Nat /\ Len(Remaining) \in Nat BY <1>1, WindowFacts, RemainingFacts
    <3> QED BY <1>1, <1>2, <2>1, <3>1, <3>2
  <2>6. Len(Remaining) \in Nat BY <1>1, RemainingFacts
  <2>7. q - issued - 1 \in 1 .. Len(Remaining) - 1 BY <1>1, <2>1, <2>4, <2>5, <2>6
  <2>8. Remaining'[q - issued - 1] = Remaining[(q - issued - 1) + 1]
    BY <2>2, <2>3, <2>7
  <2> QED BY <2>1, <2>4, <2>8
<1> QED BY <1>1, <1>3, <1>4

\* A write begins with all its data still to come.
LEMMA BeginReceived ==
  ASSUME IInv, Order, NEW w \in Writes, BeginWrite(w[1], w[2])
  PROVE  Received'
<1>1. op.call # "write" /\ UNCHANGED <<received, issued>> BY DEF BeginWrite, Begin
<1>2. received <= issued /\ received \in Nat /\ issued \in Nat BY <1>1, WindowFacts
<1>3. ~ \E q : q \in issued' + 1 .. received' BY <1>1, <1>2
<1> QED BY <1>3 DEF Received

\* The data that ftl_write has not come to is in its buffers, initially ...
LEMMA InitReceived == Init => Received
<1>1. Init => op.call = "none" BY DEF Init
<1> QED BY <1>1 DEF Received

\* ... and after every step.
LEMMA NextReceived == IInv /\ Order /\ Readings /\ Received /\ [Next]_vars => Received'
<1> SUFFICES ASSUME IInv, Order, Readings, Received, [Next]_vars PROVE Received' OBVIOUS
<1>1. CASE hardware \/ UNCHANGED vars
  <2>1. CASE HostReceives \/ BankAccepts \/ UNCHANGED vars
    <3>1. UNCHANGED <<op, issued, received, dram>>
      BY <2>1 DEF HostReceives, BankAccepts, Accept, vars, flashVars, sataVars
    <3>2. Remaining' = Remaining BY <3>1 DEF Remaining
    <3> QED BY <3>1, <3>2, ReceivedSteady
  <2> QED BY <1>1, <2>1, HostSendsReceived, BankCompletesReceived DEF hardware
<1>2. ASSUME NEW w \in Writes, BeginWrite(w[1], w[2]) PROVE Received' BY <1>2, BeginReceived
<1>3. ASSUME op.call # "write", op'.call # "write" PROVE Received' BY <1>3 DEF Received
<1>4. CASE \/ \E r \in Reads : BeginRead(r[1], r[2])
           \/ \E c \in Copies : BeginCopy(c[1], c[2], c[3])
  <2>1. op.call = "none" /\ (op'.call = "read" \/ op'.call = "copy")
    BY <1>4 DEF BeginRead, BeginCopy, Begin
  <2> QED BY <1>3, <2>1
<1>5. CASE ftl_read
  <2>1. op.call = "read" /\ Continue(op.at) /\ CallTypes
    BY <1>5 DEF ftl_read, ftl_read_mapped, ftl_read_unwritten, ReadPage, IInv, Types
  <2>2. op \in ReadCalls BY <2>1, CallFacts
  <2>3. op'.call # "write" BY <2>1, <2>2 DEF Continue, Return, ReadCalls
  <2> QED BY <1>3, <2>1, <2>3
<1>6. CASE StartPage
  <2>1. /\ op'.call = op.call /\ op'.at = op.at /\ (op.call = "write" => op'.id = op.id)
        /\ UNCHANGED <<issued, received>>
        /\ UNCHANGED dram \/ dram' = IF op.call = "copy" THEN CopyIn ELSE dram
    BY <1>6, StartPageFacts
  <2>2. op.call = "write" => UNCHANGED <<dram, Remaining>> BY <2>1 DEF Remaining
  <2> QED BY <2>1, <2>2, ReceivedSteady
<1>7. CASE ReadLeftHole \/ ReadRightHole
  <2>1. /\ op'.call = op.call /\ op'.at = op.at /\ (op.call = "write" => op'.id = op.id)
        /\ UNCHANGED <<dram, issued, received>>
    BY <1>7, ReadHoleFacts DEF sataVars
  <2>2. op.call = "write" => UNCHANGED Remaining BY <2>1 DEF Remaining
  <2> QED BY <2>1, <2>2, ReceivedSteady
<1>8. CASE ftl_write_page BY <1>8, FtlWritePageReceived
<1>9. CASE issd_copy
  <2>1. op.call = "copy"
    BY <1>9 DEF issd_copy, issd_read_page, issd_read_unwritten, issd_read_done, issd_write_page,
                issd_write_done
  <2>2. op'.call # "write"
    <3>1. issd_read_page => op'.call = "copy" BY CopyReadFacts
    <3>2. issd_read_unwritten => op'.call = "none" BY DEF issd_read_unwritten, Return
    <3>3. issd_read_done => op'.call = "copy" BY DEF issd_read_done
    <3>4. issd_write_page => op'.call = "copy" BY IssdWriteFacts
    <3>5. issd_write_done => op'.call # "write" BY WriteDoneFacts
    <3> QED BY <1>9, <3>1, <3>2, <3>3, <3>4, <3>5 DEF issd_copy
  <2> QED BY <1>3, <2>1, <2>2
<1> QED BY <1>1, <1>2, <1>4, <1>5, <1>6, <1>7, <1>8, <1>9 DEF Next, ftl_write

-----------------------------------------------------------------------------
(* The contents of the flash and of the buffers *)

Base == IInv /\ Order /\ Readings /\ Mapping /\ Received
CallData == HolesFilled /\ CopiedIn /\ CopyRead /\ CopyComputed
Contents == StoredLatest /\ OnTheWay /\ CallData

(* StoredLatest, for one sector                                            *)
Stored(l, s) ==
  page_map[l] # NULL /\ (\A c \in Pending : ~At(c, l)) /\ Val(l, s) \in Written =>
    flash[BankOf(page_map[l])][RowOf(page_map[l])][s] = Val(l, s)

\* StoredLatest is about each sector, now and in the next state.
LEMMA StoredMeans ==
  /\ StoredLatest <=> \A l \in LPages, s \in Sectors : Stored(l, s)
  /\ StoredLatest' <=> \A l \in LPages, s \in Sectors : Stored(l, s)'
<1>1. StoredLatest <=> \A l \in LPages, s \in Sectors : Stored(l, s)
  BY DEF StoredLatest, Stored, At, Val, SPP
<1>2. StoredLatest' <=> \A l \in LPages, s \in Sectors : Stored(l, s)'
  BY DEF StoredLatest, Stored, At, Val, SPP
<1> QED BY <1>1, <1>2

\* A command that is under way is in the Waiting Room or its bank executes it.
LEMMA PendingPlace ==
  ASSUME IInv
  PROVE  /\ \A c \in Pending : /\ c \in Commands /\ c.fc = "PROG" /\ c.bank \in Banks /\ c.row \in Rows
                               /\ c.buf \in Buffers
                               /\ (c = wroom \/ c = bsp[c.bank])
         /\ \A r \in Readers : /\ r \in Commands /\ r.fc = "READ" /\ r.bank \in Banks /\ r.row \in Rows
                               /\ r.buf \in Buffers
                               /\ (r = wroom \/ r = bsp[r.bank])
         /\ wroom.fc = "PROG" => wroom \in Pending
         /\ FlashTypes /\ Types
<1>1. FlashTypes /\ Types BY DEF IInv, Types
<1>2. /\ Pending \subseteq Commands /\ Readers \subseteq Commands
      /\ \A c \in Commands : c \in UnderWay => c = wroom \/ c = bsp[c.bank]
  BY <1>1, UnderWayFacts
<1>3. wroom.fc = "PROG" => wroom \in Pending BY DEF Pending, UnderWay
<1> QED BY <1>1, <1>2, <1>3, CommandFacts DEF Pending, Readers

\* Nothing moves between the flash and the buffers of program commands.
LEMMA WaySteady ==
  ASSUME IInv, StoredLatest, OnTheWay, UNCHANGED <<flash, page_map, latest, received>>,
         Pending' = Pending,
         \A c \in Pending : c.page > received => wrPages'[c.page - received] = wrPages[c.page - received],
         \A c \in Pending, s \in Sectors : dram'[c.buf][s] = dram[c.buf][s],
         \A c \in Pending, s \in Sectors : Reading(c.buf, s)' <=> Reading(c.buf, s),
         UNCHANGED <<wroom, bsp>> \/ wroom = NoCmd
  PROVE  StoredLatest' /\ OnTheWay'
<1>1. /\ \A c, l : At(c, l)' <=> At(c, l)
      /\ \A l, s : Val(l, s)' = Val(l, s)
  BY DEF At, Val
<1>2. StoredLatest'
  <2>1. \A l \in LPages, s \in Sectors : Stored(l, s)' <=> Stored(l, s) BY <1>1 DEF Stored
  <2> QED BY <2>1, StoredMeans
<1>3. ASSUME NEW c \in Pending, NEW l \in LPages, NEW s \in Sectors, At(c, l), Val(l, s) \in Written
      PROVE  Comes(c, l, s)'
  <2>1. Comes(c, l, s) BY <1>3 DEF OnTheWay
  <2>2. PICK v : v = wrPages[c.page - received] OBVIOUS
  <2>3. c.page > received => wrPages'[c.page - received'] = v BY <2>2
  <2>4. Arrives(c.page, s)' <=> Arrives(c.page, s) BY <2>2, <2>3 DEF Arrives
  <2>5. CASE Arrives(c.page, s)
    <3>1. ~Reading(c.buf, s) /\ Val(l, s) = <<v.id, l * SPP + s>> /\ v.lpage = l
      BY <2>1, <2>2, <2>5 DEF Comes
    <3>2. c.page > received BY <2>5 DEF Arrives
    <3> QED BY <1>1, <2>3, <2>4, <2>5, <3>1, <3>2 DEF Comes
  <2>6. CASE ~Arrives(c.page, s)
    <3>1. CASE Reading(c.buf, s)
      <4>1. c = wroom /\ flash[c.bank][bsp[c.bank].row][s] = Val(l, s) BY <2>1, <2>6, <3>1 DEF Comes
      <4>2. UNCHANGED <<wroom, bsp>> BY <4>1, PendingPlace, CommandFacts
      <4> QED BY <1>1, <2>4, <2>6, <3>1, <4>1, <4>2 DEF Comes
    <3>2. CASE ~Reading(c.buf, s)
      <4>1. dram[c.buf][s] = Val(l, s) BY <2>1, <2>6, <3>2 DEF Comes
      <4> QED BY <1>1, <2>4, <2>6, <3>2, <4>1 DEF Comes
    <3> QED BY <3>1, <3>2
  <2> QED BY <2>5, <2>6
<1>4. OnTheWay' BY <1>1, <1>3 DEF OnTheWay
<1> QED BY <1>2, <1>4

\* While a page is put together, no program command uses its buffer.
LEMMA ChosenApart ==
  ASSUME IInv, Order, Chosen, wroom.fc # "PROG"
  PROVE  \A c \in Pending : c.buf # Buf /\ c.page > 0 /\ issued - c.page < NUM_BANKS
<1> SUFFICES ASSUME NEW c \in Pending
             PROVE  c.buf # Buf /\ c.page > 0 /\ issued - c.page < NUM_BANKS
  OBVIOUS
<1>1. /\ issued \in Nat /\ NWB \in Nat /\ NWB > NUM_BANKS /\ NUM_BANKS \in Nat
      /\ c.page \in Nat /\ c.page <= issued /\ (c.page > 0 => c.buf = BufOf(c.page))
      /\ Buf = IF op.call = "write" THEN BufOf(issued + 1) ELSE ISSD_WR_BUF
      /\ c.bank \in Banks
  BY WindowFacts, PendingPlace
<1>2. c.page > 0
  <2>1. ~(op.call = "copy" /\ op.pc = "done") /\ ~Stopped BY DEF Chosen, Stopped
  <2> QED BY <1>1, <2>1, NoCopyPending DEF Order
<1>3. issued - c.page < NUM_BANKS
  <2>1. InTurn(c)
    <3>1. ~Stopped BY DEF Chosen, Stopped
    <3> QED BY <1>2, <3>1 DEF Order, Turns
  <2>2. Since(c.bank) < NUM_BANKS /\ Since(c.bank) \in Int
    <3>1. Since(c.bank) \in 0 .. NUM_BANKS - 1
      <4>1. g_target_bank \in Banks BY DEF IInv, Types, FtlTypes
      <4> QED BY <1>1, <4>1, TurnFacts DEF Since
    <3> QED BY <1>1, <3>1
  <2>3. Started = 1 BY DEF Started
  <2>4. CASE issued - c.page + Started <= Since(c.bank)
    BY <1>1, <2>2, <2>3, <2>4
  <2> QED BY <2>1, <2>4 DEF InTurn
<1>4. c.buf # Buf
  <2>1. CASE op.call = "write"
    <3>1. PICK p : p = c.page OBVIOUS
    <3>2. p \in Int /\ issued + 1 \in Int /\ p < issued + 1 /\ issued + 1 < p + NWB
      BY <1>1, <1>3, <3>1
    <3>3. BufOf(p) # BufOf(issued + 1) BY <3>2, WriteBufferFacts DEF IInv
    <3> QED BY <1>1, <1>2, <2>1, <3>1, <3>3
  <2>2. CASE op.call # "write"
    <3>1. c.page \in Int BY <1>1
    <3>2. BufOf(c.page) # ISSD_WR_BUF BY <3>1, WriteBufferFacts DEF IInv
    <3> QED BY <1>1, <1>2, <2>2, <3>2
  <2> QED BY <2>1, <2>2
<1> QED BY <1>2, <1>3, <1>4

\* The buffer of the page that the host sends next is nobody's: not that of a
\* command that has its data, nor that of the page that is put together.
LEMMA SendApart ==
  ASSUME IInv, Order, HostSends
  PROVE  /\ \A c \in Pending : c.page # received + 1 => c.buf # BufOf(received + 1)
         /\ Chosen /\ wroom.fc # "PROG" =>
              Buf # BufOf(received + 1) \/ (op.call = "write" /\ received = issued)
<1>1. /\ received \in Nat /\ issued \in Nat /\ NWB \in Nat \ {0} /\ NWB > NUM_BANKS
      /\ NUM_BANKS \in Nat
      /\ \A c \in Pending : /\ c.page \in Nat /\ c.page <= issued
                            /\ c.page > 0 => c.buf = BufOf(c.page) /\ received < c.page + NWB
                            /\ c.page = 0 => c.buf = ISSD_WR_BUF
      /\ Buf = IF op.call = "write" THEN BufOf(issued + 1) ELSE ISSD_WR_BUF
  BY WindowFacts
<1>2. received >= NWB => ~InUse(received + 1 - NWB) BY SendCells
<1>3. BufOf(received + 1) # ISSD_WR_BUF
  <2>1. received + 1 \in Int BY <1>1
  <2> QED BY <2>1, WriteBufferFacts DEF IInv
<1>4. ASSUME NEW c \in Pending, c.page # received + 1 PROVE c.buf # BufOf(received + 1)
  <2>1. CASE c.page = 0 BY <1>1, <1>3, <2>1
  <2>2. CASE c.page > 0 /\ c.page <= received
    <3>1. c.page # received + 1 - NWB
      <4> SUFFICES ASSUME c.page = received + 1 - NWB PROVE FALSE OBVIOUS
      <4>1. ~InUse(c.page) BY <1>1, <1>2, <2>2
      <4> QED BY <4>1 DEF InUse, Pending
    <3>2. PICK p : p = c.page OBVIOUS
    <3>3. p \in Int /\ received + 1 \in Int /\ p < received + 1 /\ received + 1 < p + NWB
      BY <1>1, <2>2, <3>1, <3>2
    <3>4. BufOf(p) # BufOf(received + 1) BY <3>3, WriteBufferFacts DEF IInv
    <3> QED BY <1>1, <2>2, <3>2, <3>4
  <2>3. CASE c.page > received
    <3>1. received + 1 \in received + 1 .. issued BY <1>1, <2>3
    <3>2. PICK d \in Pending : d.page = received + 1 BY <3>1 DEF Order, HostData
    <3>3. issued - d.page <= NUM_BANKS BY <1>1, <3>2 DEF Order, Turns
    <3>4. PICK p : p = c.page OBVIOUS
    <3>5. p \in Int /\ received + 1 \in Int /\ received + 1 < p /\ p < received + 1 + NWB
      BY <1>1, <1>4, <2>3, <3>2, <3>3, <3>4
    <3>6. BufOf(received + 1) # BufOf(p) BY <3>5, WriteBufferFacts DEF IInv
    <3> QED BY <1>1, <2>3, <3>4, <3>6
  <2> QED BY <1>1, <2>1, <2>2, <2>3
<1>5. ASSUME Chosen, wroom.fc # "PROG", op.call = "write", received # issued
      PROVE  Buf # BufOf(received + 1)
  <2>1. Buf = BufOf(issued + 1) /\ issued + 1 \in Int /\ received + 1 \in Int BY <1>1, <1>5
  <2>2. CASE received > issued
    <3>1. received + 1 < (issued + 1) + NWB
      <4> SUFFICES ASSUME received + 1 >= issued + 1 + NWB PROVE FALSE BY <1>1
      <4>1. ~InUse(received + 1 - NWB) BY <1>1, <1>2
      <4>2. ~(received + 1 - NWB > issued) BY <4>1 DEF InUse
      <4> QED BY <1>1, <4>2
    <3>2. BufOf(issued + 1) # BufOf(received + 1)
      BY <1>1, <2>1, <2>2, <3>1, WriteBufferFacts DEF IInv
    <3> QED BY <2>1, <3>2
  <2>3. CASE received < issued
    <3>1. received + 1 \in received + 1 .. issued BY <1>1, <2>3
    <3>2. PICK d \in Pending : d.page = received + 1 BY <3>1 DEF Order, HostData
    <3>3. issued - d.page < NUM_BANKS BY <1>5, <3>2, ChosenApart
    <3>4. received + 1 < issued + 1 /\ issued + 1 < (received + 1) + NWB BY <1>1, <2>3, <3>2, <3>3
    <3>5. BufOf(received + 1) # BufOf(issued + 1) BY <2>1, <3>4, WriteBufferFacts DEF IInv
    <3> QED BY <2>1, <3>5
  <2> QED BY <1>1, <1>5, <2>2, <2>3
<1>6. op.call # "write" => Buf # BufOf(received + 1) BY <1>1, <1>3
<1> QED BY <1>4, <1>5, <1>6

\* The host's next page: it completes the buffer of a command that waits for it.
LEMMA HostSendsWay ==
  ASSUME Base, StoredLatest, OnTheWay, HostSends
  PROVE  StoredLatest' /\ OnTheWay'
<1>0. IInv /\ Order BY DEF Base
<1>1. PICK w : w = wrPages[1] OBVIOUS
<1>2. /\ \A buf \in Buffers, t \in Sectors :
           dram'[buf][t] = IF buf = BufOf(received + 1) /\ t \in w.col .. w.col + w.cnt - 1
                           THEN <<w.id, w.lpage * SPP + t>> ELSE dram[buf][t]
      /\ received' = received + 1 /\ received \in Nat /\ Len(wrPages) \in Nat \ {0}
      /\ \A i \in 1 .. Len(wrPages) - 1 : wrPages'[i] = wrPages[i + 1]
      /\ Pending' = Pending /\ Readers' = Readers
      /\ UNCHANGED <<wroom, bsp, flash, page_map, latest>>
  BY <1>0, <1>1, SendCells DEF ftlVars
<1>3. /\ \A c, l : At(c, l)' <=> At(c, l)
      /\ \A l, s : Val(l, s)' = Val(l, s)
      /\ \A buf, s : Reading(buf, s)' <=> Reading(buf, s)
  BY <1>2 DEF At, Val, Reading
<1>4. StoredLatest'
  <2>1. \A l \in LPages, s \in Sectors : Stored(l, s)' <=> Stored(l, s) BY <1>2, <1>3 DEF Stored
  <2> QED BY <2>1, StoredMeans
<1>5. ASSUME NEW c \in Pending, NEW l \in LPages, NEW s \in Sectors, At(c, l), Val(l, s) \in Written
      PROVE  Comes(c, l, s)'
  <2>1. Comes(c, l, s) BY <1>5 DEF OnTheWay
  <2>2. c.page \in Nat /\ c.page <= issued /\ issued <= received + Len(wrPages) /\ issued \in Nat
    BY <1>0, WindowFacts
  <2>3. c.buf \in Buffers BY <1>0, PendingPlace
  <2>4. PICK v : v = wrPages[c.page - received] OBVIOUS
  <2>5. CASE c.page = received + 1
    <3>1. ~(Arrives(c.page, s)') BY <1>2, <2>5 DEF Arrives
    <3>2. c.page - received = 1 /\ c.page > received BY <1>2, <2>5
    <3>3. v = w /\ (Arrives(c.page, s) <=> s \in w.col .. w.col + w.cnt - 1)
      BY <1>1, <2>4, <3>2 DEF Arrives
    <3>4. CASE Arrives(c.page, s)
      <4>1. ~Reading(c.buf, s) /\ Val(l, s) = <<w.id, l * SPP + s>> /\ w.lpage = l
        BY <2>1, <2>4, <3>3, <3>4 DEF Comes
      <4>2. c.buf = BufOf(received + 1)
        <5>1. c.page > 0 BY <1>2, <2>5
        <5> QED BY <1>0, <2>5, <5>1, WindowFacts
      <4>3. dram'[c.buf][s] = <<w.id, w.lpage * SPP + s>> BY <1>2, <2>3, <3>3, <3>4, <4>2
      <4>4. dram'[c.buf][s] = Val(l, s) BY <4>1, <4>3
      <4> QED BY <1>3, <3>1, <4>1, <4>4 DEF Comes
    <3>5. CASE ~Arrives(c.page, s)
      <4>1. dram'[c.buf][s] = dram[c.buf][s] BY <1>2, <2>3, <3>3, <3>5
      <4> QED BY <1>2, <1>3, <2>1, <3>1, <3>5, <4>1 DEF Comes
    <3> QED BY <3>4, <3>5
  <2>6. CASE c.page # received + 1
    <3>1. c.buf # BufOf(received + 1) BY <1>0, <2>6, SendApart
    <3>2. dram'[c.buf][s] = dram[c.buf][s] BY <1>2, <2>3, <3>1
    <3>3. c.page > received' <=> c.page > received BY <1>2, <2>2, <2>6
    <3>4. c.page > received' => wrPages'[c.page - received'] = v
      <4> SUFFICES ASSUME c.page > received' PROVE wrPages'[c.page - received'] = v OBVIOUS
      <4>1. c.page - received' \in 1 .. Len(wrPages) - 1 /\ (c.page - received') + 1 = c.page - received
        BY <1>2, <2>2
      <4> QED BY <1>2, <2>4, <4>1
    <3>5. Arrives(c.page, s)' <=> Arrives(c.page, s) BY <2>4, <3>3, <3>4 DEF Arrives
    <3>6. CASE Arrives(c.page, s)
      <4>1. ~Reading(c.buf, s) /\ Val(l, s) = <<v.id, l * SPP + s>> /\ v.lpage = l
        BY <2>1, <2>4, <3>6 DEF Comes
      <4>2. c.page > received' BY <3>3, <3>6 DEF Arrives
      <4> QED BY <1>3, <3>4, <3>5, <3>6, <4>1, <4>2 DEF Comes
    <3>7. CASE ~Arrives(c.page, s) BY <1>2, <1>3, <2>1, <3>2, <3>5, <3>7 DEF Comes
    <3> QED BY <3>6, <3>7
  <2> QED BY <2>5, <2>6
<1>6. OnTheWay' BY <1>2, <1>3, <1>5 DEF OnTheWay
<1> QED BY <1>4, <1>6

\* The computing buffers that a copy uses.
LEMMA CopyBuffers ==
  ASSUME IInv, op.call = "copy"
  PROVE  /\ op.pc \in {"read", "finish"} =>
              /\ op.page \in Nat /\ op.page <= NUM_LPAGES /\ NUM_LPAGES \in Nat
              /\ \A p \in 0 .. op.page - 1 : p \in 0 .. NUM_LPAGES
         /\ op.pc \notin {"read", "finish"} =>
              \A k \in 0 .. op.at.remain - 1 :
                (op.src + k) \div SPP \in 0 .. NUM_LPAGES /\ (op.src + k) % SPP \in Sectors
<1>0. /\ SPP \in Nat \ {0} /\ NUM_LPAGES \in Nat /\ Sectors = 0 .. SPP - 1 /\ CallTypes
  BY GeometryFacts DEF IInv, Types
<1>1. ASSUME op.pc \in {"read", "finish"}
      PROVE  op.page \in Nat /\ op.page <= NUM_LPAGES
  <2>1. op.page \in Nat /\ op.at \in Places /\ Inside(op.at) /\ op.page <= op.at.lpage
    BY <1>0, <1>1, CallFacts DEF CopyReads, CopyReading
  <2>2. PICK l, x : l = op.at.lpage /\ x = op.at.lpage * SPP OBVIOUS
  <2>3. l \in Nat /\ op.at.off \in Nat /\ op.at.remain \in Nat /\ x \in Nat
    BY <1>0, <2>1, <2>2, Products DEF Places
  <2>4. PICK z : z = NUM_LPAGES * SPP OBVIOUS
  <2>5. z \in Nat BY <1>0, <2>4, Products
  <2>6. x <= z
    <3>1. (x + op.at.off) + op.at.remain <= z BY <2>1, <2>2, <2>4 DEF Inside, First
    <3> QED BY <2>3, <2>5, <3>1
  <2>7. l <= NUM_LPAGES
    <3> SUFFICES ASSUME NUM_LPAGES < l PROVE FALSE BY <1>0, <2>3
    <3>1. z + SPP <= x BY <1>0, <2>2, <2>3, <2>4, Products
    <3> QED BY <1>0, <2>3, <2>5, <2>6, <3>1
  <2> QED BY <1>0, <2>1, <2>2, <2>3, <2>7
<1>2. ASSUME op.pc \notin {"read", "finish"}, NEW k \in 0 .. op.at.remain - 1
      PROVE  (op.src + k) \div SPP \in 0 .. NUM_LPAGES /\ (op.src + k) % SPP \in Sectors
  <2>1. op.src \in Nat /\ op.at.remain \in Nat /\ op.src + op.at.remain < (NUM_LPAGES + 1) * SPP
    <3>1. op \in CopyWrites /\ CopyWriting BY <1>0, <1>2, CallFacts
    <3> QED BY <3>1 DEF CopyWrites, CopyWriting, Places, SPP
  <2>2. PICK x, z : x = op.src + k /\ z = (NUM_LPAGES + 1) * SPP OBVIOUS
  <2>3. z \in Nat BY <1>0, <2>2, Products
  <2>4. x \in Nat /\ x < z BY <2>1, <2>2, <2>3
  <2>5. NUM_LPAGES + 1 \in Nat BY <1>0
  <2>6. x \div SPP \in Nat /\ x % SPP \in 0 .. SPP - 1 /\ x \div SPP < NUM_LPAGES + 1
    BY <1>0, <2>2, <2>4, <2>5, Quotient, Zenon
  <2>7. x \div SPP \in 0 .. NUM_LPAGES BY <1>0, <2>6
  <2> QED BY <1>0, <2>2, <2>6, <2>7
<1> QED BY <1>0, <1>1, <1>2

\* A step that leaves the call and what it uses of the buffers alone.
LEMMA CallDataSteady ==
  ASSUME IInv, CallData, UNCHANGED <<op, page_map, latest, g_ftl_write_buf_id>>,
         HolesBegun => \A s \in Sectors : HoleRead(s) => dram'[Buf][s] = dram[Buf][s],
         \A s \in Sectors : dram'[ISSD_WR_BUF][s] = dram[ISSD_WR_BUF][s],
         \A p \in 0 .. NUM_LPAGES, s \in Sectors : dram'[COMP(p)][s] = dram[COMP(p)][s],
         Readers' = Readers
  PROVE  CallData'
<1>1. /\ \A l, s : Val(l, s)' = Val(l, s)
      /\ \A buf, s : Reading(buf, s)' <=> Reading(buf, s)
      /\ \A s : HoleRead(s)' <=> HoleRead(s)
      /\ (HolesBegun' <=> HolesBegun) /\ (Chosen' <=> Chosen)
      /\ Buf' = Buf /\ Left' = Left
  BY DEF Val, Reading, HoleRead, HolesBegun, Chosen, ReadOld, Old, Left, Right, Buf
<1>2. HolesFilled'
  <2>1. ASSUME HolesBegun, NEW s \in Sectors, HoleRead(s), Val(op.at.lpage, s) \in Written, ~Reading(Buf, s)
        PROVE  dram'[Buf][s] = Val(op.at.lpage, s)
    BY <2>1 DEF CallData, HolesFilled
  <2>2. \A s : Reading(Buf, s)' <=> Reading(Buf, s) BY <1>1 DEF Reading
  <2>3. \A s : Val(op.at.lpage, s)' = Val(op.at.lpage, s) BY DEF Val
  <2> QED BY <1>1, <2>1, <2>2, <2>3 DEF HolesFilled
<1>3. CopiedIn'
  <2>1. ASSUME Chosen, op.call = "copy"
        PROVE  \A s \in Left .. Left + Now(op.at) - 1 : s \in Sectors
    <3>1. op.at \in Places /\ op.at.remain > 0 /\ Inside(op.at)
      BY <2>1, CallFacts DEF Chosen, Types, IInv
    <3>2. Left \in Nat /\ Now(op.at) \in Nat /\ Left + Now(op.at) <= SPP BY <3>1, ColumnFacts
    <3> QED BY <3>2, GeometryFacts
  <2> QED BY <1>1, <2>1 DEF CallData, CopiedIn
<1>4. CopyRead'
  <2>1. \A l, s : Val(l, s)' = Val(l, s) BY DEF Val
  <2>2. \A p : CopyPage(p)' = CopyPage(p) BY DEF CopyPage
  <2>3. \A p, s : Val(CopyPage(p), s)' = Val(CopyPage(p), s) BY <2>2 DEF Val
  <2>4. \A p, s : Reading(COMP(p), s)' <=> Reading(COMP(p), s) BY <1>1 DEF COMP
  <2>5. op.call = "copy" /\ op.pc \in {"read", "finish"} =>
          \A p \in 0 .. op.page - 1, s \in Sectors : dram'[COMP(p)][s] = dram[COMP(p)][s]
    BY CopyBuffers
  <2> QED BY <2>2, <2>3, <2>4, <2>5 DEF CallData, CopyRead
<1>5. CopyComputed'
  <2>1. op.call = "copy" /\ op.pc \notin {"read", "finish"} =>
          \A k \in 0 .. op.at.remain - 1 : Computed(op.src + k)' = Computed(op.src + k)
    BY CopyBuffers DEF Computed, SPP
  <2>2. First(op.at)' = First(op.at) BY DEF First
  <2> QED BY <2>1, <2>2 DEF CallData, CopyComputed
<1> QED BY <1>2, <1>3, <1>4, <1>5 DEF CallData

\* The host's page spares the page that is put together, and the computing buffer.
LEMMA HostSendsCall ==
  ASSUME Base, CallData, HostSends
  PROVE  CallData'
<1>0. IInv /\ Order /\ Types BY DEF Base, IInv
<1>1. PICK w : w = wrPages[1] OBVIOUS
<1>2. /\ \A buf \in Buffers, t \in Sectors :
           dram'[buf][t] = IF buf = BufOf(received + 1) /\ t \in w.col .. w.col + w.cnt - 1
                           THEN <<w.id, w.lpage * SPP + t>> ELSE dram[buf][t]
      /\ received \in Nat /\ Readers' = Readers /\ Len(wrPages) \in Nat \ {0}
      /\ UNCHANGED <<wroom, op, page_map, latest, g_ftl_write_buf_id>>
  BY <1>0, <1>1, SendCells DEF ftlVars
<1>4. \A buf \in Buffers, s \in Sectors : buf # BufOf(received + 1) => dram'[buf][s] = dram[buf][s]
  BY <1>2
<1>5. BufOf(received + 1) \in WriteBuffers /\ BufOf(received + 1) # ISSD_WR_BUF
  <2>1. received + 1 \in Int BY <1>2
  <2> QED BY <1>0, <2>1, WriteBufferFacts
<1>6. \A p \in 0 .. NUM_LPAGES, s \in Sectors : dram'[COMP(p)][s] = dram[COMP(p)][s]
  BY <1>0, <1>4, <1>5, WriteBufferFacts, BufferFacts
<1>7. \A s \in Sectors : dram'[ISSD_WR_BUF][s] = dram[ISSD_WR_BUF][s] BY <1>4, <1>5, BufferFacts
<1>8. ASSUME HolesBegun, NEW s \in Sectors, HoleRead(s) PROVE dram'[Buf][s] = dram[Buf][s]
  <2>1. Buf \in Buffers
    <3>1. Buf \in WriteBuffers BY <1>0, WriteBufferFacts
    <3> QED BY <3>1, BufferFacts DEF WriteBuffers, NWB
  <2>2. Chosen /\ wroom.fc # "PROG" BY <1>0, <1>8 DEF HolesBegun, Order, ProgCommands
  <2>3. CASE Buf # BufOf(received + 1) BY <1>4, <2>1, <2>3
  <2>4. CASE op.call = "write" /\ received = issued
    <3>1. w = Remaining[1]
      <4>1. received + Len(wrPages) = issued + Len(Remaining) /\ Len(Remaining) \in Nat \ {0}
        BY <1>0, <2>4, RemainingFacts DEF Order, HostData
      <4>2. PICK q : q = issued + 1 OBVIOUS
      <4>3. q \in issued + 1 .. issued + Len(Remaining) /\ q > received
            /\ q - received = 1 /\ q - issued = 1
        BY <1>2, <2>4, <4>1, <4>2
      <4>4. wrPages[q - received] = Remaining[q - issued]
        BY <1>0, <2>4, <4>3 DEF Order, HostData
      <4> QED BY <1>1, <4>3, <4>4
    <3>2. w.col = Left /\ w.cnt = Now(op.at) BY <1>0, <2>4, <3>1, RemainingFacts
    <3>3. s \notin Left .. Left + Now(op.at) - 1
      BY <1>0, <1>8, <2>4, RemainingFacts, ColumnFacts
    <3> QED BY <1>2, <2>1, <3>2, <3>3
  <2> QED BY <1>0, <2>2, <2>3, <2>4, SendApart
<1> QED BY <1>0, <1>2, <1>6, <1>7, <1>8, CallDataSteady

\* The buffer of a program command is read into only by the command that its bank has
\* still to finish.
LEMMA PendingReading ==
  ASSUME Base, NEW c \in Pending, NEW r \in Readers, r.buf = c.buf
  PROVE  wroom.fc = "PROG" /\ r.buf = wroom.buf /\ r = bsp[wroom.bank]
<1>0. IInv /\ Order /\ Types /\ HoleReads BY DEF Base, IInv, Readings
<1>1. c.buf \in WriteBuffers
  <2>1. c.page \in Nat /\ (c.page > 0 => c.buf = BufOf(c.page)) /\ (c.page = 0 => c.buf = ISSD_WR_BUF)
    BY <1>0, WindowFacts
  <2>2. BufOf(c.page) \in WriteBuffers /\ ISSD_WR_BUF \in WriteBuffers BY <1>0, <2>1, WriteBufferFacts
  <2> QED BY <2>1, <2>2
<1>2. ~(HolesBegun /\ r.buf = Buf)
  <2> SUFFICES ASSUME HolesBegun PROVE c.buf # Buf OBVIOUS
  <2>1. Chosen /\ wroom.fc # "PROG" BY <1>0 DEF HolesBegun, Order, ProgCommands
  <2> QED BY <1>0, <2>1, ChosenApart
<1> QED BY <1>0, <1>1, <1>2 DEF HoleReads

\* The bank takes the command: everything stays in its place.
LEMMA BankAcceptsContents ==
  ASSUME Base, Contents, BankAccepts
  PROVE  Contents'
<1>0. IInv /\ FlashTypes /\ StoredLatest /\ OnTheWay /\ CallData BY DEF Base, Contents, IInv, Types
<1>1. /\ wroom \in Commands /\ bsp[wroom.bank] = NoCmd
      /\ Pending' = Pending /\ Readers' = Readers
      /\ UNCHANGED <<flash, dram, op, page_map, latest, g_ftl_write_buf_id, received, wrPages>>
  BY <1>0, AcceptMoves DEF BankAccepts, ftlVars, sataVars
<1>2. CallData' BY <1>0, <1>1, CallDataSteady
<1>3. /\ \A c, l : At(c, l)' <=> At(c, l)
      /\ \A l, s : Val(l, s)' = Val(l, s)
      /\ \A buf, s : Reading(buf, s)' <=> Reading(buf, s)
      /\ \A q, s : Arrives(q, s)' <=> Arrives(q, s)
  BY <1>1 DEF At, Val, Reading, Arrives
<1>4. StoredLatest'
  <2>1. \A l \in LPages, s \in Sectors : Stored(l, s)' <=> Stored(l, s) BY <1>1, <1>3 DEF Stored
  <2> QED BY <1>0, <2>1, StoredMeans
<1>5. ASSUME NEW c \in Pending, NEW l \in LPages, NEW s \in Sectors, At(c, l), Val(l, s) \in Written
      PROVE  Comes(c, l, s)'
  <2>1. Comes(c, l, s) BY <1>0, <1>5 DEF OnTheWay
  <2>2. ~Reading(c.buf, s)
    <3> SUFFICES ASSUME NEW r \in Readers, r.buf = c.buf PROVE FALSE BY DEF Reading
    <3>1. r = NoCmd BY <1>1, PendingReading
    <3> QED BY <3>1, CommandFacts DEF Readers
  <2> QED BY <1>1, <1>3, <2>1, <2>2 DEF Comes
<1>6. OnTheWay' BY <1>1, <1>3, <1>5 DEF OnTheWay
<1> QED BY <1>2, <1>4, <1>6 DEF Contents

\* What a bank that finishes does, in the terms of the data.
LEMMA CompletesFacts ==
  ASSUME Base, NEW b \in Banks, BankCompletes(b)
  PROVE  /\ \A buf \in Buffers, s \in Sectors :
              dram'[buf][s] = IF bsp[b] \in Readers /\ buf = bsp[b].buf /\ s \in Span(bsp[b])
                              THEN flash[b][bsp[b].row][s] ELSE dram[buf][s]
         /\ \A x \in Banks, row \in Rows, s \in Sectors :
              flash'[x][row][s] = IF /\ bsp[b] \in Pending /\ x = b /\ row = bsp[b].row
                                     /\ s \in Span(bsp[b])
                                  THEN dram[bsp[b].buf][s] ELSE flash[x][row][s]
         /\ wroom' = wroom /\ bsp[b] \in Commands /\ bsp[b].bank = b
         /\ \A x \in Banks : x # b => bsp'[x] = bsp[x]
         /\ Pending' \subseteq Pending /\ Readers' \subseteq Readers
         /\ (wroom.fc = "PROG" => bsp[b] \notin Readers')
         /\ (bsp[b] \in Pending => bsp[b].page <= received)
         /\ \A c \in Pending : c # bsp[b] => c \in Pending'
         /\ \A c \in Readers : c # bsp[b] => c \in Readers'
         /\ UNCHANGED <<op, page_map, latest, g_ftl_write_buf_id, received, wrPages>>
         /\ \A c, l : At(c, l)' <=> At(c, l)
         /\ \A l, s : Val(l, s)' = Val(l, s)
         /\ \A q, s : Arrives(q, s)' <=> Arrives(q, s)
<1>0. FlashTypes /\ IInv BY DEF Base, IInv, Types
<1>1. Complete(b) /\ (bsp[b].fc = "PROG" => bsp[b].page <= received)
      /\ UNCHANGED <<op, page_map, latest, g_ftl_write_buf_id, received, wrPages>>
  BY DEF BankCompletes, ftlVars
<1>2. /\ FlashTypes' /\ wroom' = wroom /\ bsp[b] \in Commands /\ bsp[b].bank = b
      /\ bsp'[b] = NoCmd /\ \A x \in Banks : x # b => bsp'[x] = bsp[x]
      /\ Pending' \subseteq Pending /\ Readers' \subseteq Readers
      /\ \A c \in Pending : c # bsp[b] => c \in Pending'
      /\ \A c \in Readers : c # bsp[b] => c \in Readers'
  BY <1>0, <1>1, CompleteMoves
<1>3. wroom.fc = "PROG" => bsp[b] \notin Readers'
  <2> SUFFICES ASSUME wroom.fc = "PROG", bsp[b] \in Readers' PROVE FALSE OBVIOUS
  <2>1. bsp[b] \in Readers BY <1>2
  <2>2. bsp[b] \in UnderWay' BY DEF Readers
  <2>3. bsp[b] = wroom' \/ \E x \in Banks : bsp[b] = bsp'[x] BY <2>2 DEF UnderWay
  <2>4. bsp[b] # NoCmd BY <1>2, CommandFacts
  <2>5. CASE bsp[b] = wroom'
    <3>1. bsp[b].fc = "READ" BY <2>1 DEF Readers
    <3> QED BY <1>2, <2>5, <3>1
  <2>6. CASE \E x \in Banks : bsp[b] = bsp'[x]
    <3>1. PICK x \in Banks : bsp[b] = bsp'[x] BY <2>6
    <3>2. x # b BY <1>2, <2>4, <3>1
    <3>3. bsp[x] = bsp[b] BY <1>2, <3>1, <3>2
    <3>4. bsp[x].bank = x BY <1>0, <2>4, <3>3 DEF FlashTypes
    <3> QED BY <1>2, <3>2, <3>3, <3>4
  <2> QED BY <2>3, <2>5, <2>6
<1>4. /\ \A c, l : At(c, l)' <=> At(c, l)
      /\ \A l, s : Val(l, s)' = Val(l, s)
      /\ \A q, s : Arrives(q, s)' <=> Arrives(q, s)
  BY <1>1 DEF At, Val, Arrives
<1>5. bsp[b] \in Pending => bsp[b].page <= received BY <1>1 DEF Pending
<1>6. /\ \A buf \in Buffers, s \in Sectors :
           dram'[buf][s] = IF bsp[b] \in Readers /\ buf = bsp[b].buf /\ s \in Span(bsp[b])
                           THEN flash[b][bsp[b].row][s] ELSE dram[buf][s]
      /\ \A x \in Banks, row \in Rows, s \in Sectors :
           flash'[x][row][s] = IF /\ bsp[b] \in Pending /\ x = b /\ row = bsp[b].row
                                  /\ s \in Span(bsp[b])
                               THEN dram[bsp[b].buf][s] ELSE flash[x][row][s]
  BY <1>0, <1>1, CompleteCells
<1> QED BY <1>1, <1>2, <1>3, <1>4, <1>5, <1>6

\* A bank that finishes: what it programs is what was last written, and what it reads
\* completes the buffer of the command that waits for it.
LEMMA BankCompletesWay ==
  ASSUME Base, Contents, NEW b \in Banks, BankCompletes(b)
  PROVE  StoredLatest' /\ OnTheWay'
<1>0. IInv /\ FlashTypes /\ StoredLatest /\ OnTheWay /\ PendingApart BY DEF Base, Contents, IInv, Types
<1>1. PICK k : k = bsp[b] OBVIOUS
<1>2. /\ \A buf \in Buffers, s \in Sectors :
           dram'[buf][s] = IF k \in Readers /\ buf = k.buf /\ s \in Span(k)
                           THEN flash[b][k.row][s] ELSE dram[buf][s]
      /\ \A x \in Banks, row \in Rows, s \in Sectors :
           flash'[x][row][s] = IF k \in Pending /\ x = b /\ row = k.row /\ s \in Span(k)
                               THEN dram[k.buf][s] ELSE flash[x][row][s]
      /\ wroom' = wroom /\ k \in Commands /\ k.bank = b
      /\ \A x \in Banks : x # b => bsp'[x] = bsp[x]
      /\ Pending' \subseteq Pending /\ Readers' \subseteq Readers
      /\ (wroom.fc = "PROG" => k \notin Readers')
      /\ (k \in Pending => k.page <= received)
      /\ \A c \in Pending : c # k => c \in Pending'
      /\ \A c \in Readers : c # k => c \in Readers'
      /\ UNCHANGED <<op, page_map, latest, g_ftl_write_buf_id, received, wrPages>>
      /\ \A c, l : At(c, l)' <=> At(c, l)
      /\ \A l, s : Val(l, s)' = Val(l, s)
      /\ \A q, s : Arrives(q, s)' <=> Arrives(q, s)
  BY <1>1, CompletesFacts
<1>3. /\ \A c \in Pending : /\ c.bank \in Banks /\ c.row \in Rows /\ c.buf \in Buffers /\ c.page \in Nat
                            /\ c.fc = "PROG" /\ (c = wroom \/ c = bsp[c.bank])
                            /\ \A s \in Sectors : s \in Span(c)
      /\ \A r \in Readers : r.fc = "READ" /\ r.bank \in Banks
      /\ received \in Nat /\ k.row \in Rows
  <2>1. Order BY DEF Base
  <2> QED BY <1>0, <1>2, <2>1, PendingPlace, WindowFacts, CommandFacts
<1>4. ASSUME k \in Pending, NEW l \in LPages, NEW s \in Sectors, At(k, l), Val(l, s) \in Written
      PROVE  dram[k.buf][s] = Val(l, s)
  <2>1. Comes(k, l, s) BY <1>0, <1>4 DEF OnTheWay
  <2>2. ~Arrives(k.page, s) BY <1>2, <1>3, <1>4 DEF Arrives
  <2>3. k # wroom
    <3> SUFFICES ASSUME k = wroom PROVE FALSE OBVIOUS
    <3>1. wroom.fc = "PROG" /\ bsp[b].fc = "PROG" /\ wroom.bank = b /\ wroom.row = bsp[b].row
      BY <1>1, <1>2, <1>3, <1>4
    <3> QED BY <1>0, <3>1 DEF PendingApart
  <2> QED BY <2>1, <2>2, <2>3 DEF Comes
<1>5. StoredLatest'
  <2> SUFFICES ASSUME NEW l \in LPages, NEW s \in Sectors, page_map[l] # NULL,
                      \A c \in Pending' : ~At(c, l), Val(l, s) \in Written
               PROVE  flash'[BankOf(page_map[l])][RowOf(page_map[l])][s] = Val(l, s)
    <3>1. \A l \in LPages, s \in Sectors : Stored(l, s)' BY <1>2 DEF Stored
    <3> QED BY <3>1, StoredMeans
  <2>1. BankOf(page_map[l]) \in Banks /\ RowOf(page_map[l]) \in Rows
    BY <1>0, PhysFacts DEF IInv, Types, FtlTypes
  <2>2. CASE \A c \in Pending : ~At(c, l)
    <3>1. flash[BankOf(page_map[l])][RowOf(page_map[l])][s] = Val(l, s)
      BY <1>0, <2>2, StoredMeans DEF Stored
    <3>2. ~(k \in Pending /\ BankOf(page_map[l]) = b /\ RowOf(page_map[l]) = k.row)
      BY <1>2, <2>2 DEF At
    <3> QED BY <1>2, <2>1, <3>1, <3>2
  <2>3. CASE k \in Pending /\ At(k, l)
    <3>1. dram[k.buf][s] = Val(l, s) BY <1>4, <2>3
    <3>2. BankOf(page_map[l]) = b /\ RowOf(page_map[l]) = k.row /\ s \in Span(k)
      BY <1>2, <1>3, <2>3 DEF At
    <3> QED BY <1>2, <2>1, <2>3, <3>1, <3>2
  <2> QED BY <1>2, <2>2, <2>3
<1>6. ASSUME NEW c \in Pending', NEW l \in LPages, NEW s \in Sectors, At(c, l), Val(l, s) \in Written
      PROVE  Comes(c, l, s)'
  <2>1. c \in Pending /\ Comes(c, l, s) BY <1>0, <1>2, <1>6 DEF OnTheWay
  <2>2. c.bank \in Banks /\ c.buf \in Buffers BY <1>3, <2>1
  <2>3. Reading(c.buf, s)' => Reading(c.buf, s)
    <3>1. \A buf : Reading(buf, s)' => Reading(buf, s) BY <1>2 DEF Reading
    <3> QED BY <3>1
  <2>4. CASE Arrives(c.page, s) BY <1>2, <2>1, <2>3, <2>4 DEF Comes
  <2>5. CASE ~Arrives(c.page, s) /\ ~Reading(c.buf, s)
    <3>1. dram[c.buf][s] = Val(l, s) BY <2>1, <2>5 DEF Comes
    <3>2. ~(k \in Readers /\ c.buf = k.buf /\ s \in Span(k)) BY <2>5 DEF Reading
    <3>3. dram'[c.buf][s] = Val(l, s) BY <1>2, <2>2, <3>1, <3>2
    <3> QED BY <1>2, <2>3, <2>5, <3>3 DEF Comes
  <2>6. CASE ~Arrives(c.page, s) /\ Reading(c.buf, s)
    <3>1. c = wroom /\ flash[c.bank][bsp[c.bank].row][s] = Val(l, s) BY <2>1, <2>6 DEF Comes
    <3>2. PICK r \in Readers : r.buf = c.buf /\ s \in Span(r) BY <2>6 DEF Reading
    <3>3. wroom.fc = "PROG" BY <1>3, <2>1, <3>1
    <3>4. r = bsp[c.bank] BY <2>1, <3>1, <3>2, PendingReading
    <3>5. CASE c.bank = b
      <4>1. r = k /\ k.buf = c.buf /\ s \in Span(k) BY <1>1, <3>2, <3>4, <3>5
      <4>2. dram'[c.buf][s] = flash[b][k.row][s] BY <1>2, <2>2, <4>1
      <4>3. ~Reading(c.buf, s)'
        <5> SUFFICES ASSUME NEW x \in Readers', x.buf = c.buf PROVE FALSE
          <6>1. \A buf : Reading(buf, s)' => \E x \in Readers' : x.buf = buf BY DEF Reading
          <6> QED BY <6>1
        <5>1. x \in Readers BY <1>2
        <5>2. x = bsp[c.bank] BY <2>1, <3>1, <5>1, PendingReading
        <5> QED BY <1>1, <1>2, <3>3, <3>5, <5>2
      <4> QED BY <1>1, <1>2, <2>6, <3>1, <3>5, <4>2, <4>3 DEF Comes
    <3>6. CASE c.bank # b
      <4>1. r # k /\ bsp'[c.bank] = bsp[c.bank]
        <5>1. bsp[c.bank] # NoCmd BY <3>2, <3>4, <1>3, CommandFacts
        <5>2. bsp[c.bank].bank = c.bank BY <1>0, <2>2, <5>1 DEF FlashTypes
        <5> QED BY <1>2, <2>2, <3>4, <3>6, <5>2
      <4>2. r \in Readers' BY <1>2, <4>1
      <4>3. Reading(c.buf, s)'
        <5>1. \A buf : r.buf = buf => Reading(buf, s)' BY <3>2, <4>2 DEF Reading, Span
        <5> QED BY <3>2, <5>1
      <4>4. bsp[c.bank].row \in Rows
        <5>1. r \in Commands BY <1>0, UnderWayFacts
        <5> QED BY <3>4, <5>1, CommandFacts
      <4>5. flash'[c.bank][bsp[c.bank].row][s] = flash[c.bank][bsp[c.bank].row][s]
        BY <1>2, <2>2, <3>6, <4>4
      <4>6. c = wroom' /\ flash'[c.bank][bsp'[c.bank].row][s] = Val(l, s) BY <1>2, <3>1, <4>1, <4>5
      <4> QED BY <1>2, <2>6, <4>3, <4>6 DEF Comes
    <3> QED BY <3>5, <3>6
  <2> QED BY <2>4, <2>5, <2>6
<1>7. OnTheWay' BY <1>2, <1>6 DEF OnTheWay
<1> QED BY <1>5, <1>7

\* What a read command reads of a page that no program command is on its way to.
LEMMA ReadsStored ==
  ASSUME IInv, StoredLatest, NEW b \in Banks, bsp[b] \in Readers, wroom.fc # "PROG",
         NEW l \in LPages, At(bsp[b], l), NEW s \in Sectors, Val(l, s) \in Written
  PROVE  flash[b][bsp[b].row][s] = Val(l, s)
<1>1. bsp[b].bank = b /\ bsp[b].fc = "READ"
  <2>1. bsp[b].fc = "READ" BY DEF Readers
  <2>2. bsp[b] # NoCmd BY <2>1, CommandFacts
  <2> QED BY <2>1, <2>2 DEF IInv, Types, FlashTypes
<1>2. page_map[l] # NULL /\ BankOf(page_map[l]) = b /\ RowOf(page_map[l]) = bsp[b].row
  BY <1>1 DEF At
<1>3. \A c \in Pending : ~At(c, l)
  <2> SUFFICES ASSUME NEW c \in Pending, At(c, l) PROVE FALSE OBVIOUS
  <2>1. c.bank = b BY <1>2 DEF At
  <2>2. c.fc = "PROG" /\ (c = wroom \/ c = bsp[c.bank]) BY PendingPlace
  <2> QED BY <1>1, <2>1, <2>2
<1>4. Stored(l, s) BY StoredMeans
<1> QED BY <1>2, <1>3, <1>4 DEF Stored

\* A sector of an extent lies in a logical page.
LEMMA ExtentPage ==
  ASSUME IInv, op.call = "copy", op.pc \in {"read", "finish"}, NEW p \in 0 .. op.page - 1,
         NEW s \in Sectors, CopyPage(p) * SPP + s \in op.from .. op.from + op.n - 1
  PROVE  CopyPage(p) \in LPages
<1>0. SPP \in Nat \ {0} /\ NUM_LPAGES \in Nat /\ Sectors = 0 .. SPP - 1 BY GeometryFacts
<1>1. op.from \in LSectors /\ op.n \in Nat /\ op.from + op.n <= NUM_LPAGES * SPP /\ op.page \in Nat
  <2>1. op \in CopyReads /\ CopyReading BY CallFacts DEF IInv, Types
  <2> QED BY <2>1 DEF CopyReads, CopyReading
<1>2. op.from \in Nat BY <1>1 DEF LSectors
<1>3. PICK x : x = CopyPage(p) OBVIOUS
<1>4. x \in Nat
  <2>1. PICK f : f = op.from \div SPP OBVIOUS
  <2>2. f \in Nat BY <1>0, <1>2, <2>1, Quotient
  <2> QED BY <1>1, <1>3, <2>1, <2>2 DEF CopyPage
<1>5. PICK y, z : y = x * SPP /\ z = NUM_LPAGES * SPP OBVIOUS
<1>6. y \in Nat /\ z \in Nat BY <1>0, <1>4, <1>5, Products
<1>7. y < z
  <2>1. y + s \in op.from .. op.from + op.n - 1 BY <1>3, <1>5
  <2>2. op.from + op.n <= z BY <1>1, <1>5
  <2> QED BY <1>0, <1>1, <1>2, <1>6, <2>1, <2>2
<1>8. x < NUM_LPAGES BY <1>0, <1>4, <1>5, <1>7, Products
<1> QED BY <1>0, <1>3, <1>4, <1>8 DEF LPages

\* A bank that finishes gives the call the old data it asked for.
LEMMA BankCompletesCall ==
  ASSUME Base, Contents, NEW b \in Banks, BankCompletes(b)
  PROVE  CallData'
<1>0. IInv /\ Order /\ Readings /\ Types /\ StoredLatest /\ CallData BY DEF Base, Contents, IInv
<1>1. PICK k : k = bsp[b] OBVIOUS
<1>2. /\ \A buf \in Buffers, s \in Sectors :
           dram'[buf][s] = IF k \in Readers /\ buf = k.buf /\ s \in Span(k)
                           THEN flash[b][k.row][s] ELSE dram[buf][s]
      /\ Readers' \subseteq Readers /\ \A c \in Readers : c # k => c \in Readers'
      /\ UNCHANGED <<wroom, op, page_map, latest, g_ftl_write_buf_id>>
      /\ \A l, s : Val(l, s)' = Val(l, s)
  BY <1>1, CompletesFacts
<1>3. /\ \A s : HoleRead(s)' <=> HoleRead(s)
      /\ (HolesBegun' <=> HolesBegun) /\ (Chosen' <=> Chosen)
      /\ Buf' = Buf /\ Left' = Left
  BY <1>2 DEF HoleRead, HolesBegun, Chosen, ReadOld, Old, Left, Right, Buf
<1>4. ASSUME NEW buf \in Buffers, NEW s \in Sectors, NEW l \in LPages, Val(l, s) \in Written,
             \A r \in Readers : r.buf = buf => At(r, l), wroom.fc # "PROG",
             ~Reading(buf, s) => dram[buf][s] = Val(l, s),
             \A r \in Readers' : r.buf = buf => s \notin Span(r)
      PROVE  dram'[buf][s] = Val(l, s)
  <2>1. CASE ~Reading(buf, s)
    <3>1. ~(k \in Readers /\ buf = k.buf /\ s \in Span(k)) BY <2>1 DEF Reading
    <3> QED BY <1>2, <1>4, <2>1, <3>1
  <2>2. CASE Reading(buf, s)
    <3>1. PICK r \in Readers : r.buf = buf /\ s \in Span(r) BY <2>2 DEF Reading
    <3>2. r = k BY <1>2, <1>4, <3>1
    <3>3. dram'[buf][s] = flash[b][k.row][s] BY <1>2, <3>1, <3>2
    <3>4. bsp[b] \in Readers /\ At(bsp[b], l) BY <1>1, <1>4, <3>1, <3>2
    <3>5. flash[b][bsp[b].row][s] = Val(l, s) BY <1>0, <1>4, <3>4, ReadsStored
    <3> QED BY <1>1, <3>3, <3>5
  <2> QED BY <2>1, <2>2
<1>5. HolesFilled'
  <2> SUFFICES ASSUME HolesBegun, NEW s \in Sectors, HoleRead(s), Val(op.at.lpage, s) \in Written,
                      \A r \in Readers' : r.buf = Buf => s \notin Span(r)
               PROVE  dram'[Buf][s] = Val(op.at.lpage, s)
    <3>1. \A t : Reading(Buf, t)' <=> \E r \in Readers' : r.buf = Buf /\ t \in Span(r)
      BY <1>3 DEF Reading, Span
    <3>2. \A t : Val(op.at.lpage, t)' = Val(op.at.lpage, t) BY <1>2 DEF Val
    <3> QED BY <1>3, <3>1, <3>2 DEF HolesFilled
  <2>1. wroom.fc # "PROG" BY <1>0 DEF Order, ProgCommands
  <2>2. op.at.lpage \in LPages /\ Buf \in WriteBuffers /\ Buf \in Buffers
    <3>1. op.at.remain > 0 /\ op.call \in {"write", "copy"}
      BY <1>0, CallFacts DEF HolesBegun, Chosen, Types
    <3> QED BY <1>0, <3>1, PageFacts, WriteBufferFacts
  <2>3. \A r \in Readers : r.buf = Buf => At(r, op.at.lpage)
    BY <1>0, <2>1, <2>2 DEF Readings, HoleReads
  <2>4. ~Reading(Buf, s) => dram[Buf][s] = Val(op.at.lpage, s) BY <1>0 DEF CallData, HolesFilled
  <2> QED BY <1>4, <2>1, <2>2, <2>3, <2>4
<1>6. CopiedIn'
  <2> SUFFICES ASSUME Chosen, op.call = "copy", NEW s \in Left .. Left + Now(op.at) - 1,
                      op.old[(op.at.lpage * SPP + s) - op.to] \in Written
               PROVE  dram'[ISSD_WR_BUF][s] = dram[ISSD_WR_BUF][s]
    BY <1>0, <1>2, <1>3 DEF CallData, CopiedIn
  <2>1. op.at \in Places /\ op.at.remain > 0 /\ Inside(op.at) /\ op.pc # "done"
    BY <1>0, CallFacts DEF Chosen, Types
  <2>2. s \in Sectors
    <3>1. Left \in Nat /\ Now(op.at) \in Nat /\ Left + Now(op.at) <= SPP BY <2>1, ColumnFacts
    <3> QED BY <3>1, GeometryFacts
  <2>3. ~(k \in Readers /\ ISSD_WR_BUF = k.buf /\ s \in Span(k))
    <3> SUFFICES ASSUME k \in Readers, ISSD_WR_BUF = k.buf, s \in Span(k) PROVE FALSE OBVIOUS
    <3>1. k.buf \in WriteBuffers BY <1>0, WriteBufferFacts
    <3>2. CASE HoleRead(s) BY <2>1, <2>2, <3>2, ColumnFacts
    <3>3. CASE wroom.fc = "PROG" /\ k.buf = wroom.buf
      <4>1. wroom \in Pending BY <1>0, <3>3, PendingPlace
      <4>2. wroom.page # 0 BY <1>0, <2>1, <4>1, NoCopyPending DEF Order
      <4>3. wroom.page \in Nat /\ (wroom.page > 0 => wroom.buf = BufOf(wroom.page))
        BY <1>0, <4>1, WindowFacts
      <4>4. BufOf(wroom.page) # ISSD_WR_BUF BY <1>0, <4>3, WriteBufferFacts
      <4> QED BY <3>3, <4>2, <4>3, <4>4
    <3> QED BY <1>0, <3>1, <3>2, <3>3 DEF Readings, HoleReads
  <2> QED BY <1>2, <2>2, <2>3, BufferFacts
<1>7. CopyRead'
  <2> SUFFICES ASSUME op.call = "copy", op.pc \in {"read", "finish"},
                      NEW p \in 0 .. op.page - 1, NEW s \in Sectors,
                      CopyPage(p) * SPP + s \in op.from .. op.from + op.n - 1,
                      Val(CopyPage(p), s) \in Written,
                      \A r \in Readers' : r.buf = COMP(p) => s \notin Span(r)
               PROVE  dram'[COMP(p)][s] = Val(CopyPage(p), s)
    <3>1. \A p : CopyPage(p)' = CopyPage(p) BY <1>2 DEF CopyPage
    <3>2. \A p, s : Val(CopyPage(p), s)' = Val(CopyPage(p), s) BY <1>2, <3>1 DEF Val
    <3>3. \A p, s : Reading(COMP(p), s)' <=> \E r \in Readers' : r.buf = COMP(p) /\ s \in Span(r)
      BY DEF Reading, Span, COMP
    <3> QED BY <1>2, <3>1, <3>2, <3>3 DEF CopyRead
  <2>1. p \in 0 .. NUM_LPAGES /\ p < op.page /\ op.page > 0 BY <1>0, CopyBuffers
  <2>2. wroom.fc # "PROG" BY <1>0, <2>1 DEF Readings, CopyPlace
  <2>3. \A r \in Readers : r.buf = COMP(p) => At(r, CopyPage(p))
    BY <1>0, <2>1 DEF Readings, CopyReadings
  <2>4. CopyPage(p) \in LPages BY <1>0, ExtentPage
  <2>5. ~Reading(COMP(p), s) => dram[COMP(p)][s] = Val(CopyPage(p), s)
    BY <1>0 DEF CallData, CopyRead
  <2> QED BY <1>4, <2>1, <2>2, <2>3, <2>4, <2>5, BufferFacts
<1>8. CopyComputed'
  <2>1. ASSUME op.call = "copy", op.pc \notin {"read", "finish"},
               NEW p \in 0 .. NUM_LPAGES, NEW s \in Sectors
        PROVE  dram'[COMP(p)][s] = dram[COMP(p)][s]
    <3>1. \A r \in Readers : r.buf # COMP(p) BY <1>0, <2>1 DEF Readings, CopyReadings
    <3> QED BY <1>2, <3>1, BufferFacts
  <2>2. op.call = "copy" /\ op.pc \notin {"read", "finish"} =>
          \A i \in 0 .. op.at.remain - 1 : Computed(op.src + i)' = Computed(op.src + i)
    BY <1>0, <1>2, <2>1, CopyBuffers DEF Computed, SPP
  <2>3. First(op.at)' = First(op.at) BY <1>2 DEF First
  <2> QED BY <1>0, <1>2, <2>2, <2>3 DEF CallData, CopyComputed
<1> QED BY <1>5, <1>6, <1>7, <1>8 DEF CallData

\* A step of the firmware that issues no command.
LEMMA WaySame ==
  ASSUME IInv, StoredLatest, OnTheWay, UNCHANGED <<wroom, bsp, flash, page_map, latest, received>>,
         \A c \in Pending : c.page > received => wrPages'[c.page - received] = wrPages[c.page - received],
         \A c \in Pending, s \in Sectors : dram'[c.buf][s] = dram[c.buf][s]
  PROVE  StoredLatest' /\ OnTheWay'
<1>1. Pending' = Pending /\ Readers' = Readers BY DEF Pending, Readers, UnderWay
<1>2. \A buf, s : Reading(buf, s)' <=> Reading(buf, s) BY <1>1 DEF Reading
<1> QED BY <1>1, <1>2, WaySteady

\* A step that issues a read command into a buffer that no program command uses.
LEMMA WayRead ==
  ASSUME IInv, StoredLatest, OnTheWay, UNCHANGED <<bsp, flash, dram, page_map, latest, received, wrPages>>,
         NEW cmd \in Commands, cmd.fc = "READ", flash_issue_cmd(cmd),
         \A c \in Pending : c.buf # cmd.buf
  PROVE  StoredLatest' /\ OnTheWay'
<1>1. FlashTypes BY DEF IInv, Types
<1>2. wroom = NoCmd /\ Pending' = Pending /\ Readers' = Readers \cup {cmd} BY <1>1, IssueMoves
<1>3. \A c \in Pending, s \in Sectors : Reading(c.buf, s)' <=> Reading(c.buf, s)
  <2>1. \A c \in Pending : \A r \in Readers' : r.buf = c.buf => r \in Readers BY <1>2
  <2>2. \A buf, s : Reading(buf, s)' <=> \E r \in Readers' : r.buf = buf /\ s \in Span(r)
    BY DEF Reading
  <2>3. \A buf, s : Reading(buf, s) <=> \E r \in Readers : r.buf = buf /\ s \in Span(r)
    BY DEF Reading
  <2> QED BY <1>2, <2>1, <2>2, <2>3
<1>4. /\ \A c \in Pending : c.page > received => wrPages'[c.page - received] = wrPages[c.page - received]
      /\ \A c \in Pending, s \in Sectors : dram'[c.buf][s] = dram[c.buf][s]
  OBVIOUS
<1> QED BY <1>2, <1>3, <1>4, WaySteady

\* The buffers of program commands.
LEMMA PendingBuffers ==
  ASSUME IInv, Order
  PROVE  /\ \A c \in Pending : c.buf \in WriteBuffers
         /\ \A c \in Pending, i \in Nat : c.buf # RD_BUF(i) /\ c.buf # COMP(i)
         /\ ~(op.call = "copy" /\ op.pc = "done") => \A c \in Pending : c.buf # ISSD_WR_BUF /\ c.page > 0
<1>0. Types BY DEF IInv
<1>1. \A c \in Pending : /\ c.page \in Nat /\ (c.page > 0 => c.buf = BufOf(c.page))
                         /\ (c.page = 0 => c.buf = ISSD_WR_BUF)
  BY WindowFacts
<1>2. \A q \in Nat : BufOf(q) \in WriteBuffers /\ BufOf(q) # ISSD_WR_BUF
  <2>1. \A q \in Int : BufOf(q) \in WriteBuffers /\ BufOf(q) # ISSD_WR_BUF BY <1>0, WriteBufferFacts, Zenon
  <2>2. \A q \in Nat : q \in Int OBVIOUS
  <2> QED BY <2>1, <2>2
<1>3. \A c \in Pending : c.buf \in WriteBuffers
  BY <1>0, <1>1, <1>2, WriteBufferFacts
<1>4. \A c \in Pending, i \in Nat : c.buf # RD_BUF(i) /\ c.buf # COMP(i)
  BY <1>0, <1>3, WriteBufferFacts, Zenon
<1>5. ~(op.call = "copy" /\ op.pc = "done") => \A c \in Pending : c.page # 0
  BY NoCopyPending DEF Order
<1> QED BY <1>1, <1>2, <1>3, <1>4, <1>5

\* A call that neither puts a page together nor has read or copied anything.
LEMMA NewCallData ==
  ASSUME ~Chosen', op'.call # "copy" \/ (op'.pc = "read" /\ op'.page = 0)
  PROVE  CallData'
<1>1. HolesFilled' BY DEF HolesFilled, HolesBegun
<1>2. CopiedIn' BY DEF CopiedIn
<1>3. CopyRead' BY DEF CopyRead
<1>4. CopyComputed' BY DEF CopyComputed
<1> QED BY <1>1, <1>2, <1>3, <1>4 DEF CallData

\* Calls begin.
LEMMA BeginContents ==
  ASSUME Base, Contents,
         \/ \E w \in Writes : BeginWrite(w[1], w[2])
         \/ \E r \in Reads : BeginRead(r[1], r[2])
         \/ \E c \in Copies : BeginCopy(c[1], c[2], c[3])
  PROVE  Contents'
<1>0. IInv /\ Order /\ StoredLatest /\ OnTheWay BY DEF Base, Contents
<1>1. /\ UNCHANGED <<wroom, bsp, flash, dram, page_map, latest, received>>
      /\ ~Chosen' /\ (op'.call # "copy" \/ (op'.pc = "read" /\ op'.page = 0))
  <2>1. /\ UNCHANGED <<flashVars, ftlVars, received, issued, rdPages, latest>>
        /\ \/ op'.call = "write" /\ op'.pc = "page"
           \/ op'.call = "read"
           \/ op'.call = "copy" /\ op'.pc = "read" /\ op'.page = 0
    BY DEF BeginWrite, BeginRead, BeginCopy, Begin
  <2> QED BY <2>1 DEF flashVars, ftlVars, Chosen
<1>2. CallData' BY <1>1, NewCallData
<1>3. ASSUME NEW c \in Pending, c.page > received
      PROVE  wrPages'[c.page - received] = wrPages[c.page - received]
  <2>1. c.page \in Nat /\ received \in Nat /\ issued \in Nat /\ Len(wrPages) \in Nat
        /\ c.page <= issued /\ issued <= received + Len(wrPages)
    BY <1>0, WindowFacts
  <2>2. c.page - received \in 1 .. Len(wrPages) BY <1>3, <2>1
  <2>3. CASE UNCHANGED wrPages BY <2>3
  <2>4. CASE \E w \in Writes : BeginWrite(w[1], w[2])
    <3>1. PICK w \in Writes : BeginWrite(w[1], w[2]) BY <2>4
    <3>2. PICK P : P = PagesOf(ops + 1, w[1], w[2]) OBVIOUS
    <3>3. wrPages' = wrPages \o P /\ ops < MaxOps BY <3>1, <3>2 DEF BeginWrite, Begin
    <3>4. wrPages \in Seq(Packets) /\ P \in Seq(Packets)
      <4>1. wrPages \in Seq(Packets) /\ ops + 1 \in 1 .. MaxOps
        BY <1>0, <3>3, GeometryFacts DEF IInv, Types, SataTypes
      <4>2. InDevice(w[1], w[2]) BY Requests
      <4>3. P \in Seq(Packets) BY <3>2, <4>1, <4>2, PagesOfFacts, Zenon
      <4> QED BY <4>1, <4>3
    <3> QED BY <2>2, <3>3, <3>4, ConcatProperties
  <2> QED BY <2>3, <2>4 DEF BeginRead, BeginCopy
<1>4. StoredLatest' /\ OnTheWay' BY <1>0, <1>1, <1>3, WaySame
<1> QED BY <1>2, <1>4 DEF Contents

\* ftl_read has buffers of its own.
LEMMA FtlReadContents ==
  ASSUME Base, Contents, ftl_read
  PROVE  Contents'
<1>0. IInv /\ Order /\ StoredLatest /\ OnTheWay /\ CallTypes /\ FlashTypes /\ Types
  BY DEF Base, Contents, IInv, Types
<1>1. /\ op.call = "read" /\ Continue(op.at)
      /\ UNCHANGED <<bsp, flash, page_map, latest, received, wrPages>>
  BY DEF ftl_read, ftl_read_mapped, ftl_read_unwritten, ReadPage
<1>2. CallData'
  <2>1. ~Chosen' BY <1>0, <1>1, ContinueFacts
  <2>2. op \in ReadCalls BY <1>0, <1>1, CallFacts
  <2>3. op'.call # "copy" BY <1>1, <2>2 DEF Continue, Return, ReadCalls
  <2> QED BY <2>1, <2>3, NewCallData
<1>3. CASE ftl_read_unwritten
  <2>1. UNCHANGED <<wroom, bsp>> BY <1>3 DEF ftl_read_unwritten
  <2>2. PICK new : dram' = [dram EXCEPT ![RD_BUF(g_ftl_read_buf_id)] = new]
    BY <1>3 DEF ftl_read_unwritten
  <2>3. \A buf \in Buffers : buf # RD_BUF(g_ftl_read_buf_id) => dram'[buf] = dram[buf]
    BY <1>0, <2>2 DEF FlashTypes
  <2>4. \A c \in Pending : c.buf \in Buffers /\ c.buf # RD_BUF(g_ftl_read_buf_id)
    <3>1. g_ftl_read_buf_id \in Nat BY <1>0, GeometryFacts DEF Types, FtlTypes
    <3> QED BY <1>0, <3>1, PendingPlace, PendingBuffers
  <2>5. \A c \in Pending, s \in Sectors : dram'[c.buf][s] = dram[c.buf][s] BY <2>3, <2>4
  <2>6. StoredLatest' /\ OnTheWay' BY <1>0, <1>1, <2>1, <2>5, WaySame
  <2> QED BY <1>2, <2>6 DEF Contents
<1>4. CASE ftl_read_mapped
  <2> DEFINE cmd == Cmd("READ", BankOf(Old), RowOf(Old), op.at.off, Now(op.at),
                        RD_BUF(g_ftl_read_buf_id), NoPage)
  <2>1. flash_issue_cmd(cmd) /\ UNCHANGED <<bsp, flash, dram>> BY <1>4 DEF ftl_read_mapped, Old
  <2>2. cmd \in Commands /\ cmd.fc = "READ" /\ cmd.buf = RD_BUF(g_ftl_read_buf_id)
    <3>1. RD_BUF(g_ftl_read_buf_id) \in Buffers BY <1>0, BufferFacts DEF Types, FtlTypes
    <3>2. op.at.remain > 0 BY <1>0, <1>1, CallFacts
    <3>3. BankOf(Old) \in Banks /\ RowOf(Old) \in Rows /\ op.at.off \in Nat /\ Now(op.at) \in Nat
      BY <1>0, <1>1, <3>2, PageFacts DEF Left
    <3> QED BY <3>1, <3>3, CmdMade DEF NoPage
  <2> HIDE DEF cmd
  <2>3. \A c \in Pending : c.buf # cmd.buf
    <3>1. g_ftl_read_buf_id \in Nat BY <1>0, GeometryFacts DEF Types, FtlTypes
    <3> QED BY <1>0, <2>2, <3>1, PendingBuffers
  <2>4. StoredLatest' /\ OnTheWay' BY <1>0, <1>1, <2>1, <2>2, <2>3, WayRead
  <2> QED BY <1>2, <2>4 DEF Contents
<1> QED BY <1>3, <1>4 DEF ftl_read

\* Of a page that issd_read_sectors reads, the command covers what lies in the extent.
LEMMA ExtentSpan ==
  ASSUME IInv, Readings, op.call = "copy", op.pc = "read", NEW s \in Sectors,
         CopyPage(op.page) * SPP + s \in op.from .. op.from + op.n - 1
  PROVE  s \in op.at.off .. op.at.off + Now(op.at) - 1
<1>0. SPP \in Nat \ {0} /\ Sectors = 0 .. SPP - 1 BY GeometryFacts
<1>1. /\ op \in CopyReads /\ CopyReading /\ op.at \in Places /\ op.at.remain > 0 /\ Inside(op.at)
      /\ op.at.lpage = CopyPage(op.page)
      /\ op.page = 0 => op.at = Span0(op.from, op.n)
      /\ op.page > 0 => op.at.off = 0
      /\ First(op.at) + op.at.remain = op.from + op.n
  BY CallFacts DEF IInv, Types, Readings, CopyPlace
<1>2. op.from \in LSectors /\ op.n \in Nat \ {0} /\ op.page \in Nat /\ op.from + op.n <= NUM_LPAGES * SPP
  BY <1>1 DEF CopyReads, CopyReading
<1>3. PICK x, off, m, n : x = op.at.lpage * SPP /\ off = op.at.off /\ m = op.at.remain /\ n = Now(op.at)
  OBVIOUS
<1>4. x \in Nat /\ off \in Nat /\ m \in Nat /\ op.from \in Nat
  <2>1. op.at.lpage \in Nat /\ off \in Nat /\ m \in Nat /\ op.from \in Nat
    BY <1>0, <1>1, <1>2, <1>3 DEF Places, LSectors
  <2>2. op.at.lpage * SPP \in Nat BY <1>0, <2>1, Products
  <2> QED BY <1>3, <2>1, <2>2
<1>5. x + s \in op.from .. op.from + op.n - 1 /\ (x + off) + m = op.from + op.n
  BY <1>1, <1>3 DEF First
<1>6. n = IF off + m < SPP THEN m ELSE SPP - off BY <1>3 DEF Now, SPP
<1>7. s >= off
  <2>1. CASE op.page = 0
    <3>1. InDevice(op.from, op.n) BY <1>2 DEF InDevice, SPP
    <3>2. First(op.at) = op.from BY <1>1, <2>1, <3>1, Span0Facts
    <3>3. x + off = op.from BY <1>3, <3>2 DEF First
    <3> QED BY <1>0, <1>2, <1>4, <1>5, <3>3
  <2>2. CASE op.page > 0
    <3>1. off = 0 BY <1>1, <1>3, <2>2
    <3> QED BY <1>0, <3>1
  <2> QED BY <1>2, <2>1, <2>2
<1>8. s < off + n
  <2>1. CASE off + m < SPP BY <1>0, <1>2, <1>4, <1>5, <1>6, <2>1
  <2>2. CASE ~(off + m < SPP) BY <1>0, <1>4, <1>6, <2>2
  <2> QED BY <2>1, <2>2
<1>9. n \in Int BY <1>0, <1>4, <1>6
<1> QED BY <1>0, <1>3, <1>4, <1>7, <1>8, <1>9

\* issd_read_sectors asks for a page.
LEMMA CopyReadContents ==
  ASSUME Base, Contents, issd_read_page
  PROVE  Contents'
<1>0. IInv /\ Order /\ Readings /\ StoredLatest /\ OnTheWay /\ CallData BY DEF Base, Contents
<1>1. PICK page : page = op.page OBVIOUS
<1>2. PICK cmd \in Commands :
        /\ cmd.fc = "READ" /\ cmd.buf = COMP(page) /\ flash_issue_cmd(cmd)
        /\ cmd.col = op.at.off /\ cmd.cnt = Now(op.at)
        /\ Readers' = Readers \cup {cmd}
  BY <1>0, <1>1, CopyReadFacts DEF Cmd
<1>3. /\ op.call = "copy" /\ op.pc = "read" /\ page \in Nat
      /\ op'.call = "copy" /\ op'.pc \in {"read", "finish"} /\ op'.page = page + 1
      /\ op'.from = op.from /\ op'.n = op.n
      /\ UNCHANGED <<bsp, flash, dram, page_map, latest, received, wrPages>>
  BY <1>0, <1>1, CopyReadFacts DEF ftlVars, sataVars
<1>4. StoredLatest' /\ OnTheWay'
  <2>1. \A c \in Pending : c.buf # cmd.buf BY <1>0, <1>2, <1>3, PendingBuffers
  <2> QED BY <1>0, <1>2, <1>3, <2>1, WayRead
<1>5. CopyRead'
  <2>1. \A p : CopyPage(p)' = CopyPage(p) BY <1>3 DEF CopyPage
  <2>2. \A p, s : Val(CopyPage(p), s)' = Val(CopyPage(p), s) BY <1>3, <2>1 DEF Val
  <2>3. \A p, s : Reading(COMP(p), s)' <=> \E r \in Readers' : r.buf = COMP(p) /\ s \in Span(r)
    BY DEF Reading, Span, COMP
  <2> SUFFICES ASSUME NEW p \in 0 .. op'.page - 1, NEW s \in Sectors,
                      CopyPage(p) * SPP + s \in op.from .. op.from + op.n - 1,
                      Val(CopyPage(p), s) \in Written,
                      \A r \in Readers' : r.buf = COMP(p) => s \notin Span(r)
               PROVE  dram[COMP(p)][s] = Val(CopyPage(p), s)
    BY <1>3, <2>1, <2>2, <2>3 DEF CopyRead
  <2>4. CASE p = page
    <3>1. s \in Span(cmd) BY <1>0, <1>1, <1>2, <1>3, <2>4, ExtentSpan DEF Span
    <3> QED BY <1>2, <2>4, <3>1
  <2>5. CASE p # page
    <3>1. p \in 0 .. op.page - 1 BY <1>1, <1>3, <2>5
    <3>2. ~Reading(COMP(p), s) BY <1>2 DEF Reading
    <3> QED BY <1>0, <1>3, <3>1, <3>2 DEF CallData, CopyRead
  <2> QED BY <2>4, <2>5
<1>6. HolesFilled' /\ CopiedIn' /\ CopyComputed'
  BY <1>3 DEF HolesFilled, HolesBegun, CopiedIn, CopyComputed, Chosen
<1> QED BY <1>4, <1>5, <1>6 DEF Contents, CallData

\* The sectors of an extent, counted from the first and in pages.
LEMMA ExtentSector ==
  ASSUME NEW from \in Nat, NEW k \in Nat
  PROVE  LET x == (from % SPP) + k
         IN /\ x \div SPP \in Nat /\ x % SPP \in Sectors
            /\ (from \div SPP + (x \div SPP)) * SPP + (x % SPP) = from + k
            /\ from \div SPP \in Nat
<1>0. SPP \in Nat \ {0} /\ Sectors = 0 .. SPP - 1 BY GeometryFacts
<1>1. PICK f, m : f = from \div SPP /\ m = from % SPP OBVIOUS
<1>2. f \in Nat /\ m \in 0 .. SPP - 1 /\ from = SPP * f + m
  <2>1. from \in Int OBVIOUS
  <2> QED BY <1>0, <1>1, <2>1, DivMod, Quotient
<1>3. PICK x : x = m + k OBVIOUS
<1>4. x \in Nat BY <1>0, <1>2, <1>3
<1>5. PICK p, s : p = x \div SPP /\ s = x % SPP OBVIOUS
<1>6. p \in Nat /\ s \in 0 .. SPP - 1 /\ x = SPP * p + s
  <2>1. x \in Int BY <1>4
  <2> QED BY <1>0, <1>4, <1>5, <2>1, DivMod, Quotient
<1>7. (f + p) * SPP = f * SPP + p * SPP /\ f * SPP = SPP * f /\ p * SPP = SPP * p
  BY <1>0, <1>2, <1>6
<1>8. (f + p) * SPP + s = from + k
  <2>1. PICK a, b, c : a = SPP * f /\ b = SPP * p /\ c = (f + p) * SPP OBVIOUS
  <2>2. a \in Nat /\ b \in Nat BY <1>0, <1>2, <1>6, <1>7, <2>1, Products
  <2>3. c = a + b /\ from = a + m /\ x = b + s BY <1>2, <1>6, <1>7, <2>1
  <2>4. c + s = from + k BY <1>0, <1>2, <1>3, <1>6, <2>2, <2>3
  <2> QED BY <2>1, <2>4
<1> QED BY <1>0, <1>1, <1>2, <1>3, <1>5, <1>6, <1>8

\* flash_finish: the computing buffer holds the extent.
LEMMA ReadDoneContents ==
  ASSUME Base, Contents, issd_read_done
  PROVE  Contents'
<1>0. IInv /\ Order /\ Readings /\ StoredLatest /\ OnTheWay /\ CallData /\ CallTypes
  BY DEF Base, Contents, IInv, Types
<1>1. /\ op.call = "copy" /\ op.pc = "finish" /\ AllIdle
      /\ op'.call = "copy" /\ op'.pc = "page" /\ op'.src = op.from % SPP
      /\ op'.at = Span0(op.to, op.n) /\ op'.to = op.to /\ op'.old = op.old
      /\ UNCHANGED <<wroom, bsp, flash, dram, page_map, latest, received, wrPages>>
  BY DEF issd_read_done, SPP, flashVars, ftlVars, sataVars
<1>2. StoredLatest' /\ OnTheWay' BY <1>0, <1>1, WaySame
<1>3. HolesFilled' /\ CopiedIn' /\ CopyRead'
  BY <1>1 DEF HolesFilled, HolesBegun, CopiedIn, CopyRead, Chosen
<1>4. /\ op \in CopyReads /\ CopyReading BY <1>0, <1>1, CallFacts
<1>5. op.from \in Nat /\ op.to \in LSectors /\ op.n \in Nat \ {0} /\ op.page \in Nat
      /\ op.at \in Places /\ op.to + op.n <= NUM_LPAGES * SPP
  BY <1>4 DEF CopyReads, CopyReading, LSectors
<1>6. First(op'.at) = op.to /\ op'.at.remain = op.n
  <2>1. InDevice(op.to, op.n) BY <1>5 DEF InDevice, SPP
  <2>2. First(Span0(op.to, op.n)) = op.to /\ Span0(op.to, op.n).remain = op.n
    BY <2>1, Span0Facts
  <2> QED BY <1>1, <2>2
<1>7. ASSUME NEW k \in 0 .. op.n - 1, op.old[k] \in Written
      PROVE  Computed((op.from % SPP) + k) = op.old[k]
  <2>1. PICK x : x = (op.from % SPP) + k OBVIOUS
  <2>2. PICK p, s : p = x \div SPP /\ s = x % SPP OBVIOUS
  <2>3. PICK f : f = op.from \div SPP OBVIOUS
  <2>4. p \in Nat /\ s \in Sectors /\ (f + p) * SPP + s = op.from + k /\ f \in Nat
    <3>1. k \in Nat BY <1>5
    <3> QED BY <1>5, <2>1, <2>2, <2>3, <3>1, ExtentSector
  <2>5. CopyPage(p) = f + p BY <2>3 DEF CopyPage
  <2>6. p \in 0 .. op.page - 1
    <3>1. /\ op.at.lpage = f + op.page /\ op.page > 0 /\ op.at.off = 0
          /\ First(op.at) >= op.from + op.n
      <4>1. op.page # 0 BY <1>0, <1>1 DEF Readings, CopyPlace
      <4>2. op.page > 0 BY <1>5, <4>1
      <4> QED BY <1>0, <1>1, <2>3, <4>2 DEF Readings, CopyPlace, CopyPage
    <3>2. PICK y, z : y = (f + p) * SPP /\ z = (f + op.page) * SPP OBVIOUS
    <3>3. f + p \in Nat /\ f + op.page \in Nat /\ SPP \in Nat \ {0} /\ Sectors = 0 .. SPP - 1
      BY <1>5, <2>4, GeometryFacts
    <3>4. y \in Nat /\ z \in Nat BY <3>2, <3>3, Products
    <3>5. First(op.at) = z + 0 BY <3>1, <3>2 DEF First
    <3>6. y + s = op.from + k BY <2>4, <3>2
    <3>7. y < z BY <1>5, <2>4, <3>1, <3>3, <3>4, <3>5, <3>6
    <3>8. f + p < f + op.page BY <3>2, <3>3, <3>7, Products
    <3> QED BY <1>5, <2>4, <3>8
  <2>7. Readers = {} BY <1>0, <1>1, CommandFacts DEF AllIdle, Readers, UnderWay
  <2>8. Val(CopyPage(p), s) = op.old[k]
    <3>1. Val(CopyPage(p), s) = latest[op.from + k] BY <2>4, <2>5 DEF Val
    <3>2. op.old[k] = latest[op.from + k] BY <1>0, <1>1, <1>7 DEF Readings, CopyPlace
    <3> QED BY <3>1, <3>2
  <2>9. CopyPage(p) * SPP + s \in op.from .. op.from + op.n - 1
    <3>1. op.from + k \in op.from .. op.from + op.n - 1 BY <1>5
    <3> QED BY <2>4, <2>5, <3>1
  <2>10. dram[COMP(p)][s] = op.old[k]
    BY <1>0, <1>1, <1>7, <2>4, <2>6, <2>7, <2>8, <2>9 DEF CallData, CopyRead, Reading
  <2> QED BY <2>1, <2>2, <2>10 DEF Computed, SPP
<1>8. CopyComputed'
  <2>1. ASSUME NEW k \in 0 .. op.n - 1
        PROVE  (First(op'.at) - op.to) + k = k
    BY <1>5, <1>6, <2>1 DEF LSectors
  <2>2. ASSUME NEW k \in 0 .. op'.at.remain - 1, op'.old[(First(op'.at) - op'.to) + k] \in Written
        PROVE  dram'[COMP((op'.src + k) \div SPP)][(op'.src + k) % SPP]
                 = op'.old[(First(op'.at) - op'.to) + k]
    <3>1. k \in 0 .. op.n - 1 BY <1>6, <2>2
    <3>2. op'.old[(First(op'.at) - op'.to) + k] = op.old[k] BY <1>1, <2>1, <3>1
    <3>3. Computed((op.from % SPP) + k) = op.old[k] BY <1>7, <2>2, <3>1, <3>2
    <3> QED BY <1>1, <3>2, <3>3 DEF Computed, SPP
  <2> QED BY <1>1, <2>2 DEF CopyComputed, First, Computed, SPP
<1> QED BY <1>2, <1>3, <1>8 DEF Contents, CallData

\* issd_read_sectors meets a page never written, or issd_write_sectors goes on to the
\* next page of the extent.
LEMMA CopyMovesContents ==
  ASSUME Base, Contents, issd_read_unwritten \/ issd_write_done
  PROVE  Contents'
<1>0. IInv /\ Order /\ StoredLatest /\ OnTheWay /\ CallData /\ CallTypes
  BY DEF Base, Contents, IInv, Types
<1>1. UNCHANGED <<wroom, bsp, flash, dram, page_map, latest, received, wrPages>>
  BY DEF issd_read_unwritten, issd_write_done, flashVars, ftlVars, sataVars
<1>2. StoredLatest' /\ OnTheWay' BY <1>0, <1>1, WaySame
<1>3. CASE op'.call = "none"
  <2>1. CallData' BY <1>3, NewCallData DEF Chosen
  <2> QED BY <1>2, <2>1 DEF Contents
<1>4. CASE issd_write_done /\ op'.call # "none"
  <2>1. PICK next : next = NextPage(op.at) OBVIOUS
  <2>2. /\ op.call = "copy" /\ op.pc = "done" /\ op \in CopyWrites /\ CopyWriting
        /\ op.at \in Places /\ op.at.remain > 0 /\ Inside(op.at)
        /\ op'.call = "copy" /\ op'.pc = "page" /\ next.remain > 0
        /\ op'.at = next /\ op'.src = op.src + Now(op.at) /\ op'.to = op.to /\ op'.old = op.old
    BY <1>0, <1>4, <2>1, WriteDoneFacts
  <2>3. PICK m, n, f : m = op.at.remain /\ n = Now(op.at) /\ f = First(op.at) OBVIOUS
  <2>4. /\ n \in 1 .. m /\ next.remain = m - n /\ First(next) = f + n /\ m \in Nat /\ f \in Nat
        /\ op.src \in Nat /\ op.to \in Nat
    BY <2>1, <2>2, <2>3, NextFacts, FirstFacts DEF Places, CopyWrites, LSectors
  <2>5. ASSUME NEW k \in 0 .. next.remain - 1, op.old[(First(next) - op.to) + k] \in Written
        PROVE  dram[COMP(((op.src + n) + k) \div SPP)][((op.src + n) + k) % SPP]
                 = op.old[(First(next) - op.to) + k]
    <3>1. PICK i : i = n + k OBVIOUS
    <3>2. i \in 0 .. m - 1 /\ (op.src + n) + k = op.src + i
          /\ (First(next) - op.to) + k = (f - op.to) + i
      BY <2>4, <2>5, <3>1
    <3>3. Computed(op.src + i) = op.old[(f - op.to) + i]
      BY <1>0, <2>2, <2>3, <2>5, <3>2 DEF CallData, CopyComputed
    <3> QED BY <3>2, <3>3 DEF Computed, SPP
  <2>6. CopyComputed'
    BY <1>1, <2>2, <2>3, <2>5 DEF CopyComputed, First, Computed, SPP
  <2>7. HolesFilled' /\ CopiedIn' /\ CopyRead'
    BY <2>2 DEF HolesFilled, HolesBegun, CopiedIn, CopyRead, Chosen
  <2> QED BY <1>2, <2>6, <2>7 DEF Contents, CallData
<1>5. issd_read_unwritten => op'.call = "none" BY DEF issd_read_unwritten, Return
<1> QED BY <1>3, <1>4, <1>5

\* A page is begun: a copy has its new data put into the buffer.
LEMMA StartPageContents ==
  ASSUME Base, Contents, StartPage
  PROVE  Contents'
<1>0. IInv /\ Order /\ StoredLatest /\ OnTheWay /\ CallData /\ Types /\ FlashTypes
  BY DEF Base, Contents, IInv, Types
<1>1. /\ op.call \in {"write", "copy"} /\ op.pc = "page" /\ op'.call = op.call /\ op'.at = op.at
      /\ op.call = "copy" => op'.src = op.src /\ op'.to = op.to /\ op'.old = op.old
      /\ UNCHANGED <<wroom, bsp, flash, page_map, latest, received, wrPages>>
      /\ ~HolesBegun' /\ (Stopped' \/ Chosen')
      /\ Chosen' => dram' = IF op.call = "copy" THEN CopyIn ELSE dram
      /\ ~Chosen' => dram' = dram
  BY <1>0, StartPageFacts
<1>2. op.at \in Places /\ op.at.remain > 0 /\ Inside(op.at)
  BY <1>0, <1>1, CallFacts DEF Types
<1>3. \A buf \in Buffers : buf # ISSD_WR_BUF => dram'[buf] = dram[buf]
  BY <1>0, <1>1 DEF CopyIn, FlashTypes
<1>4. StoredLatest' /\ OnTheWay'
  <2>1. \A c \in Pending : c.buf \in Buffers /\ c.buf # ISSD_WR_BUF
    BY <1>0, <1>1, PendingPlace, PendingBuffers
  <2>2. \A c \in Pending, s \in Sectors : dram'[c.buf][s] = dram[c.buf][s] BY <1>3, <2>1
  <2> QED BY <1>0, <1>1, <2>2, WaySame
<1>5. HolesFilled' BY <1>1 DEF HolesFilled
<1>6. op'.pc \notin {"read", "finish"} BY <1>1 DEF Stopped, Chosen
<1>7. CopyRead' BY <1>6 DEF CopyRead
<1>8. CopyComputed'
  <2>1. SUFFICES ASSUME op.call = "copy" PROVE CopyComputed' BY <1>1 DEF CopyComputed
  <2>2. \A k \in 0 .. op.at.remain - 1 :
          dram'[COMP((op.src + k) \div SPP)][(op.src + k) % SPP] = Computed(op.src + k)
    <3>1. \A p \in 0 .. NUM_LPAGES : COMP(p) \in Buffers /\ COMP(p) # ISSD_WR_BUF
      BY BufferFacts, BuffersApart
    <3>2. \A k \in 0 .. op.at.remain - 1 : (op.src + k) \div SPP \in 0 .. NUM_LPAGES
      BY <1>0, <1>1, <2>1, CopyBuffers
    <3> QED BY <1>3, <3>1, <3>2 DEF Computed, SPP
  <2>3. \A k \in 0 .. op.at.remain - 1 :
          op.old[(First(op.at) - op.to) + k] \in Written =>
            Computed(op.src + k) = op.old[(First(op.at) - op.to) + k]
    BY <1>0, <1>1, <2>1 DEF CallData, CopyComputed
  <2> QED BY <1>1, <2>1, <2>2, <2>3 DEF CopyComputed, First, Computed, SPP
<1>9. CopiedIn'
  <2>1. SUFFICES ASSUME Chosen', op.call = "copy" PROVE CopiedIn' BY <1>1 DEF CopiedIn
  <2>2. PICK l, r, n, f : l = Left /\ r = op.at.remain /\ n = Now(op.at) /\ f = First(op.at) OBVIOUS
  <2>3. /\ l \in Nat /\ r \in Nat /\ n \in Nat /\ n <= r /\ l + n <= SPP /\ SPP \in Nat
        /\ Sectors = 0 .. SPP - 1 /\ op.src \in Nat /\ op.to \in Nat
        /\ f \in Nat /\ l = op.at.off
    <3>1. op \in CopyWrites BY <1>0, <1>1, <2>1, CallFacts DEF Types
    <3>2. op.src \in Nat /\ op.to \in Nat BY <3>1 DEF CopyWrites, LSectors
    <3>3. Now(op.at) \in 1 .. op.at.remain /\ First(op.at) \in Nat /\ op.at.remain \in Nat
      BY <1>2, NextFacts, FirstFacts DEF Places
    <3>4. Left \in Nat /\ Left + Now(op.at) <= SPP /\ Left = op.at.off BY <1>2, ColumnFacts DEF Left
    <3>5. SPP \in Nat /\ Sectors = 0 .. SPP - 1 BY GeometryFacts
    <3> QED BY <2>2, <3>2, <3>3, <3>4, <3>5
  <2>4. ASSUME NEW s \in l .. l + n - 1,
               op.old[(op.at.lpage * SPP + s) - op.to] \in Written
        PROVE  dram'[ISSD_WR_BUF][s] = op.old[(op.at.lpage * SPP + s) - op.to]
    <3>1. PICK k : k = s - l OBVIOUS
    <3>2. k \in 0 .. r - 1 /\ op.src + k = op.src + s - l /\ s \in Sectors
      <4>1. l \in Nat /\ n \in Nat /\ r \in Nat /\ n <= r /\ l + n <= SPP /\ SPP \in Nat
            /\ Sectors = 0 .. SPP - 1
        BY <2>3
      <4> QED BY <3>1, <4>1
    <3>3. (f - op.to) + k = (op.at.lpage * SPP + s) - op.to
      <4>1. PICK x : x = op.at.lpage * SPP OBVIOUS
      <4>2. x \in Nat
        <5>1. op.at.lpage \in Nat /\ SPP \in Nat \ {0} BY <1>2, GeometryFacts DEF Places
        <5> QED BY <4>1, <5>1, Products
      <4>3. f = x + l BY <2>2, <2>3, <4>1 DEF First
      <4>4. PICK t : t = op.to OBVIOUS
      <4>5. t \in Nat /\ l \in Nat /\ s \in Int BY <2>3, <4>4
      <4>6. (f - t) + k = (x + s) - t BY <3>1, <4>2, <4>3, <4>5
      <4> QED BY <4>1, <4>4, <4>6
    <3>4. Computed(op.src + k) = op.old[(f - op.to) + k]
      BY <1>0, <1>1, <2>1, <2>2, <2>4, <3>2, <3>3 DEF CallData, CopyComputed
    <3>5. dram'[ISSD_WR_BUF][s] = Computed(op.src + s - l)
      <4>1. dram' = CopyIn BY <1>1, <2>1
      <4>2. ISSD_WR_BUF \in Buffers /\ ISSD_WR_BUF \in DOMAIN dram
        BY <1>0, BufferFacts DEF FlashTypes
      <4>3. s \in Left .. Left + Now(op.at) - 1 BY <2>2, <2>4
      <4>4. dram'[ISSD_WR_BUF][s] = Computed(op.src + s - Left)
        BY <3>2, <4>1, <4>2, <4>3 DEF CopyIn
      <4> QED BY <2>2, <4>4
    <3> QED BY <3>2, <3>3, <3>4, <3>5
  <2>5. Left' = l /\ Now(op'.at) = n BY <1>1, <2>2 DEF Left
  <2> QED BY <1>1, <2>1, <2>4, <2>5 DEF CopiedIn
<1> QED BY <1>4, <1>5, <1>7, <1>8, <1>9 DEF Contents, CallData

\* What the call knows of its page while it is put together.
LEMMA SamePage ==
  ASSUME op'.call = op.call, op'.at = op.at, UNCHANGED <<page_map, latest, g_ftl_write_buf_id>>
  PROVE  /\ Left' = Left /\ Right' = Right /\ (ReadOld' <=> ReadOld) /\ Buf' = Buf
         /\ \A s : Val(op.at.lpage, s)' = Val(op.at.lpage, s)
  BY DEF Left, Right, ReadOld, Old, Buf, Val

\* The computing buffer and what it stands for stay.
LEMMA SameComputed ==
  ASSUME CopyComputed, op.call = "copy" => op.pc \notin {"read", "finish"}, UNCHANGED dram,
         op'.call = op.call, op'.at = op.at,
         op.call = "copy" => op'.src = op.src /\ op'.to = op.to /\ op'.old = op.old
  PROVE  CopyComputed'
<1> SUFFICES ASSUME op.call = "copy" PROVE CopyComputed' BY DEF CopyComputed
<1>1. \A k \in 0 .. op.at.remain - 1 :
        op.old[(First(op.at) - op.to) + k] \in Written =>
          Computed(op.src + k) = op.old[(First(op.at) - op.to) + k]
  BY DEF CopyComputed
<1> QED BY <1>1 DEF CopyComputed, First, Computed

\* A hole of the page is read.
LEMMA ReadHoleContents ==
  ASSUME Base, Contents, ReadLeftHole \/ ReadRightHole
  PROVE  Contents'
<1>0. /\ IInv /\ Order /\ Readings /\ StoredLatest /\ OnTheWay /\ CallData /\ CallTypes
      /\ Types /\ FlashTypes
  BY DEF Base, Contents, IInv, Types
<1>1. /\ op.call \in {"write", "copy"} /\ op.pc \in {"left", "right"}
      /\ op'.call = op.call /\ op'.at = op.at
      /\ op.call = "copy" => op'.src = op.src /\ op'.to = op.to /\ op'.old = op.old
      /\ Chosen /\ Chosen'
      /\ UNCHANGED <<bsp, flash, dram, page_map, latest, received, wrPages, g_ftl_write_buf_id>>
  BY <1>0, ReadHoleFacts DEF ftlVars, sataVars
<1>2. PICK cmd \in Commands :
        /\ cmd.fc = "READ" /\ cmd.buf = Buf /\ flash_issue_cmd(cmd)
        /\ \/ op.pc = "left" /\ cmd.col = 0 /\ cmd.cnt = Left
              /\ op'.pc = IF Right # 0 THEN "right" ELSE "prog"
           \/ op.pc = "right" /\ cmd.col = SPP - Right /\ cmd.cnt = Right /\ op'.pc = "prog"
  BY <1>0, ReadHoleFacts DEF Cmd
<1>3. wroom = NoCmd /\ Readers' = Readers \cup {cmd} BY <1>0, <1>1, <1>2, IssueMoves
<1>4. StoredLatest' /\ OnTheWay'
  <2>1. wroom.fc # "PROG" BY <1>3, CommandFacts
  <2>2. \A c \in Pending : c.buf # cmd.buf BY <1>0, <1>1, <1>2, <2>1, ChosenApart
  <2> QED BY <1>0, <1>1, <1>2, <2>2, WayRead
<1>5. op.at \in Places /\ op.at.remain > 0 /\ Inside(op.at)
  BY <1>0, <1>1, CallFacts
<1>6. Left \in Nat /\ Right \in 0 .. SPP - 1 /\ SPP \in Nat /\ Sectors = 0 .. SPP - 1
  BY <1>5, ColumnFacts, GeometryFacts
<1>7. HolesFilled'
  <2> SUFFICES ASSUME NEW s \in Sectors, HoleRead(s)', Val(op.at.lpage, s) \in Written,
                      \A r \in Readers' : r.buf = Buf => s \notin Span(r)
               PROVE  dram[Buf][s] = Val(op.at.lpage, s)
    <3>1. \A t : Reading(Buf, t)' <=> \E r \in Readers' : r.buf = Buf /\ t \in Span(r)
      BY <1>1, SamePage DEF Reading, Span
    <3>2. \A t : Val(op.at.lpage, t)' = Val(op.at.lpage, t) /\ Buf' = Buf BY <1>1, SamePage
    <3> QED BY <1>1, <3>1, <3>2 DEF HolesFilled
  <2>1. s \notin Span(cmd) BY <1>2, <1>3
  <2>2. \/ s < Left /\ op'.pc \in {"right", "prog"}
        \/ s >= SPP - Right /\ op'.pc = "prog"
    BY <1>1, SamePage DEF HoleRead
  <2>3. op.pc = "right" /\ s < Left
    <3>1. CASE op.pc = "left"
      <4>1. s >= Left
        <5>1. cmd.col = 0 /\ cmd.cnt = Left BY <1>2, <3>1
        <5> QED BY <1>6, <2>1, <5>1 DEF Span
      <4>2. Right = 0 /\ s >= SPP - Right
        <5>1. ~(s < Left) BY <1>6, <4>1
        <5> QED BY <1>2, <2>2, <3>1, <5>1
      <4> QED BY <1>6, <4>2
    <3>2. CASE op.pc = "right"
      <4>1. ~(s >= SPP - Right)
        <5>1. cmd.col = SPP - Right /\ cmd.cnt = Right BY <1>2, <3>2
        <5> QED BY <1>6, <2>1, <5>1 DEF Span
      <4> QED BY <2>2, <3>2, <4>1
    <3> QED BY <1>1, <3>1, <3>2
  <2>4. HoleRead(s) BY <2>3 DEF HoleRead
  <2>5. HolesBegun
    <3>1. ReadOld BY <1>0, <1>1, <2>3 DEF Readings, HolesAhead
    <3>2. Left # 0 BY <1>6, <2>3
    <3> QED BY <1>1, <2>3, <3>1, <3>2 DEF HolesBegun
  <2>6. ~Reading(Buf, s) BY <1>3 DEF Reading
  <2> QED BY <1>0, <2>4, <2>5, <2>6 DEF CallData, HolesFilled
<1>8. CopiedIn' BY <1>0, <1>1, SamePage DEF CallData, CopiedIn
<1>9. CopyRead' BY <1>1 DEF CopyRead, Chosen
<1>10. CopyComputed' BY <1>0, <1>1, SameComputed DEF CallData
<1> QED BY <1>4, <1>7, <1>8, <1>9, <1>10 DEF Contents, CallData

\* A page is given to its bank: what the command finds in its buffer, now or when it
\* comes, are the new sectors and the old ones around them.
LEMMA ProgramWay ==
  ASSUME Base, Contents, op.call \in {"write", "copy"}, NEW page \in Nat, ProgramPage(page),
         \A l \in LPages, s \in Sectors :
           l # op.at.lpage \/ s \notin Left .. Left + Now(op.at) - 1 => Val(l, s)' = Val(l, s),
         \A s \in Sectors : s \notin Left .. Left + Now(op.at) - 1 => ~Arrives(page, s),
         \A l \in LPages, s \in Sectors :
           l = op.at.lpage /\ s \in Left .. Left + Now(op.at) - 1 /\ Val(l, s)' \in Written =>
             IF Arrives(page, s)
             THEN /\ Val(l, s)' = <<wrPages[page - received].id, l * SPP + s>>
                  /\ wrPages[page - received].lpage = l
             ELSE dram[Buf][s] = Val(l, s)'
  PROVE  StoredLatest' /\ OnTheWay'
<1>0. /\ IInv /\ Order /\ Readings /\ Mapping /\ StoredLatest /\ OnTheWay /\ CallData
      /\ Types /\ FlashTypes
  BY DEF Base, Contents, IInv, Types
<1>1. PICK l0, b0, r0, buf0 : l0 = op.at.lpage /\ b0 = NewBank /\ r0 = NewRow /\ buf0 = Buf OBVIOUS
<1>2. PICK cmd \in Commands :
        /\ cmd.fc = "PROG" /\ cmd.bank = b0 /\ cmd.row = r0 /\ cmd.buf = buf0 /\ cmd.page = page
        /\ wroom = NoCmd /\ wroom' = cmd
        /\ Pending' = Pending \cup {cmd} /\ Readers' = Readers /\ cmd \notin Pending
        /\ op.pc = "prog" /\ Chosen /\ OldDataRead
        /\ op.at \in Places /\ op.at.remain > 0 /\ Inside(op.at) /\ l0 \in LPages
        /\ b0 \in Banks /\ r0 \in Rows
        /\ UNCHANGED <<bsp, flash, dram, wrPages, received>>
  BY <1>0, <1>1, ProgramMoves DEF Cmd
<1>3. /\ page_map'[l0] # NULL /\ BankOf(page_map'[l0]) = b0 /\ RowOf(page_map'[l0]) = r0
      /\ \A l \in LPages : l # l0 => page_map'[l] = page_map[l]
  BY <1>0, <1>1, ProgramMapping
<1>4. /\ \A c : \A l \in LPages : l # l0 => (At(c, l)' <=> At(c, l))
      /\ At(cmd, l0)'
  BY <1>2, <1>3 DEF At
<1>5. \A l \in LPages : l # l0 => ~At(cmd, l)
  <2> SUFFICES ASSUME NEW l \in LPages, l # l0, At(cmd, l) PROVE FALSE OBVIOUS
  <2>1. page_map[l] # NULL /\ BankOf(page_map[l]) = NewBank /\ RowOf(page_map[l]) = NewRow
    BY <1>1, <1>2 DEF At
  <2> QED BY <1>0, <1>2, <2>1 DEF Mapping
<1>6. \A c \in Pending : ~At(c, l0)'
  <2>1. Free(NewBank, NewRow) BY <1>0, <1>2 DEF IInv, RowsAhead
  <2>2. \A c \in Pending : ~(c.bank = b0 /\ c.row = r0) BY <1>1, <2>1 DEF Free
  <2> QED BY <1>3, <2>2 DEF At
<1>7. /\ \A buf, s : Reading(buf, s)' <=> Reading(buf, s)
      /\ \A q, s : Arrives(q, s)' <=> Arrives(q, s)
  BY <1>2 DEF Reading, Arrives
<1>8. StoredLatest'
  <2>1. ASSUME NEW l \in LPages, NEW s \in Sectors, \A c \in Pending' : ~At(c, l)',
               page_map'[l] # NULL, Val(l, s)' \in Written
        PROVE  flash'[BankOf(page_map'[l])][RowOf(page_map'[l])][s] = Val(l, s)'
    <3>1. l # l0 BY <1>2, <1>4, <2>1
    <3>2. Val(l, s)' = Val(l, s) /\ page_map'[l] = page_map[l] BY <1>1, <1>3, <3>1
    <3>3. \A c \in Pending : ~At(c, l) BY <1>2, <1>4, <2>1, <3>1
    <3>4. flash[BankOf(page_map[l])][RowOf(page_map[l])][s] = Val(l, s)
      BY <1>0, <2>1, <3>2, <3>3, StoredMeans DEF Stored
    <3> QED BY <1>2, <3>2, <3>4
  <2>2. \A l \in LPages, s \in Sectors : Stored(l, s)' BY <2>1 DEF Stored
  <2> QED BY <2>2, StoredMeans
<1>9. ASSUME NEW c \in Pending, NEW l \in LPages, NEW s \in Sectors, At(c, l)', Val(l, s)' \in Written
      PROVE  Comes(c, l, s)'
  <2>1. l # l0 BY <1>6, <1>9
  <2>2. Val(l, s)' = Val(l, s) BY <1>1, <2>1
  <2>3. Comes(c, l, s) BY <1>0, <1>4, <1>9, <2>1, <2>2 DEF OnTheWay
  <2>4. c # wroom BY <1>0, <1>2, PendingPlace, CommandFacts
  <2> QED BY <1>2, <1>7, <2>2, <2>3, <2>4 DEF Comes
<1>10. ASSUME NEW s \in Sectors, Val(l0, s)' \in Written
       PROVE  Comes(cmd, l0, s)'
  <2>1. CASE s \in Left .. Left + Now(op.at) - 1
    <3>1. ~Reading(buf0, s)
      <4> SUFFICES ASSUME NEW r \in Readers, r.buf = Buf, s \in Span(r) PROVE FALSE
        BY <1>1 DEF Reading
      <4>1. Buf \in WriteBuffers /\ wroom.fc # "PROG" BY <1>0, <1>2, WriteBufferFacts, CommandFacts
      <4>2. HoleRead(s) BY <1>0, <4>1 DEF Readings, HoleReads
      <4> QED BY <1>2, <2>1, <4>2, ColumnFacts
    <3>2. PICK v : v = Val(l0, s)' OBVIOUS
    <3>3. IF Arrives(page, s)
          THEN v = <<wrPages[page - received].id, l0 * SPP + s>> /\ wrPages[page - received].lpage = l0
          ELSE dram[buf0][s] = v
      BY <1>1, <1>2, <1>10, <2>1, <3>2
    <3>4. CASE Arrives(page, s) BY <1>2, <1>7, <3>1, <3>2, <3>3, <3>4 DEF Comes
    <3>5. CASE ~Arrives(page, s) BY <1>2, <1>7, <3>1, <3>2, <3>3, <3>5 DEF Comes
    <3> QED BY <3>4, <3>5
  <2>2. CASE s \notin Left .. Left + Now(op.at) - 1
    <3>1. ~Arrives(page, s) /\ Val(l0, s)' = Val(l0, s) BY <1>2, <2>2
    <3>2. Val(l0, s) \in Written BY <1>10, <3>1
    <3>3. HoleRead(s) /\ (Left # 0 \/ Right # 0) BY <1>2, <2>2, ColumnFacts
    <3>4. ReadOld
      <4>1. page_map[l0] # NULL BY <1>0, <1>2, <3>2 DEF Mapping
      <4> QED BY <1>1, <3>3, <4>1 DEF ReadOld, Old
    <3>5. HolesBegun BY <1>2, <3>4 DEF HolesBegun
    <3>6. CASE ~Reading(buf0, s)
      <4>1. dram[buf0][s] = Val(l0, s)
        BY <1>0, <1>1, <3>2, <3>3, <3>5, <3>6 DEF CallData, HolesFilled
      <4> QED BY <1>2, <1>7, <3>1, <3>6, <4>1 DEF Comes
    <3>7. CASE Reading(buf0, s)
      <4>1. PICK r \in Readers : r.buf = buf0 /\ s \in Span(r) BY <3>7 DEF Reading
      <4>2. At(r, l0)
        <5>1. Buf \in WriteBuffers /\ wroom.fc # "PROG" BY <1>0, <1>2, WriteBufferFacts, CommandFacts
        <5> QED BY <1>0, <1>1, <4>1, <5>1 DEF Readings, HoleReads
      <4>3. r = bsp[r.bank] /\ r.bank \in Banks /\ r # NoCmd
        <5>1. (r = wroom \/ r = bsp[r.bank]) /\ r \in Commands /\ r.bank \in Banks
          BY <1>0, PendingPlace
        <5> QED BY <1>2, <5>1, CommandFacts
      <4>4. r.bank = b0
        <5> SUFFICES ASSUME r.bank # b0 PROVE FALSE OBVIOUS
        <5>1. BankOf(Old) = r.bank BY <1>1, <4>2 DEF At, Old
        <5>2. BankIdle(BankOf(Old)) BY <1>1, <1>2, <3>4, <5>1 DEF OldDataRead
        <5> QED BY <4>3, <5>1, <5>2 DEF BankIdle
      <4>5. flash[b0][bsp[b0].row][s] = Val(l0, s)
        <5>1. bsp[b0] \in Readers /\ At(bsp[b0], l0) BY <4>2, <4>3, <4>4
        <5>2. wroom.fc # "PROG" BY <1>2, CommandFacts
        <5> QED BY <1>0, <1>2, <3>2, <5>1, <5>2, ReadsStored
      <4> QED BY <1>2, <1>7, <3>1, <3>7, <4>5 DEF Comes
    <3> QED BY <3>6, <3>7
  <2> QED BY <2>1, <2>2
<1>11. OnTheWay'
  <2> SUFFICES ASSUME NEW c \in Pending', NEW l \in LPages, NEW s \in Sectors,
                      At(c, l)', Val(l, s)' \in Written
               PROVE  Comes(c, l, s)'
    BY DEF OnTheWay
  <2>1. CASE c \in Pending BY <1>9, <2>1
  <2>2. CASE c = cmd
    <3>1. l = l0
      <4>1. \A x \in LPages : At(cmd, x)' => x = l0 BY <1>4, <1>5
      <4>2. \A x : At(c, x)' => At(cmd, x)' BY <2>2 DEF At
      <4> QED BY <4>1, <4>2
    <3>2. Comes(cmd, l0, s)'
      <4>1. \A x : x = l => (Val(x, s)' = Val(l, s)') OBVIOUS
      <4> QED BY <1>10, <3>1, <4>1
    <3>3. \A d, x : d = c /\ x = l /\ Comes(d, x, s)' => Comes(c, l, s)' OBVIOUS
    <3> QED BY <2>2, <3>1, <3>2, <3>3
  <2> QED BY <1>2, <2>1, <2>2
<1> QED BY <1>8, <1>11

\* ftl_write gives a page to its bank.
LEMMA FtlWritePageContents ==
  ASSUME Base, Contents, ftl_write_page
  PROVE  Contents'
<1>0. IInv /\ Order /\ Received BY DEF Base
<1>1. /\ op.call = "write" /\ ProgramPage(issued + 1) /\ issued \in Nat
      /\ ~Chosen' /\ op'.call # "copy"
  BY <1>0, FtlWriteFacts
<1>2. PICK page : page = issued + 1 OBVIOUS
<1>3. /\ page \in Nat /\ received \in Nat /\ page - issued = 1 /\ Buf = BufOf(page)
  BY <1>0, <1>1, <1>2, WindowFacts
<1>4. PICK w : w = Remaining[1] OBVIOUS
<1>5. /\ w.id = op.id /\ w.lpage = op.at.lpage /\ w.col = Left /\ w.cnt = Now(op.at)
      /\ Len(Remaining) \in Nat \ {0}
  BY <1>0, <1>1, <1>4, RemainingFacts
<1>6. page > received => wrPages[page - received] = w
  <2>1. page \in issued + 1 .. issued + Len(Remaining) BY <1>1, <1>2, <1>5
  <2> QED BY <1>0, <1>1, <1>3, <1>4, <2>1 DEF Order, HostData
<1>7. \A s : Arrives(page, s) <=> page > received /\ s \in Left .. Left + Now(op.at) - 1
  BY <1>5, <1>6 DEF Arrives
<1>8. \A l \in LPages, s \in Sectors :
        Val(l, s)' = IF l = op.at.lpage /\ s \in Left .. Left + Now(op.at) - 1
                     THEN <<op.id, l * SPP + s>> ELSE Val(l, s)
  BY <1>0, WriteValues
<1>9. ASSUME NEW l \in LPages, NEW s \in Sectors, l = op.at.lpage, s \in Left .. Left + Now(op.at) - 1
      PROVE  IF Arrives(page, s)
             THEN /\ Val(l, s)' = <<wrPages[page - received].id, l * SPP + s>>
                  /\ wrPages[page - received].lpage = l
             ELSE dram[Buf][s] = Val(l, s)'
  <2>1. PICK v : v = <<op.id, l * SPP + s>> OBVIOUS
  <2>2. Val(l, s)' = v BY <1>8, <1>9, <2>1
  <2>3. CASE page > received BY <1>5, <1>6, <1>7, <1>9, <2>1, <2>2, <2>3
  <2>4. CASE ~(page > received)
    <3>1. page \in issued + 1 .. received BY <1>1, <1>2, <1>3, <2>4
    <3>2. dram[BufOf(page)][s] = <<w.id, w.lpage * SPP + s>>
      BY <1>0, <1>1, <1>3, <1>4, <1>5, <1>9, <3>1 DEF Received
    <3> QED BY <1>3, <1>5, <1>7, <1>9, <2>1, <2>2, <2>4, <3>2
  <2> QED BY <2>3, <2>4
<1>10. StoredLatest' /\ OnTheWay'
  BY <1>1, <1>2, <1>3, <1>7, <1>8, <1>9, ProgramWay
<1>11. CallData' BY <1>1, NewCallData
<1> QED BY <1>10, <1>11 DEF Contents

\* issd_write_sectors gives a page to its bank.
LEMMA IssdWritePageContents ==
  ASSUME Base, Contents, issd_write_page
  PROVE  Contents'
<1>0. IInv /\ Order /\ CallData BY DEF Base, Contents
<1>1. /\ op.call = "copy" /\ op.pc = "prog" /\ ProgramPage(0)
      /\ op'.call = "copy" /\ op'.pc = "done" /\ op'.at = op.at
      /\ op'.src = op.src /\ op'.to = op.to /\ op'.old = op.old
      /\ ~Chosen' /\ ~HolesBegun'
  BY <1>0, IssdWriteFacts
<1>2. Chosen /\ Buf = ISSD_WR_BUF BY <1>1 DEF Chosen, Buf
<1>3. \A s : ~Arrives(0, s)
  <2>1. received \in Nat BY <1>0, WindowFacts
  <2> QED BY <2>1 DEF Arrives
<1>4. \A l \in LPages, s \in Sectors :
        Val(l, s)' = IF l = op.at.lpage /\ s \in Left .. Left + Now(op.at) - 1
                     THEN op.old[(l * SPP + s) - op.to] ELSE Val(l, s)
  BY <1>0, CopyValues
<1>5. ASSUME NEW l \in LPages, NEW s \in Sectors, l = op.at.lpage,
             s \in Left .. Left + Now(op.at) - 1, Val(l, s)' \in Written
      PROVE  dram[Buf][s] = Val(l, s)'
  <2>1. PICK v : v = op.old[(l * SPP + s) - op.to] OBVIOUS
  <2>2. Val(l, s)' = v BY <1>4, <1>5, <2>1
  <2>3. dram[ISSD_WR_BUF][s] = v
    BY <1>0, <1>1, <1>2, <1>5, <2>1, <2>2 DEF CallData, CopiedIn
  <2> QED BY <1>2, <2>2, <2>3
<1>6. StoredLatest' /\ OnTheWay'
  <2>1. op.call \in {"write", "copy"} /\ 0 \in Nat BY <1>1
  <2> QED BY <1>1, <1>3, <1>4, <1>5, <2>1, ProgramWay
<1>7. UNCHANGED dram BY <1>1 DEF ProgramPage
<1>8. HolesFilled' /\ CopiedIn' /\ CopyRead'
  BY <1>1 DEF HolesFilled, CopiedIn, CopyRead
<1>9. CopyComputed' BY <1>0, <1>1, <1>7, SameComputed DEF CallData
<1> QED BY <1>6, <1>8, <1>9 DEF Contents, CallData

\* A fresh device: nothing is written.
LEMMA InitContents == Init => Contents
<1> SUFFICES ASSUME Init PROVE Contents OBVIOUS
<1>1. /\ wroom = NoCmd /\ bsp = [b \in Banks |-> NoCmd] /\ op = [call |-> "none"]
      /\ page_map = [l \in LPages |-> NULL]
  BY DEF Init, FlashInit
<1>2. Pending = {} BY <1>1, CommandFacts DEF Pending, UnderWay
<1>3. StoredLatest
  <2>1. \A l \in LPages, s \in Sectors : Stored(l, s) BY <1>1 DEF Stored
  <2> QED BY <2>1, StoredMeans
<1>4. OnTheWay BY <1>2 DEF OnTheWay
<1>5. CallData
  BY <1>1 DEF CallData, HolesFilled, HolesBegun, Chosen, CopiedIn, CopyRead, CopyComputed
<1> QED BY <1>3, <1>4, <1>5 DEF Contents

\* Every step keeps the contents.
LEMMA NextContents == Base /\ Contents /\ [Next]_vars => Contents'
<1> SUFFICES ASSUME Base, Contents, [Next]_vars PROVE Contents' OBVIOUS
<1>1. CASE HostReceives \/ UNCHANGED vars
  <2>0. IInv /\ StoredLatest /\ OnTheWay /\ CallData BY DEF Base, Contents
  <2>1. UNCHANGED <<wroom, bsp, flash, dram, op, page_map, latest, received, wrPages, g_ftl_write_buf_id>>
    BY <1>1 DEF HostReceives, vars, flashVars, ftlVars, sataVars
  <2>2. Readers' = Readers BY <2>1 DEF Readers, UnderWay
  <2>3. StoredLatest' /\ OnTheWay' BY <2>0, <2>1, WaySame
  <2>4. CallData' BY <2>0, <2>1, <2>2, CallDataSteady
  <2> QED BY <2>3, <2>4 DEF Contents
<1>2. CASE HostSends
  <2>1. StoredLatest' /\ OnTheWay' BY <1>2, HostSendsWay DEF Contents
  <2>2. CallData' BY <1>2, HostSendsCall DEF Contents
  <2> QED BY <2>1, <2>2 DEF Contents
<1>3. ASSUME NEW b \in Banks, BankCompletes(b) PROVE Contents'
  BY <1>3, BankCompletesWay, BankCompletesCall DEF Contents
<1>4. CASE hardware BY <1>1, <1>2, <1>3, <1>4, BankAcceptsContents DEF hardware
<1>5. CASE ftl_write
  BY <1>5, StartPageContents, ReadHoleContents, FtlWritePageContents DEF ftl_write
<1>6. CASE issd_copy
  BY <1>6, CopyReadContents, CopyMovesContents, ReadDoneContents, IssdWritePageContents DEF issd_copy
<1> QED BY <1>1, <1>4, <1>5, <1>6, BeginContents, FtlReadContents DEF Next

-----------------------------------------------------------------------------
(* Stored data *)

\* What is on its way is in order, and everything the invariants say of it.
LEMMA InitBase == Init => Base
BY InitIInv, InitOrder, InitReadings, InitMapping, InitReceived DEF Base

\* Every step keeps the order and the readings.
LEMMA NextBase == Base /\ [Next]_vars => Base'
BY NextIInv, NextOrder, NextReadings, NextMapping, NextReceived DEF Base

\* Once its program command has finished, a page of the flash holds what was last
\* written to each sector of the logical page that is mapped to it, whatever order the
\* banks, the host's data and the reads of old data come in (StoredLatest).
THEOREM AlwaysStoresLatest == Spec => []StoredLatest
<1>1. Init => Base /\ Contents BY InitBase, InitContents
<1>2. Base /\ Contents /\ [Next]_vars => Base' /\ Contents' BY NextBase, NextContents
<1>3. Base /\ Contents => StoredLatest BY DEF Contents
<1> QED BY <1>1, <1>2, <1>3, PTL DEF Spec

-----------------------------------------------------------------------------
(* Data on its way to the host *)

(* A page of read data for the host, its buffer and what it should hold.   *)
RdEntries == [buf : ReadBuffers, col : Nat, cnt : Nat, ready : BOOLEAN, mapped : BOOLEAN,
              want : [Sectors -> Data]]
Wanted(e) == e.col .. e.col + e.cnt - 1
Entries == {rdPages[i] : i \in 1 .. Len(rdPages)}

(* The read buffers are used in a circle that the host never falls behind. *)
RdSlots ==
  /\ rdPages \in Seq(RdEntries)
  /\ \E z \in Nat :
       /\ Len(rdPages) <= z /\ Len(rdPages) < NUM_RD_BUFFERS
       /\ g_ftl_read_buf_id = z % NUM_RD_BUFFERS
       /\ \A i \in 1 .. Len(rdPages) :
            rdPages[i].buf = RD_BUF((z - Len(rdPages) + i - 1) % NUM_RD_BUFFERS)

(* The read command of an entry waits in the Waiting Room: the firmware has *)
(* issued nothing since...                                                 *)
RoomReads(e) ==
  wroom \in Readers /\ wroom.buf = e.buf =>
    /\ ~e.ready /\ Span(wroom) = Wanted(e)
    /\ \E l \in LPages : At(wroom, l) /\ \A s \in Sectors : e.want[s] = Val(l, s)

(* ... or its bank executes it: the page has been programmed before.       *)
BankReads(e) ==
  \A b \in Banks : bsp[b] \in Readers /\ bsp[b].buf = e.buf =>
    /\ ~e.ready /\ Span(bsp[b]) = Wanted(e)
    /\ \A s \in Sectors : s \in Wanted(e) /\ e.want[s] \in Written =>
         flash[b][bsp[b].row][s] = e.want[s]

EntryReads(e) ==
  /\ ~e.ready => e.mapped
  /\ \A s \in Sectors : e.want[s] \in Written \cup {Erased}
  /\ \A s \in Wanted(e) : s \in Sectors
  /\ e.ready => \A s \in Wanted(e) : dram[e.buf][s] = e.want[s] \/ (e.want[s] = Erased /\ e.mapped)
  /\ RoomReads(e) /\ BankReads(e)

(* Every read command for the host has its entry, and its buffer to itself. *)
ReadersApart ==
  /\ \A r \in Readers : r.buf \in ReadBuffers => \E e \in Entries : e.buf = r.buf
  /\ \A b \in Banks : bsp[b] \in Readers /\ bsp[b].buf \in ReadBuffers =>
       /\ wroom \in Readers => wroom.buf # bsp[b].buf
       /\ \A x \in Banks : x # b /\ bsp[x] \in Readers => bsp[x].buf # bsp[b].buf

HostReads == RdSlots /\ ReadersApart /\ \A e \in Entries : EntryReads(e)

\* Each entry has a buffer of its own, and the next one's is nobody's.
LEMMA SlotFacts ==
  ASSUME RdSlots
  PROVE  /\ \A e \in Entries : e \in RdEntries
         /\ \A d, e \in Entries : d.buf = e.buf => d = e
         /\ \A e \in Entries : e.buf # RD_BUF(g_ftl_read_buf_id)
         /\ \A i \in 1 .. Len(rdPages) : rdPages[i] \in Entries
         /\ Len(rdPages) \in Nat /\ Len(rdPages) < NUM_RD_BUFFERS
<1>0. NUM_RD_BUFFERS \in Nat \ {0} BY GeometryFacts
<1>1. rdPages \in Seq(RdEntries) /\ Len(rdPages) \in Nat BY DEF RdSlots
<1>2. PICK z \in Nat :
        /\ Len(rdPages) <= z /\ Len(rdPages) < NUM_RD_BUFFERS
        /\ g_ftl_read_buf_id = z % NUM_RD_BUFFERS
        /\ \A i \in 1 .. Len(rdPages) :
             rdPages[i].buf = RD_BUF((z - Len(rdPages) + i - 1) % NUM_RD_BUFFERS)
  BY DEF RdSlots
<1>3. PICK n, N : n = Len(rdPages) /\ N = NUM_RD_BUFFERS OBVIOUS
<1>4. n \in Nat /\ N \in Nat \ {0} /\ n <= z /\ n < N BY <1>0, <1>1, <1>2, <1>3
<1>5. ASSUME NEW i \in 1 .. n, NEW j \in 1 .. n, i < j PROVE rdPages[i].buf # rdPages[j].buf
  <2>1. PICK a, b : a = z - n + i - 1 /\ b = z - n + j - 1 OBVIOUS
  <2>2. a \in Int /\ b \in Int /\ a < b /\ b < a + N BY <1>4, <1>5, <2>1
  <2>3. a % N # b % N BY <1>4, <2>2, SlotsDiffer
  <2>4. rdPages[i].buf = RD_BUF(a % N) /\ rdPages[j].buf = RD_BUF(b % N) BY <1>2, <1>3, <2>1
  <2> QED BY <2>3, <2>4, BuffersApart
<1>6. ASSUME NEW i \in 1 .. n PROVE rdPages[i].buf # RD_BUF(g_ftl_read_buf_id)
  <2>1. PICK a : a = z - n + i - 1 OBVIOUS
  <2>2. a \in Int /\ z \in Int /\ a < z /\ z < a + N BY <1>4, <2>1
  <2>3. a % N # z % N BY <1>4, <2>2, SlotsDiffer
  <2>4. rdPages[i].buf = RD_BUF(a % N) BY <1>2, <1>3, <2>1
  <2> QED BY <1>2, <1>3, <2>3, <2>4, BuffersApart
<1>7. \A d, e \in Entries : d.buf = e.buf => d = e
  <2> SUFFICES ASSUME NEW i \in 1 .. n, NEW j \in 1 .. n, rdPages[i].buf = rdPages[j].buf
               PROVE  rdPages[i] = rdPages[j]
    BY <1>3 DEF Entries
  <2>1. i = j \/ i < j \/ j < i BY <1>4
  <2> QED BY <1>5, <2>1
<1> QED BY <1>1, <1>2, <1>3, <1>6, <1>7 DEF Entries

\* The host has taken the first page of its read data.
LEMMA ReceivesSlots ==
  ASSUME RdSlots, HostReceives
  PROVE  /\ RdSlots' /\ Entries' \subseteq Entries
         /\ \A e \in Entries : e \in Entries' \/ e.ready
<1>1. /\ rdPages # << >> /\ Head(rdPages).ready /\ rdPages' = Tail(rdPages)
      /\ UNCHANGED g_ftl_read_buf_id
  BY DEF HostReceives, ftlVars
<1>2. rdPages \in Seq(RdEntries) BY DEF RdSlots
<1>3. PICK n : n = Len(rdPages) OBVIOUS
<1>4. /\ n \in Nat \ {0} /\ rdPages' \in Seq(RdEntries) /\ Len(rdPages') = n - 1
      /\ \A i \in 1 .. n - 1 : rdPages'[i] = rdPages[i + 1]
      /\ rdPages[1].ready
  BY <1>1, <1>2, <1>3, HeadTailProperties
<1>5. PICK z \in Nat :
        /\ n <= z /\ n < NUM_RD_BUFFERS
        /\ g_ftl_read_buf_id = z % NUM_RD_BUFFERS
        /\ \A i \in 1 .. n : rdPages[i].buf = RD_BUF((z - n + i - 1) % NUM_RD_BUFFERS)
  BY <1>3 DEF RdSlots
<1>6. RdSlots'
  <2>1. n - 1 <= z /\ n - 1 < NUM_RD_BUFFERS BY <1>4, <1>5, GeometryFacts
  <2>2. ASSUME NEW i \in 1 .. n - 1
        PROVE  rdPages'[i].buf = RD_BUF((z - (n - 1) + i - 1) % NUM_RD_BUFFERS)
    <3>1. i + 1 \in 1 .. n /\ z - n + (i + 1) - 1 = z - (n - 1) + i - 1 BY <1>4
    <3>2. rdPages[i + 1].buf = RD_BUF((z - n + (i + 1) - 1) % NUM_RD_BUFFERS) BY <1>5, <3>1
    <3> QED BY <1>4, <3>1, <3>2
  <2> QED BY <1>1, <1>4, <1>5, <2>1, <2>2 DEF RdSlots
<1>7. Entries' \subseteq Entries /\ \A e \in Entries : e \in Entries' \/ e.ready
  <2>1. Entries' = {rdPages'[i] : i \in 1 .. n - 1} BY <1>4 DEF Entries
  <2>2. Entries = {rdPages[i] : i \in 1 .. n} BY <1>3 DEF Entries
  <2>3. \A i \in 1 .. n - 1 : i + 1 \in 1 .. n BY <1>4
  <2>4. \A i \in 1 .. n : i = 1 \/ (i - 1 \in 1 .. n - 1 /\ (i - 1) + 1 = i) BY <1>4
  <2>5. ASSUME NEW i \in 1 .. n PROVE rdPages[i] \in Entries' \/ rdPages[i].ready
    <3>1. CASE i = 1 BY <1>4, <3>1
    <3>2. CASE i - 1 \in 1 .. n - 1 /\ (i - 1) + 1 = i
      <4>1. rdPages'[i - 1] = rdPages[i] BY <1>4, <3>2
      <4> QED BY <2>1, <3>2, <4>1
    <3> QED BY <2>4, <3>1, <3>2
  <2> QED BY <1>4, <2>1, <2>2, <2>3, <2>5
<1> QED BY <1>6, <1>7

\* An entry that becomes ready.
LEMMA EntryReady ==
  ASSUME NEW e \in RdEntries, NEW x \in BOOLEAN
  PROVE  /\ [e EXCEPT !.ready = x] \in RdEntries
         /\ [e EXCEPT !.ready = x].ready = x
         /\ [e EXCEPT !.ready = x].buf = e.buf /\ [e EXCEPT !.ready = x].mapped = e.mapped
         /\ [e EXCEPT !.ready = x].col = e.col /\ [e EXCEPT !.ready = x].cnt = e.cnt
         /\ [e EXCEPT !.ready = x].want = e.want
BY DEF RdEntries

\* A bank makes its buffer ready for the host.
LEMMA CompletesSlots ==
  ASSUME RdSlots, NEW b \in Banks, BankCompletes(b)
  PROVE  /\ RdSlots'
         /\ \A e \in Entries : \E d \in Entries' : d.buf = e.buf
         /\ \A d \in Entries' : \E e \in Entries :
              /\ d.buf = e.buf /\ d.mapped = e.mapped /\ d.col = e.col /\ d.cnt = e.cnt
              /\ d.want = e.want
              /\ d.ready <=> e.ready \/ bsp[b].buf = e.buf
<1>1. PICK n : n = Len(rdPages) OBVIOUS
<1>2. rdPages \in Seq(RdEntries) /\ n \in Nat BY <1>1 DEF RdSlots
<1> DEFINE x(i) == rdPages[i].ready \/ bsp[b].buf = rdPages[i].buf
           new(i) == [rdPages[i] EXCEPT !.ready = x(i)]
<1>3. rdPages' = [i \in 1 .. n |-> new(i)] /\ UNCHANGED g_ftl_read_buf_id
  BY <1>1 DEF BankCompletes, ftlVars
<1>4. ASSUME NEW i \in 1 .. n
      PROVE  /\ new(i) \in RdEntries /\ new(i).buf = rdPages[i].buf
             /\ new(i).mapped = rdPages[i].mapped /\ new(i).col = rdPages[i].col
             /\ new(i).cnt = rdPages[i].cnt /\ new(i).want = rdPages[i].want
             /\ new(i).ready <=> x(i)
  <2>1. rdPages[i] \in RdEntries BY <1>1, <1>2, ElementOfSeq
  <2>2. PICK e \in RdEntries : e = rdPages[i] BY <2>1
  <2>3. PICK y \in BOOLEAN : y = x(i) OBVIOUS
  <2>4. new(i) = [e EXCEPT !.ready = y] BY <2>2, <2>3
  <2> HIDE DEF new, x
  <2> QED BY <2>2, <2>3, <2>4, EntryReady
<1> HIDE DEF new
<1>5. rdPages' \in Seq(RdEntries) /\ Len(rdPages') = n /\ \A i \in 1 .. n : rdPages'[i] = new(i)
  BY <1>2, <1>3, <1>4
<1>6. RdSlots'
  <2>1. PICK z \in Nat :
          /\ n <= z /\ n < NUM_RD_BUFFERS
          /\ g_ftl_read_buf_id = z % NUM_RD_BUFFERS
          /\ \A i \in 1 .. n : rdPages[i].buf = RD_BUF((z - n + i - 1) % NUM_RD_BUFFERS)
    BY <1>1 DEF RdSlots
  <2>2. \A i \in 1 .. n : rdPages'[i].buf = rdPages[i].buf BY <1>4, <1>5
  <2>3. g_ftl_read_buf_id' = g_ftl_read_buf_id BY <1>3
  <2>4. /\ rdPages' \in Seq(RdEntries) /\ Len(rdPages') = n
        /\ \A i \in 1 .. n : rdPages'[i].buf = RD_BUF((z - n + i - 1) % NUM_RD_BUFFERS)
    BY <1>5, <2>1, <2>2
  <2> QED BY <2>1, <2>3, <2>4 DEF RdSlots
<1>7. Entries = {rdPages[i] : i \in 1 .. n} /\ Entries' = {rdPages'[i] : i \in 1 .. n}
  BY <1>1, <1>5 DEF Entries
<1>8. ASSUME NEW i \in 1 .. n
      PROVE  /\ rdPages[i] \in Entries /\ rdPages'[i] \in Entries' /\ rdPages'[i].buf = rdPages[i].buf
             /\ rdPages'[i].mapped = rdPages[i].mapped /\ rdPages'[i].col = rdPages[i].col
             /\ rdPages'[i].cnt = rdPages[i].cnt /\ rdPages'[i].want = rdPages[i].want
             /\ rdPages'[i].ready <=> rdPages[i].ready \/ bsp[b].buf = rdPages[i].buf
  BY <1>4, <1>5, <1>7
<1>9. \A e \in Entries : \E d \in Entries' : d.buf = e.buf BY <1>7, <1>8
<1>10. \A d \in Entries' : \E e \in Entries :
         /\ d.buf = e.buf /\ d.mapped = e.mapped /\ d.col = e.col /\ d.cnt = e.cnt
         /\ d.want = e.want
         /\ d.ready <=> e.ready \/ bsp[b].buf = e.buf
  <2> SUFFICES ASSUME NEW i \in 1 .. n
               PROVE  \E e \in Entries :
                        /\ rdPages'[i].buf = e.buf /\ rdPages'[i].mapped = e.mapped
                        /\ rdPages'[i].col = e.col /\ rdPages'[i].cnt = e.cnt
                        /\ rdPages'[i].want = e.want
                        /\ rdPages'[i].ready <=> e.ready \/ bsp[b].buf = e.buf
    BY <1>7
  <2> QED BY <1>8
<1> QED BY <1>6, <1>9, <1>10

\* ftl_read takes the next buffer for a page.
LEMMA ReadPageSlots ==
  ASSUME Types, RdSlots, NEW ready \in BOOLEAN, ReadPage(ready), op.call = "read"
  PROVE  /\ RdSlots'
         /\ \E e \in RdEntries :
              /\ Entries' = Entries \cup {e}
              /\ e.buf = RD_BUF(g_ftl_read_buf_id) /\ e.col = op.at.off /\ e.cnt = Now(op.at)
              /\ (e.ready <=> ready) /\ (e.mapped <=> page_map[op.at.lpage] # NULL)
              /\ \A s \in Sectors : e.want[s] = Val(op.at.lpage, s)
<1>0. op.at.remain > 0 BY CallFacts DEF Types
<1>1. /\ op.at.lpage \in LPages /\ op.at.off \in Nat /\ Now(op.at) \in Nat
      /\ RD_BUF(g_ftl_read_buf_id) \in ReadBuffers /\ NUM_RD_BUFFERS \in Nat \ {0}
  <2>1. op.at.lpage \in LPages /\ op.at.off \in Nat /\ Now(op.at) \in Nat
    BY <1>0, PageFacts DEF Left
  <2>2. g_ftl_read_buf_id \in 0 .. NUM_RD_BUFFERS - 1 BY DEF Types, FtlTypes
  <2>3. RD_BUF(g_ftl_read_buf_id) \in ReadBuffers BY <2>2 DEF ReadBuffers
  <2>4. NUM_RD_BUFFERS \in Nat \ {0} BY GeometryFacts
  <2> QED BY <2>1, <2>3, <2>4
<1> DEFINE m == page_map[op.at.lpage] # NULL
           want == [s \in Sectors |-> latest[op.at.lpage * SPP + s]]
<1>2. PICK mapped \in BOOLEAN : mapped = m OBVIOUS
<1>3. \A s \in Sectors : want[s] = Val(op.at.lpage, s) BY DEF Val
<1>4. want \in [Sectors -> Data]
  <2>1. \A s \in Sectors : op.at.lpage * SPP + s \in LSectors BY <1>1, SectorFacts
  <2> QED BY <2>1 DEF Types, FtlTypes
<1> DEFINE e == [buf |-> RD_BUF(g_ftl_read_buf_id), col |-> op.at.off, cnt |-> Now(op.at),
                 ready |-> ready, mapped |-> mapped, want |-> want]
<1>5. /\ Len(rdPages) < NUM_RD_BUFFERS - 1 /\ rdPages' = Append(rdPages, e)
      /\ g_ftl_read_buf_id' = (g_ftl_read_buf_id + 1) % NUM_RD_BUFFERS
  BY <1>2 DEF ReadPage, ReadBufferFree, SPP
<1> HIDE DEF want
<1>6. /\ e \in RdEntries /\ e.buf = RD_BUF(g_ftl_read_buf_id) /\ e.col = op.at.off
      /\ e.cnt = Now(op.at) /\ (e.ready <=> ready) /\ (e.mapped <=> mapped) /\ e.want = want
  BY <1>1, <1>4 DEF RdEntries
<1> HIDE DEF e, m
<1>7. PICK n, N : n = Len(rdPages) /\ N = NUM_RD_BUFFERS OBVIOUS
<1>8. rdPages \in Seq(RdEntries) /\ n \in Nat /\ N \in Nat \ {0} /\ n < N - 1 BY <1>1, <1>5, <1>7 DEF RdSlots
<1>9. /\ rdPages' \in Seq(RdEntries) /\ Len(rdPages') = n + 1 /\ rdPages'[n + 1] = e
      /\ \A i \in 1 .. n : rdPages'[i] = rdPages[i]
  BY <1>5, <1>6, <1>7, <1>8, AppendProperties
<1>10. RdSlots'
  <2>1. PICK z \in Nat :
          /\ n <= z /\ g_ftl_read_buf_id = z % N
          /\ \A i \in 1 .. n : rdPages[i].buf = RD_BUF((z - n + i - 1) % N)
    BY <1>7 DEF RdSlots
  <2>2. PICK y : y = z + 1 OBVIOUS
  <2>3. y \in Nat /\ n + 1 <= y /\ n + 1 < N BY <1>8, <2>1, <2>2
  <2>4. g_ftl_read_buf_id' = y % N
    <3>1. z \in Int OBVIOUS
    <3> QED BY <1>5, <1>7, <1>8, <2>1, <2>2, <3>1, NextSlot
  <2>5. ASSUME NEW i \in 1 .. n + 1
        PROVE  rdPages'[i].buf = RD_BUF((y - (n + 1) + i - 1) % N)
    <3>1. y - (n + 1) + i - 1 = z - n + i - 1 BY <1>8, <2>2
    <3>2. CASE i \in 1 .. n BY <1>9, <2>1, <3>1, <3>2
    <3>3. CASE i = n + 1
      <4>1. z - n + i - 1 = z BY <1>8, <3>3
      <4>2. rdPages'[i] = e BY <1>9, <3>3
      <4>3. rdPages'[i].buf = RD_BUF(z % N) BY <1>6, <2>1, <4>2
      <4> QED BY <3>1, <4>1, <4>3
    <3> QED BY <1>8, <3>2, <3>3
  <2> QED BY <1>7, <1>9, <2>3, <2>4, <2>5 DEF RdSlots
<1>11. Entries' = Entries \cup {e}
  <2>1. Entries = {rdPages[i] : i \in 1 .. n} /\ Entries' = {rdPages'[i] : i \in 1 .. n + 1}
    BY <1>7, <1>9 DEF Entries
  <2>2. \A i \in 1 .. n + 1 : i \in 1 .. n \/ i = n + 1 BY <1>8
  <2>3. n + 1 \in 1 .. n + 1 /\ \A i \in 1 .. n : i \in 1 .. n + 1 BY <1>8
  <2>4. Entries' \subseteq Entries \cup {e} BY <1>9, <2>1, <2>2
  <2>5. Entries \cup {e} \subseteq Entries'
    <3>1. \A i \in 1 .. n : rdPages[i] \in Entries' BY <1>9, <2>1, <2>3
    <3>2. e \in Entries' BY <1>9, <2>1, <2>3
    <3> QED BY <2>1, <3>1, <3>2
  <2> QED BY <2>4, <2>5
<1>12. (e.mapped <=> page_map[op.at.lpage] # NULL) /\ \A s \in Sectors : e.want[s] = Val(op.at.lpage, s)
  BY <1>2, <1>3, <1>6 DEF m
<1> QED BY <1>6, <1>10, <1>11, <1>12

\* Read buffers are no write buffers.
LEMMA ReadBufferFacts ==
  ASSUME Types
  PROVE  /\ \A buf \in ReadBuffers : buf \in Buffers /\ buf \notin WriteBuffers
         /\ RD_BUF(g_ftl_read_buf_id) \in ReadBuffers
         /\ \A e \in RdEntries : e.buf \in ReadBuffers
         /\ \A p : COMP(p) \notin ReadBuffers
<1>1. \A i \in 0 .. NUM_RD_BUFFERS - 1 : RD_BUF(i) \in Buffers BY BufferFacts
<1>2. \A i : RD_BUF(i) \notin WriteBuffers BY WriteBufferFacts
<1>3. g_ftl_read_buf_id \in 0 .. NUM_RD_BUFFERS - 1 BY DEF Types, FtlTypes
<1>4. \A i, p : RD_BUF(i) # COMP(p) BY BuffersApart
<1> QED BY <1>1, <1>2, <1>3, <1>4 DEF ReadBuffers, RdEntries

\* The commands of the Waiting Room and the banks, and the read commands of both.
LEMMA ReadersAre ==
  /\ wroom \in Readers <=> wroom.fc = "READ"
  /\ \A b \in Banks : bsp[b] \in Readers <=> bsp[b].fc = "READ"
  /\ \A r \in Readers : r.fc = "READ" /\ (r = wroom \/ \E b \in Banks : r = bsp[b])
  /\ wroom' \in Readers' <=> wroom'.fc = "READ"
  /\ \A b \in Banks : bsp'[b] \in Readers' <=> bsp'[b].fc = "READ"
  /\ \A r \in Readers' : r.fc = "READ" /\ (r = wroom' \/ \E b \in Banks : r = bsp'[b])
BY DEF Readers, UnderWay

\* A step that leaves the entries, the banks and the read buffers alone, and issues no
\* read command for the host.
LEMMA ReadsSteady ==
  ASSUME Types, HostReads, UNCHANGED <<bsp, flash, rdPages, g_ftl_read_buf_id>>,
         \A buf \in ReadBuffers, s \in Sectors : dram'[buf][s] = dram[buf][s],
         wroom'.fc = "READ" /\ wroom'.buf \in ReadBuffers => UNCHANGED <<wroom, page_map, latest>>
  PROVE  HostReads'
<1>1. RdSlots' BY DEF HostReads, RdSlots
<1>2. Entries' = Entries BY DEF Entries
<1>3. \A e \in Entries : e \in RdEntries /\ e.buf \in ReadBuffers
  BY SlotFacts, ReadBufferFacts DEF HostReads
<1>4. ReadersApart'
  <2>1. ASSUME NEW r \in Readers', r.buf \in ReadBuffers PROVE \E e \in Entries' : e.buf = r.buf
    <3>1. r \in Readers BY <2>1, ReadersAre
    <3> QED BY <1>2, <2>1, <3>1 DEF HostReads, ReadersApart
  <2>2. ASSUME NEW b \in Banks, bsp'[b] \in Readers', bsp'[b].buf \in ReadBuffers
        PROVE  /\ wroom' \in Readers' => wroom'.buf # bsp'[b].buf
               /\ \A x \in Banks : x # b /\ bsp'[x] \in Readers' => bsp'[x].buf # bsp'[b].buf
    <3>1. bsp[b] \in Readers /\ bsp[b].buf \in ReadBuffers BY <2>2, ReadersAre
    <3>2. /\ wroom \in Readers => wroom.buf # bsp[b].buf
          /\ \A x \in Banks : x # b /\ bsp[x] \in Readers => bsp[x].buf # bsp[b].buf
      BY <3>1 DEF HostReads, ReadersApart
    <3>3. \A x \in Banks : bsp'[x] \in Readers' => bsp[x] \in Readers BY ReadersAre
    <3>4. wroom' \in Readers' /\ wroom'.buf = bsp[b].buf => wroom \in Readers /\ wroom = wroom'
      BY <3>1, ReadersAre
    <3> QED BY <3>2, <3>3, <3>4
  <2> QED BY <2>1, <2>2 DEF ReadersApart, ReadBuffers
<1>5. ASSUME NEW e \in Entries PROVE EntryReads(e)'
  <2>1. EntryReads(e) BY DEF HostReads
  <2>2. e.buf \in ReadBuffers BY <1>3
  <2>3. RoomReads(e)'
    <3>1. CASE wroom' \in Readers' /\ wroom'.buf = e.buf
      <4>1. UNCHANGED <<wroom, page_map, latest>> /\ wroom \in Readers BY <2>2, <3>1, ReadersAre
      <4>2. RoomReads(e) BY <2>1 DEF EntryReads
      <4> QED BY <3>1, <4>1, <4>2 DEF RoomReads, Val, At
    <3> QED BY <3>1 DEF RoomReads
  <2>4. BankReads(e)'
    <3>1. BankReads(e) BY <2>1 DEF EntryReads
    <3>2. \A b \in Banks : bsp'[b] \in Readers' => bsp[b] \in Readers BY ReadersAre
    <3> QED BY <3>1, <3>2 DEF BankReads
  <2>5. e.ready => \A s \in Wanted(e) : dram'[e.buf][s] = e.want[s] \/ (e.want[s] = Erased /\ e.mapped)
    BY <2>1, <2>2 DEF EntryReads
  <2> QED BY <2>1, <2>3, <2>4, <2>5 DEF EntryReads, Wanted
<1> QED BY <1>1, <1>2, <1>4, <1>5 DEF HostReads

\* The host takes a page that is ready: its read command has finished long since.
LEMMA HostReceivesReads ==
  ASSUME Types, HostReads, HostReceives
  PROVE  HostReads'
<1>1. UNCHANGED <<wroom, bsp, flash, dram, page_map, latest>>
  BY DEF HostReceives, flashVars, ftlVars
<1>2. /\ RdSlots' /\ Entries' \subseteq Entries
      /\ \A e \in Entries : e \in Entries' \/ e.ready
  BY ReceivesSlots DEF HostReads
<1>3. Readers' = Readers BY <1>1 DEF Readers, UnderWay
<1>4. ReadersApart'
  <2>1. ASSUME NEW r \in Readers, r.buf \in ReadBuffers PROVE \E e \in Entries' : e.buf = r.buf
    <3>1. PICK e \in Entries : e.buf = r.buf BY <2>1 DEF HostReads, ReadersApart
    <3>2. RoomReads(e) /\ BankReads(e) BY DEF HostReads, EntryReads
    <3>3. r = wroom \/ \E b \in Banks : r = bsp[b] BY ReadersAre
    <3>4. ~e.ready BY <3>1, <3>2, <3>3 DEF RoomReads, BankReads
    <3> QED BY <1>2, <3>1, <3>4
  <2> QED BY <1>1, <1>3, <2>1 DEF HostReads, ReadersApart, ReadBuffers
<1>5. ASSUME NEW e \in Entries' PROVE EntryReads(e)'
  <2>1. EntryReads(e) BY <1>2 DEF HostReads
  <2> QED BY <1>1, <1>3, <2>1 DEF EntryReads, RoomReads, BankReads, At, Val, Wanted
<1> QED BY <1>2, <1>4, <1>5 DEF HostReads

\* The bank takes the read command: the page is in the flash.
LEMMA BankAcceptsReads ==
  ASSUME Base, Contents, HostReads, BankAccepts
  PROVE  HostReads'
<1>0. IInv /\ FlashTypes /\ Types /\ StoredLatest BY DEF Base, Contents, IInv, Types
<1>1. /\ wroom \in Commands /\ wroom.bank \in Banks /\ wroom' = NoCmd
      /\ bsp[wroom.bank] = NoCmd /\ bsp'[wroom.bank] = wroom
      /\ \A b \in Banks : b # wroom.bank => bsp'[b] = bsp[b]
      /\ Pending' = Pending /\ Readers' = Readers
      /\ UNCHANGED <<flash, dram, page_map, latest, rdPages, g_ftl_read_buf_id>>
  BY <1>0, AcceptMoves, CommandFacts DEF BankAccepts, ftlVars, sataVars
<1>2. RdSlots' /\ Entries' = Entries BY <1>1 DEF HostReads, RdSlots, Entries
<1>3. PICK c \in Commands : c = wroom BY <1>1
<1>4. wroom' \notin Readers BY <1>1, CommandFacts DEF Readers
<1>5. ReadersApart'
  <2>1. \A r \in Readers : r.buf \in ReadBuffers => \E e \in Entries' : e.buf = r.buf
    BY <1>2 DEF HostReads, ReadersApart
  <2>2. ASSUME NEW b \in Banks, NEW x \in Banks, bsp'[b] \in Readers, bsp'[b].buf \in ReadBuffers,
               x # b, bsp'[x] \in Readers, bsp'[x].buf = bsp'[b].buf
        PROVE  FALSE
    <3>1. CASE b = c.bank
      <4>1. /\ bsp'[b] = wroom /\ bsp[x] \in Readers /\ bsp[x].buf \in ReadBuffers
            /\ wroom \in Readers /\ wroom.buf = bsp[x].buf
        BY <1>1, <1>3, <2>2, <3>1
      <4> QED BY <4>1 DEF HostReads, ReadersApart
    <3>2. CASE x = c.bank
      <4>1. /\ bsp'[x] = wroom /\ bsp[b] \in Readers /\ bsp[b].buf \in ReadBuffers
            /\ wroom \in Readers /\ wroom.buf = bsp[b].buf
        BY <1>1, <1>3, <2>2, <3>2
      <4> QED BY <4>1 DEF HostReads, ReadersApart
    <3>3. CASE b # c.bank /\ x # c.bank
      <4>1. bsp'[b] = bsp[b] /\ bsp'[x] = bsp[x] BY <1>1, <1>3, <3>3
      <4> QED BY <2>2, <4>1 DEF HostReads, ReadersApart
    <3> QED BY <3>1, <3>2, <3>3
  <2> QED BY <1>1, <1>4, <2>1, <2>2 DEF ReadersApart, ReadBuffers
<1>6. ASSUME NEW e \in Entries PROVE EntryReads(e)'
  <2>1. EntryReads(e) BY DEF HostReads
  <2>2. RoomReads(e)' BY <1>1, <1>4 DEF RoomReads
  <2>3. ASSUME c \in Readers, c.buf = e.buf
        PROVE  /\ ~e.ready /\ Span(c) = Wanted(e)
               /\ \A s \in Sectors : s \in Wanted(e) /\ e.want[s] \in Written =>
                    flash[c.bank][c.row][s] = e.want[s]
    <3>1. PICK l \in LPages : At(c, l) /\ \A s \in Sectors : e.want[s] = Val(l, s)
      BY <1>3, <2>1, <2>3 DEF EntryReads, RoomReads
    <3>2. \A d \in Pending : ~At(d, l)
      <4> SUFFICES ASSUME NEW d \in Pending, At(d, l) PROVE FALSE OBVIOUS
      <4>1. d.bank = c.bank BY <3>1 DEF At
      <4>2. d.fc = "PROG" /\ (d = wroom \/ d = bsp[d.bank]) BY <1>0, PendingPlace
      <4>3. c.fc = "READ" BY <2>3 DEF Readers
      <4>4. d = NoCmd BY <1>1, <1>3, <4>1, <4>2, <4>3
      <4> QED BY <4>2, <4>4, CommandFacts
    <3>3. /\ page_map[l] # NULL /\ c.bank = BankOf(page_map[l]) /\ c.row = RowOf(page_map[l])
      BY <3>1 DEF At
    <3>4. \A s \in Sectors : Stored(l, s) BY <1>0, StoredMeans
    <3>5. \A s \in Sectors : e.want[s] \in Written => flash[c.bank][c.row][s] = e.want[s]
      BY <3>1, <3>2, <3>3, <3>4 DEF Stored
    <3>6. ~e.ready /\ Span(c) = Wanted(e) BY <1>3, <2>1, <2>3 DEF EntryReads, RoomReads
    <3> QED BY <3>5, <3>6
  <2>4. BankReads(e)'
    <3> SUFFICES ASSUME NEW b \in Banks, bsp'[b] \in Readers, bsp'[b].buf = e.buf
                 PROVE  /\ ~e.ready /\ Span(bsp'[b]) = Wanted(e)
                        /\ \A s \in Sectors : s \in Wanted(e) /\ e.want[s] \in Written =>
                             flash[b][bsp'[b].row][s] = e.want[s]
      BY <1>1 DEF BankReads, Wanted, Span
    <3>1. CASE b = c.bank
      <4>1. bsp'[b] = c BY <1>1, <1>3, <3>1
      <4> QED BY <2>3, <3>1, <4>1
    <3>2. CASE b # c.bank
      <4>1. bsp'[b] = bsp[b] BY <1>1, <1>3, <3>2
      <4> QED BY <2>1, <4>1 DEF EntryReads, BankReads
    <3> QED BY <3>1, <3>2
  <2> QED BY <1>1, <2>1, <2>2, <2>4 DEF EntryReads, Wanted
<1> QED BY <1>2, <1>5, <1>6 DEF HostReads

\* A bank finishes: what it has read for the host is what the host should get.
LEMMA BankCompletesReads ==
  ASSUME Base, HostReads, NEW b \in Banks, BankCompletes(b)
  PROVE  HostReads'
<1>0. IInv /\ FlashTypes /\ Types /\ Order BY DEF Base, IInv, Types
<1>1. PICK k : k = bsp[b] OBVIOUS
<1>2. /\ \A buf \in Buffers, s \in Sectors :
           dram'[buf][s] = IF k \in Readers /\ buf = k.buf /\ s \in Span(k)
                           THEN flash[b][k.row][s] ELSE dram[buf][s]
      /\ \A x \in Banks, row \in Rows, s \in Sectors :
           flash'[x][row][s] = IF k \in Pending /\ x = b /\ row = k.row /\ s \in Span(k)
                               THEN dram[k.buf][s] ELSE flash[x][row][s]
      /\ wroom' = wroom /\ k \in Commands
      /\ \A x \in Banks : x # b => bsp'[x] = bsp[x]
      /\ Readers' \subseteq Readers
      /\ UNCHANGED <<page_map, latest>>
  BY <1>1, CompletesFacts
<1>3. bsp'[b] \notin Readers'
  <2>1. bsp'[b] = NoCmd BY <1>0, CompleteMoves DEF BankCompletes
  <2> QED BY <2>1, CommandFacts DEF Readers
<1>4. /\ RdSlots'
      /\ \A e \in Entries : \E d \in Entries' : d.buf = e.buf
      /\ \A d \in Entries' : \E e \in Entries :
           /\ d.buf = e.buf /\ d.mapped = e.mapped /\ d.col = e.col /\ d.cnt = e.cnt
           /\ d.want = e.want
           /\ d.ready <=> e.ready \/ k.buf = e.buf
  BY <1>1, CompletesSlots DEF HostReads
<1>5. k.buf \in ReadBuffers => k \in Readers
  <2>1. k.fc \in {"READ", "PROG"} BY <1>2, CommandFacts
  <2>2. k.fc = "PROG" => k \in Pending BY <1>1 DEF Pending, UnderWay
  <2>3. k.fc = "READ" => k \in Readers BY <1>1, ReadersAre
  <2>4. k \in Pending => k.buf \in WriteBuffers BY <1>0, PendingBuffers
  <2> QED BY <1>0, <2>1, <2>2, <2>3, <2>4, ReadBufferFacts
<1>6. ASSUME k.buf \in ReadBuffers
      PROVE  /\ wroom \in Readers => wroom.buf # k.buf
             /\ \A x \in Banks : x # b /\ bsp[x] \in Readers => bsp[x].buf # k.buf
  BY <1>1, <1>5, <1>6 DEF HostReads, ReadersApart
<1>7. ReadersApart'
  <2>1. ASSUME NEW r \in Readers', r.buf \in ReadBuffers PROVE \E d \in Entries' : d.buf = r.buf
    <3>1. PICK e \in Entries : e.buf = r.buf BY <1>2, <2>1 DEF HostReads, ReadersApart
    <3> QED BY <1>4, <3>1
  <2>2. ASSUME NEW y \in Banks, bsp'[y] \in Readers', bsp'[y].buf \in ReadBuffers
        PROVE  /\ wroom' \in Readers' => wroom'.buf # bsp'[y].buf
               /\ \A x \in Banks : x # y /\ bsp'[x] \in Readers' => bsp'[x].buf # bsp'[y].buf
    <3>1. y # b /\ bsp'[y] = bsp[y] /\ bsp[y] \in Readers /\ bsp[y].buf \in ReadBuffers
      BY <1>2, <1>3, <2>2
    <3>2. /\ wroom \in Readers => wroom.buf # bsp[y].buf
          /\ \A x \in Banks : x # y /\ bsp[x] \in Readers => bsp[x].buf # bsp[y].buf
      BY <3>1 DEF HostReads, ReadersApart
    <3>3. \A x \in Banks : bsp'[x] \in Readers' => bsp'[x] = bsp[x] /\ bsp[x] \in Readers
      BY <1>2, <1>3
    <3> QED BY <1>2, <3>1, <3>2, <3>3
  <2> QED BY <2>1, <2>2 DEF ReadersApart, ReadBuffers
<1>8. ASSUME NEW d \in Entries' PROVE EntryReads(d)'
  <2>1. PICK e \in Entries :
          /\ d.buf = e.buf /\ d.mapped = e.mapped /\ d.col = e.col /\ d.cnt = e.cnt
          /\ d.want = e.want
          /\ d.ready <=> e.ready \/ k.buf = e.buf
    BY <1>4
  <2>2. EntryReads(e) /\ e.buf \in ReadBuffers /\ e.buf \in Buffers
    BY <1>0, SlotFacts, ReadBufferFacts DEF HostReads
  <2>3. Wanted(d) = Wanted(e) BY <2>1 DEF Wanted
  <2>4. RoomReads(d)'
    <3>1. CASE wroom \in Readers /\ wroom.buf = e.buf
      <4>1. k.buf # e.buf BY <1>6, <2>2, <3>1
      <4>2. RoomReads(e) BY <2>2 DEF EntryReads
      <4> QED BY <1>2, <2>1, <2>3, <4>1, <4>2 DEF RoomReads, At, Val, Wanted
    <3>2. CASE ~(wroom \in Readers /\ wroom.buf = e.buf) BY <1>2, <2>1, <3>2 DEF RoomReads
    <3> QED BY <3>1, <3>2
  <2>5. ASSUME NEW x \in Banks, bsp'[x] \in Readers', bsp'[x].buf = d.buf
        PROVE  /\ ~d.ready /\ Span(bsp'[x]) = Wanted(d)
               /\ \A s \in Sectors : s \in Wanted(d) /\ d.want[s] \in Written =>
                    flash'[x][bsp'[x].row][s] = d.want[s]
    <3>1. x # b /\ bsp'[x] = bsp[x] /\ bsp[x] \in Readers /\ bsp[x].buf = e.buf
      BY <1>2, <1>3, <2>1, <2>5
    <3>2. /\ ~e.ready /\ Span(bsp[x]) = Wanted(e)
          /\ \A s \in Sectors : s \in Wanted(e) /\ e.want[s] \in Written =>
               flash[x][bsp[x].row][s] = e.want[s]
      BY <2>2, <3>1 DEF EntryReads, BankReads
    <3>3. k.buf # e.buf BY <1>6, <2>2, <3>1
    <3>4. bsp[x].row \in Rows BY <1>0, <3>1, PendingPlace
    <3>5. \A s \in Sectors : flash'[x][bsp[x].row][s] = flash[x][bsp[x].row][s] BY <1>2, <3>1, <3>4
    <3> QED BY <2>1, <2>3, <3>1, <3>2, <3>3, <3>5
  <2>6. BankReads(d)' BY <2>5 DEF BankReads, Wanted, Span
  <2>7. ASSUME d.ready, NEW s \in Wanted(d)
        PROVE  dram'[d.buf][s] = d.want[s] \/ (d.want[s] = Erased /\ d.mapped)
    <3>1. s \in Wanted(e) /\ s \in Sectors BY <2>2, <2>3, <2>7 DEF EntryReads
    <3>2. CASE k.buf = e.buf
      <4>1. k \in Readers BY <1>5, <2>2, <3>2
      <4>2. ~e.ready /\ Span(k) = Wanted(e)
            /\ (e.want[s] \in Written => flash[b][k.row][s] = e.want[s])
        BY <1>1, <2>2, <3>1, <3>2, <4>1 DEF EntryReads, BankReads
      <4>3. e.mapped /\ e.want[s] \in Written \cup {Erased} BY <2>2, <3>1, <4>2 DEF EntryReads
      <4>4. dram'[e.buf][s] = flash[b][k.row][s] BY <1>2, <2>2, <3>1, <3>2, <4>1, <4>2
      <4> QED BY <2>1, <4>2, <4>3, <4>4
    <3>3. CASE k.buf # e.buf
      <4>1. e.ready /\ dram'[e.buf][s] = dram[e.buf][s] BY <1>2, <2>1, <2>2, <2>7, <3>1, <3>3
      <4> QED BY <2>1, <2>2, <3>1, <4>1 DEF EntryReads
    <3> QED BY <3>2, <3>3
  <2>8. /\ ~d.ready => d.mapped
        /\ \A s \in Sectors : d.want[s] \in Written \cup {Erased}
        /\ \A s \in Wanted(d) : s \in Sectors
    BY <2>1, <2>2, <2>3 DEF EntryReads
  <2> QED BY <2>4, <2>6, <2>7, <2>8 DEF EntryReads, Wanted
<1> QED BY <1>4, <1>7, <1>8 DEF HostReads

\* What the data of the next page is: ftl_read sets up its entry.
LEMMA NewEntry ==
  ASSUME Base, HostReads, NEW ready \in BOOLEAN, ReadPage(ready), op.call = "read"
  PROVE  /\ RdSlots' /\ op.at.lpage \in LPages
         /\ \A d \in Entries : d.buf # RD_BUF(g_ftl_read_buf_id) /\ d.buf \in ReadBuffers
         /\ \A r \in Readers : r.buf # RD_BUF(g_ftl_read_buf_id)
         /\ RD_BUF(g_ftl_read_buf_id) \in ReadBuffers
         /\ UNCHANGED <<page_map, latest>>
         /\ \E e \in RdEntries :
              /\ Entries' = Entries \cup {e}
              /\ e.buf = RD_BUF(g_ftl_read_buf_id)
              /\ Wanted(e) = op.at.off .. op.at.off + Now(op.at) - 1
              /\ \A s \in Wanted(e) : s \in Sectors
              /\ (e.ready <=> ready) /\ (e.mapped <=> Old # NULL)
              /\ \A s \in Sectors : e.want[s] = Val(op.at.lpage, s)
                                    /\ e.want[s] \in Written \cup {Erased}
                                    /\ (e.want[s] \in Written => Old # NULL)
<1>0. Types /\ CallTypes /\ Mapping BY DEF Base, IInv, Types
<1>1. op.at.remain > 0 /\ op.at \in Places /\ Inside(op.at) BY <1>0, CallFacts
<1>2. /\ op.at.lpage \in LPages /\ op.at.off \in Nat /\ Now(op.at) \in Nat
      /\ op.at.off + Now(op.at) <= SPP
  BY <1>0, <1>1, PageFacts, NextFacts DEF Left
<1>3. /\ RdSlots'
      /\ \E e \in RdEntries :
           /\ Entries' = Entries \cup {e}
           /\ e.buf = RD_BUF(g_ftl_read_buf_id) /\ e.col = op.at.off /\ e.cnt = Now(op.at)
           /\ (e.ready <=> ready) /\ (e.mapped <=> page_map[op.at.lpage] # NULL)
           /\ \A s \in Sectors : e.want[s] = Val(op.at.lpage, s)
  BY <1>0, ReadPageSlots DEF HostReads
<1>4. PICK e \in RdEntries :
        /\ Entries' = Entries \cup {e}
        /\ e.buf = RD_BUF(g_ftl_read_buf_id) /\ e.col = op.at.off /\ e.cnt = Now(op.at)
        /\ (e.ready <=> ready) /\ (e.mapped <=> page_map[op.at.lpage] # NULL)
        /\ \A s \in Sectors : e.want[s] = Val(op.at.lpage, s)
  BY <1>3
<1>5. Wanted(e) = op.at.off .. op.at.off + Now(op.at) - 1 BY <1>4 DEF Wanted
<1>6. \A s \in Wanted(e) : s \in Sectors BY <1>2, <1>5, GeometryFacts
<1>7. ASSUME NEW s \in Sectors
      PROVE  e.want[s] \in Written \cup {Erased} /\ (e.want[s] \in Written => Old # NULL)
  <2>1. op.at.lpage * SPP + s \in LSectors BY <1>2, SectorFacts
  <2>2. PICK x \in LSectors : x = op.at.lpage * SPP + s BY <2>1
  <2>3. latest[x] \in Written \cup {Erased} BY <1>0, <2>2 DEF Mapping
  <2>4. Val(op.at.lpage, s) \in Written \cup {Erased} BY <2>2, <2>3 DEF Val
  <2>5. Val(op.at.lpage, s) \in Written => page_map[op.at.lpage] # NULL BY <1>0, <1>2 DEF Mapping
  <2> QED BY <1>4, <2>4, <2>5 DEF Old
<1>8. /\ \A d \in Entries : d.buf # RD_BUF(g_ftl_read_buf_id) /\ d.buf \in ReadBuffers
      /\ RD_BUF(g_ftl_read_buf_id) \in ReadBuffers
  BY <1>0, SlotFacts, ReadBufferFacts DEF HostReads
<1>9. ASSUME NEW r \in Readers, r.buf = RD_BUF(g_ftl_read_buf_id) PROVE FALSE
  <2>1. \E d \in Entries : d.buf = r.buf BY <1>8, <1>9 DEF HostReads, ReadersApart
  <2> QED BY <1>8, <1>9, <2>1
<1>10. UNCHANGED <<page_map, latest>> BY DEF ReadPage
<1> QED BY <1>2, <1>3, <1>4, <1>5, <1>6, <1>7, <1>8, <1>9, <1>10 DEF Old

\* A page never written: the buffer is filled with 0xFF at once.
LEMMA FtlReadUnwrittenReads ==
  ASSUME Base, HostReads, ftl_read_unwritten
  PROVE  HostReads'
<1>0. FlashTypes /\ Types BY DEF Base, IInv, Types
<1>1. PICK buf0, n : buf0 = RD_BUF(g_ftl_read_buf_id) /\ n = op.at.off + Now(op.at) - 1 OBVIOUS
<1>2. /\ op.call = "read" /\ Old = NULL /\ AllIdle /\ ReadPage(TRUE)
      /\ dram' = [dram EXCEPT ![buf0] = [s \in Sectors |->
           IF s \in op.at.off .. n THEN Erased ELSE @[s]]]
      /\ UNCHANGED <<wroom, bsp, flash>>
  BY <1>1 DEF ftl_read_unwritten, Old
<1>3. /\ RdSlots' /\ buf0 \in ReadBuffers
      /\ \A d \in Entries : d.buf # buf0 /\ d.buf \in ReadBuffers
      /\ \E e \in RdEntries :
           /\ Entries' = Entries \cup {e} /\ e.buf = buf0 /\ Wanted(e) = op.at.off .. n
           /\ \A s \in Wanted(e) : s \in Sectors
           /\ e.ready
           /\ \A s \in Sectors : e.want[s] \in Written \cup {Erased} /\ e.want[s] \notin Written
  BY <1>1, <1>2, NewEntry
<1>4. PICK e \in RdEntries :
        /\ Entries' = Entries \cup {e} /\ e.buf = buf0 /\ Wanted(e) = op.at.off .. n
        /\ \A s \in Wanted(e) : s \in Sectors
        /\ e.ready
        /\ \A s \in Sectors : e.want[s] \in Written \cup {Erased} /\ e.want[s] \notin Written
  BY <1>3
<1>5. buf0 \in Buffers /\ \A d \in Entries : d.buf \in Buffers BY <1>0, <1>3, ReadBufferFacts
<1>6. /\ \A s \in Sectors : s \in op.at.off .. n => dram'[buf0][s] = Erased
      /\ \A buf \in Buffers : buf # buf0 => dram'[buf] = dram[buf]
  BY <1>0, <1>2, <1>5 DEF FlashTypes
<1>7. Readers' = {} BY <1>2, CommandFacts DEF AllIdle, Readers, UnderWay
<1>8. wroom' \notin Readers' /\ \A b \in Banks : bsp'[b] \notin Readers' BY <1>7
<1>9. ReadersApart' BY <1>7 DEF ReadersApart
<1>10. ASSUME NEW d \in Entries' PROVE EntryReads(d)'
  <2>1. RoomReads(d)' /\ BankReads(d)' BY <1>8 DEF RoomReads, BankReads
  <2>2. CASE d \in Entries
    <3>1. EntryReads(d) BY <2>2 DEF HostReads
    <3>2. dram'[d.buf] = dram[d.buf] BY <1>3, <1>5, <1>6, <2>2
    <3> QED BY <2>1, <3>1, <3>2 DEF EntryReads, Wanted
  <2>3. CASE d = e
    <3>1. \A s \in Wanted(e) : dram'[e.buf][s] = e.want[s] BY <1>4, <1>6
    <3> QED BY <1>4, <2>1, <2>3, <3>1 DEF EntryReads, Wanted
  <2> QED BY <1>4, <2>2, <2>3
<1> QED BY <1>3, <1>9, <1>10 DEF HostReads

\* A page that is mapped: its read command waits for the bank, and the entry for both.
LEMMA FtlReadMappedReads ==
  ASSUME Base, HostReads, ftl_read_mapped
  PROVE  HostReads'
<1>0. FlashTypes /\ Types /\ CallTypes BY DEF Base, IInv, Types
<1>1. PICK buf0, l0 : buf0 = RD_BUF(g_ftl_read_buf_id) /\ l0 = op.at.lpage OBVIOUS
<1> DEFINE cmd == Cmd("READ", BankOf(Old), RowOf(Old), op.at.off, Now(op.at), buf0, NoPage)
<1>2. /\ op.call = "read" /\ Old # NULL /\ ReadPage(FALSE) /\ flash_issue_cmd(cmd)
      /\ UNCHANGED <<bsp, flash, dram>>
  BY <1>1 DEF ftl_read_mapped, Old
<1>3. /\ RdSlots' /\ buf0 \in ReadBuffers /\ l0 \in LPages
      /\ \A d \in Entries : d.buf # buf0 /\ d.buf \in ReadBuffers
      /\ \A r \in Readers : r.buf # buf0
      /\ UNCHANGED <<page_map, latest>>
      /\ \E e \in RdEntries :
           /\ Entries' = Entries \cup {e} /\ e.buf = buf0
           /\ Wanted(e) = op.at.off .. op.at.off + Now(op.at) - 1
           /\ \A s \in Wanted(e) : s \in Sectors
           /\ ~e.ready /\ e.mapped
           /\ \A s \in Sectors : e.want[s] = Val(l0, s) /\ e.want[s] \in Written \cup {Erased}
  BY <1>1, <1>2, NewEntry
<1>4. PICK e \in RdEntries :
        /\ Entries' = Entries \cup {e} /\ e.buf = buf0
        /\ Wanted(e) = op.at.off .. op.at.off + Now(op.at) - 1
        /\ \A s \in Wanted(e) : s \in Sectors
        /\ ~e.ready /\ e.mapped
        /\ \A s \in Sectors : e.want[s] = Val(l0, s) /\ e.want[s] \in Written \cup {Erased}
  BY <1>3
<1>51. /\ cmd \in Commands /\ cmd.fc = "READ" /\ cmd.buf = buf0
      /\ cmd.bank = BankOf(Old) /\ cmd.row = RowOf(Old) /\ Span(cmd) = Wanted(e)
  <2>1. buf0 \in Buffers BY <1>0, <1>3, ReadBufferFacts
  <2>2. op.at.remain > 0 BY <1>0, <1>2, CallFacts
  <2>3. BankOf(Old) \in Banks /\ RowOf(Old) \in Rows /\ op.at.off \in Nat /\ Now(op.at) \in Nat
    BY <1>0, <1>2, <2>2, PageFacts DEF Left
  <2>4. /\ cmd \in Commands /\ cmd.fc = "READ" /\ cmd.buf = buf0
        /\ cmd.bank = BankOf(Old) /\ cmd.row = RowOf(Old)
        /\ cmd.col = op.at.off /\ cmd.cnt = Now(op.at)
    BY <2>1, <2>3, CmdMade DEF NoPage
  <2> QED BY <1>4, <2>4 DEF Span
<1>5. PICK c \in Commands :
        /\ c = cmd /\ c.fc = "READ" /\ c.buf = buf0
        /\ c.bank = BankOf(Old) /\ c.row = RowOf(Old) /\ Span(c) = Wanted(e)
  BY <1>51
<1> HIDE DEF cmd
<1>6. At(c, l0) BY <1>1, <1>2, <1>5 DEF At, Old
<1>7. /\ wroom = NoCmd /\ wroom' = c /\ Readers' = Readers \cup {c}
  <2>1. flash_issue_cmd(c) BY <1>2, <1>5
  <2> QED BY <1>0, <1>2, <1>5, <2>1, IssueMoves
<1>8. \A b \in Banks : bsp'[b] = bsp[b] /\ (bsp[b] \in Readers' => bsp[b] \in Readers)
  BY <1>2, ReadersAre
<1>9. ReadersApart'
  <2>1. ASSUME NEW r \in Readers', r.buf \in ReadBuffers PROVE \E d \in Entries' : d.buf = r.buf
    <3>1. CASE r = c BY <1>4, <1>5, <3>1
    <3>2. CASE r \in Readers BY <1>4, <2>1, <3>2 DEF HostReads, ReadersApart
    <3> QED BY <1>7, <3>1, <3>2
  <2>2. ASSUME NEW b \in Banks, bsp[b] \in Readers', bsp[b].buf \in ReadBuffers
        PROVE  /\ wroom'.buf # bsp[b].buf
               /\ \A x \in Banks : x # b /\ bsp[x] \in Readers' => bsp[x].buf # bsp[b].buf
    <3>1. bsp[b] \in Readers BY <1>8, <2>2
    <3>2. wroom'.buf # bsp[b].buf BY <1>3, <1>5, <1>7, <3>1
    <3>3. \A x \in Banks : x # b /\ bsp[x] \in Readers => bsp[x].buf # bsp[b].buf
      BY <2>2, <3>1 DEF HostReads, ReadersApart
    <3> QED BY <1>8, <3>2, <3>3
  <2> QED BY <1>8, <2>1, <2>2 DEF ReadersApart, ReadBuffers
<1>10. ASSUME NEW d \in Entries PROVE EntryReads(d)'
  <2>1. EntryReads(d) BY DEF HostReads
  <2>2. d.buf # buf0 BY <1>3
  <2>3. RoomReads(d)' BY <1>5, <1>7, <2>2 DEF RoomReads
  <2>4. BankReads(d)'
    <3>1. BankReads(d) BY <2>1 DEF EntryReads
    <3> QED BY <1>2, <1>8, <3>1 DEF BankReads
  <2> QED BY <1>2, <2>1, <2>3, <2>4 DEF EntryReads, Wanted
<1>11. EntryReads(e)'
  <2>1. RoomReads(e)'
    <3>1. At(c, l0)' BY <1>3, <1>6 DEF At
    <3>2. \A s \in Sectors : e.want[s] = Val(l0, s)' BY <1>3, <1>4 DEF Val
    <3>3. ~e.ready /\ Span(c) = Wanted(e) BY <1>4, <1>5
    <3> QED BY <1>3, <1>7, <3>1, <3>2, <3>3 DEF RoomReads, Wanted, Span, At, Val
  <2>2. BankReads(e)' BY <1>3, <1>4, <1>8 DEF BankReads
  <2> QED BY <1>4, <2>1, <2>2 DEF EntryReads, Wanted
<1> QED BY <1>3, <1>4, <1>9, <1>10, <1>11 DEF HostReads

\* Steps that issue nothing and leave the read buffers alone.
LEMMA QuietReads ==
  ASSUME Base, HostReads,
         \/ \E w \in Writes : BeginWrite(w[1], w[2])
         \/ \E r \in Reads : BeginRead(r[1], r[2])
         \/ \E c \in Copies : BeginCopy(c[1], c[2], c[3])
         \/ issd_read_unwritten \/ issd_read_done \/ issd_write_done
         \/ UNCHANGED vars
  PROVE  HostReads'
<1>1. Types BY DEF Base, IInv
<1>2. UNCHANGED <<wroom, bsp, flash, dram, page_map, latest, rdPages, g_ftl_read_buf_id>>
  BY DEF BeginWrite, BeginRead, BeginCopy, Begin, issd_read_unwritten, issd_read_done,
         issd_write_done, vars, flashVars, ftlVars, sataVars
<1> QED BY <1>1, <1>2, ReadsSteady

\* Write data arrives in a write buffer.
LEMMA HostSendsReads ==
  ASSUME Base, HostReads, HostSends
  PROVE  HostReads'
<1>1. IInv /\ Types BY DEF Base, IInv
<1>2. PICK w, n : w = wrPages[1] /\ n = received + 1 OBVIOUS
<1>3. /\ \A buf \in Buffers, s \in Sectors :
           dram'[buf][s] = IF buf = BufOf(n) /\ s \in w.col .. w.col + w.cnt - 1
                           THEN <<w.id, w.lpage * SPP + s>> ELSE dram[buf][s]
      /\ n \in Int
  <2>1. received \in Nat BY <1>1, SendCells
  <2> QED BY <1>1, <1>2, <2>1, SendCells
<1>4. UNCHANGED <<wroom, bsp, flash, page_map, latest, rdPages, g_ftl_read_buf_id>>
  BY DEF HostSends, ftlVars
<1>5. BufOf(n) \in WriteBuffers BY <1>1, <1>3, WriteBufferFacts
<1>6. \A buf \in ReadBuffers, s \in Sectors : dram'[buf][s] = dram[buf][s]
  <2>1. \A buf \in ReadBuffers : buf \in Buffers /\ buf # BufOf(n) BY <1>1, <1>5, ReadBufferFacts
  <2> QED BY <1>3, <2>1
<1> QED BY <1>1, <1>4, <1>6, ReadsSteady

\* A page is begun: the sectors of a copy go into the buffer that it is put together in.
LEMMA StartPageReads ==
  ASSUME Base, HostReads, StartPage
  PROVE  HostReads'
<1>1. IInv /\ Types /\ FlashTypes BY DEF Base, IInv, Types
<1>2. /\ UNCHANGED <<wroom, bsp, flash, page_map, g_ftl_read_buf_id, rdPages, latest>>
      /\ dram' = dram \/ dram' = CopyIn
  BY <1>1, StartPageFacts
<1>3. \A buf \in ReadBuffers : dram'[buf] = dram[buf]
  <2>1. \A buf \in ReadBuffers : buf \in Buffers /\ buf # ISSD_WR_BUF
    BY <1>1, ReadBufferFacts, WriteBufferFacts
  <2> QED BY <1>1, <1>2, <2>1 DEF CopyIn, FlashTypes
<1> QED BY <1>1, <1>2, <1>3, ReadsSteady

\* Reads of old data go into write buffers, those of a copy into the computing buffer.
LEMMA OldDataReads ==
  ASSUME Base, HostReads, ReadLeftHole \/ ReadRightHole \/ issd_read_page
  PROVE  HostReads'
<1>1. IInv /\ Types BY DEF Base, IInv
<1>2. /\ UNCHANGED <<bsp, flash, dram, page_map, latest, rdPages, g_ftl_read_buf_id>>
      /\ wroom'.buf \notin ReadBuffers
  <2>1. CASE ReadLeftHole \/ ReadRightHole
    <3>1. /\ UNCHANGED <<bsp, flash, dram, ftlVars, ops, sataVars, latest>>
          /\ \E col \in Nat, cnt \in Nat :
               LET cmd == Cmd("READ", BankOf(Old), RowOf(Old), col, cnt, Buf, NoPage)
               IN flash_issue_cmd(cmd)
      BY <1>1, <2>1, ReadHoleFacts
    <3>2. wroom'.buf = Buf BY <3>1 DEF flash_issue_cmd, Cmd
    <3>3. Buf \notin ReadBuffers BY <1>1, WriteBufferFacts, ReadBufferFacts
    <3> QED BY <3>1, <3>2, <3>3 DEF ftlVars, sataVars
  <2>2. CASE issd_read_page
    <3>1. /\ UNCHANGED <<bsp, flash, dram, ftlVars, ops, sataVars, latest>>
          /\ wroom' = Cmd("READ", BankOf(Old), RowOf(Old), op.at.off, Now(op.at),
                          COMP(op.page), NoPage)
      BY <1>1, <2>2, CopyReadFacts
    <3>2. wroom'.buf = COMP(op.page) BY <3>1 DEF Cmd
    <3>3. COMP(op.page) \notin ReadBuffers BY <1>1, ReadBufferFacts
    <3> QED BY <3>1, <3>2, <3>3 DEF ftlVars, sataVars
  <2> QED BY <2>1, <2>2
<1> QED BY <1>1, <1>2, ReadsSteady

\* A page is given to its bank: what a page under way to the host should hold is what
\* was written before it was asked for.
LEMMA ProgramReads ==
  ASSUME Base, HostReads, ftl_write_page \/ issd_write_page
  PROVE  HostReads'
<1>1. IInv /\ Order /\ Types BY DEF Base, IInv
<1>2. PICK page \in Nat : op.call \in {"write", "copy"} /\ ProgramPage(page)
  <2>1. CASE ftl_write_page
    <3>1. op.call = "write" /\ ProgramPage(issued + 1) /\ issued \in Nat
      BY <1>1, <2>1, FtlWriteFacts
    <3>2. issued + 1 \in Nat BY <3>1
    <3> QED BY <3>1, <3>2
  <2>2. CASE issd_write_page
    <3>1. op.call = "copy" /\ ProgramPage(0) BY <1>1, <2>2, IssdWriteFacts
    <3>2. 0 \in Nat OBVIOUS
    <3> QED BY <3>1, <3>2
  <2> QED BY <2>1, <2>2
<1>3. wroom'.fc = "PROG" /\ UNCHANGED <<bsp, flash, dram, g_ftl_read_buf_id, rdPages>>
  BY <1>1, <1>2, ProgramMoves
<1> QED BY <1>1, <1>3, ReadsSteady

\* Nothing is read yet.
LEMMA InitHostReads == Init => HostReads
<1> SUFFICES ASSUME Init PROVE HostReads OBVIOUS
<1>1. /\ wroom = NoCmd /\ bsp = [b \in Banks |-> NoCmd]
      /\ rdPages = << >> /\ g_ftl_read_buf_id = 0
  BY DEF Init, FlashInit
<1>2. Readers = {} BY <1>1, CommandFacts DEF Readers, UnderWay
<1>3. Entries = {} BY <1>1 DEF Entries
<1>4. RdSlots
  <2>1. NUM_RD_BUFFERS \in Nat \ {0} BY GeometryFacts
  <2>2. 0 = 0 % NUM_RD_BUFFERS BY <2>1, ModSmall
  <2>3. rdPages \in Seq(RdEntries) /\ Len(rdPages) = 0 BY <1>1, EmptySeq
  <2>4. 0 < NUM_RD_BUFFERS BY <2>1
  <2>5. \A i \in 1 .. Len(rdPages) :
          rdPages[i].buf = RD_BUF((0 - Len(rdPages) + i - 1) % NUM_RD_BUFFERS)
    BY <2>3
  <2> QED BY <1>1, <2>2, <2>3, <2>4, <2>5 DEF RdSlots
<1> QED BY <1>2, <1>3, <1>4 DEF HostReads, ReadersApart

\* Every step keeps what the host reads right.
LEMMA NextHostReads == Base /\ Contents /\ HostReads /\ [Next]_vars => HostReads'
<1> SUFFICES ASSUME Base, Contents, HostReads, [Next]_vars PROVE HostReads' OBVIOUS
<1>1. Types BY DEF Base, IInv
<1>2. ASSUME NEW b \in Banks, BankCompletes(b) PROVE HostReads' BY <1>2, BankCompletesReads
<1>3. CASE hardware
  BY <1>1, <1>2, <1>3, HostSendsReads, HostReceivesReads, BankAcceptsReads DEF hardware
<1>4. CASE ftl_read BY <1>4, FtlReadMappedReads, FtlReadUnwrittenReads DEF ftl_read
<1>5. CASE ftl_write BY <1>5, StartPageReads, OldDataReads, ProgramReads DEF ftl_write
<1>6. CASE issd_copy BY <1>6, OldDataReads, QuietReads, ProgramReads DEF issd_copy
<1> QED BY <1>3, <1>4, <1>5, <1>6, QuietReads DEF Next

\* A buffer that is ready for the host holds what was last written to each of its
\* sectors before the read, whatever is written, copied or read since (ReadsLatest).
THEOREM ReadsAlwaysLatest == Spec => []ReadsLatest
<1>1. Init => Base /\ Contents /\ HostReads BY InitBase, InitContents, InitHostReads
<1>2. Base /\ Contents /\ HostReads /\ [Next]_vars => Base' /\ Contents' /\ HostReads'
  BY NextBase, NextContents, NextHostReads
<1>3. HostReads => ReadsLatest
  <2> SUFFICES ASSUME HostReads, NEW i \in 1 .. Len(rdPages), rdPages[i].ready,
                      NEW s \in rdPages[i].col .. rdPages[i].col + rdPages[i].cnt - 1
               PROVE  \/ dram[rdPages[i].buf][s] = rdPages[i].want[s]
                      \/ rdPages[i].want[s] = Erased /\ rdPages[i].mapped
    BY DEF ReadsLatest
  <2>1. rdPages[i] \in Entries BY DEF Entries
  <2> QED BY <2>1 DEF HostReads, EntryReads, Wanted
<1> QED BY <1>1, <1>2, <1>3, PTL DEF Spec
=============================================================================
