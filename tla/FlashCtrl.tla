------------------------------ MODULE FlashCtrl ------------------------------
(***************************************************************************)
(* The flash controller as the firmware sees it (target_spw/flash.c): a    *)
(* command is put into the one-entry Waiting Room as soon as that is empty,*)
(* the target bank accepts it when it is idle, and every bank executes its *)
(* commands in order and independently of the other banks.  The hardware   *)
(* side (Accept, Complete) is external to the repository; it is modelled   *)
(* from the comments and waiting loops of the code that uses it.           *)
(*                                                                         *)
(* The data of a command moves at one moment between its acceptance and    *)
(* the bank's return to idle, so a buffer that is reused too early is      *)
(* noticed.                                                                *)
(***************************************************************************)
EXTENDS Integers, FiniteSets

CONSTANTS NUM_BANKS,
          VBLKS_PER_BANK,
          PAGES_PER_VBLK,
          SECTORS_PER_PAGE,
          Buffers,           \* page-sized buffers in DRAM
          Data,              \* contents of a sector, the next two included
          Erased,            \* what an erased sector reads as, 0xFF
          Cleared            \* what init_dram leaves in DRAM

ASSUME Geometry ==
  /\ {NUM_BANKS, PAGES_PER_VBLK, SECTORS_PER_PAGE} \subseteq Nat \ {0}
  /\ VBLKS_PER_BANK \in Nat \ {0, 1}

VARIABLES wroom,   \* the Waiting Room
          bsp,     \* the command each bank is executing
          flash,   \* contents of every page of every bank
          dram     \* contents of the buffers

flashVars == <<wroom, bsp, flash, dram>>

Banks   == 0 .. NUM_BANKS - 1
Rows    == 0 .. VBLKS_PER_BANK * PAGES_PER_VBLK - 1
Sectors == 0 .. SECTORS_PER_PAGE - 1
Pages   == [Sectors -> Data]
ErasedPage == [s \in Sectors |-> Erased]

\* FCP registers: cnt sectors from sector col on, to or from buf; page is the number
\* of the SATA buffer the command waits for (FO_B_SATA_W) or announces (FO_B_SATA_R)
Cmd(fc, b, row, col, cnt, buf, page) ==
  [fc |-> fc, bank |-> b, row |-> row, col |-> col, cnt |-> cnt, buf |-> buf, page |-> page]
NoCmd == [fc |-> "none"]
NoPage == 0
Span(cmd) == cmd.col .. cmd.col + cmd.cnt - 1

FlashInit ==
  /\ wroom = NoCmd
  /\ bsp = [b \in Banks |-> NoCmd]
  /\ flash = [b \in Banks |-> [r \in Rows |-> ErasedPage]]
  /\ dram = [b \in Buffers |-> [s \in Sectors |-> Cleared]]

\* flash_issue_cmd(bank, RETURN_ON_ISSUE)
flash_issue_cmd(cmd) == wroom = NoCmd /\ wroom' = cmd

UnderWay == {wroom} \cup {bsp[b] : b \in Banks}

\* what flash_finish and MON_CHABANKIDLE wait for
AllIdle == wroom = NoCmd /\ \A b \in Banks : bsp[b] = NoCmd

\* WR_STAT and BSP_FSM(b): the bank has accepted and finished what it was given
BankIdle(b) == wroom = NoCmd /\ bsp[b] = NoCmd

\* the target bank takes the command out of the Waiting Room
Accept ==
  /\ wroom # NoCmd
  /\ bsp[wroom.bank] = NoCmd
  /\ bsp' = [bsp EXCEPT ![wroom.bank] = wroom]
  /\ wroom' = NoCmd
  /\ UNCHANGED <<flash, dram>>

\* FC_COL_ROW_READ_OUT, FC_COL_OUT
ReadOut(cmd) ==
  /\ dram' = [dram EXCEPT ![cmd.buf] = [s \in Sectors |->
                IF s \in Span(cmd) THEN flash[cmd.bank][cmd.row][s] ELSE @[s]]]
  /\ UNCHANGED flash

\* FC_COL_ROW_IN_PROG
Program(cmd) ==
  /\ flash' = [flash EXCEPT ![cmd.bank][cmd.row] = [s \in Sectors |->
                IF s \in Span(cmd) THEN dram[cmd.buf][s] ELSE @[s]]]
  /\ UNCHANGED dram

\* the bank finishes its command
Complete(b) ==
  /\ bsp[b] # NoCmd
  /\ bsp[b].fc = "READ" => ReadOut(bsp[b])
  /\ bsp[b].fc = "PROG" => Program(bsp[b])
  /\ bsp' = [bsp EXCEPT ![b] = NoCmd]
  /\ UNCHANGED wroom
=============================================================================
